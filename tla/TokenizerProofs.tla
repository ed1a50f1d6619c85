-------------------------- MODULE TokenizerProofs --------------------------
(***************************************************************************)
(* Proofs about Tokenizer: the hash map keeps what it is given, byte-level *)
(* encoding keeps the bytes of the text, decoding is the way back, the     *)
(* pieces of the pre-tokenizer are those of the regular expression,        *)
(* special texts are found behind them, and merging one pair at a time     *)
(* ends as the original algorithm does; for every vocabulary, every hash   *)
(* function, every text, every division of the bytes into classes and      *)
(* every bound on the symbols of a piece.                                  *)
(***************************************************************************)
EXTENDS Tokenizer, FiniteSetTheorems, SequenceTheorems, NatRecursion

-----------------------------------------------------------------------------
(* The hash map: probing. *)

\* A table of c slots for half as many strings and some more.
Table(m, c) ==
  /\ c \in Nat \ {0} /\ c >= 2 * Len(Pieces)
  /\ m = [hash |-> m.hash, e |-> m.e] /\ m.e = [s \in 0 .. c - 1 |-> m.e[s]]
  /\ m.hash \in HashIds

\* The n-th slot looked at.
Way(m, c, key, n) == (Hash(m.hash, key) + n) % c

LEMMA WayIs ==
  ASSUME NEW m, NEW c \in Nat \ {0}, NEW key, Hash(m.hash, key) \in Nat, NEW n \in Nat
  PROVE  Way(m, c, key, n) \in 0 .. c - 1
  <1>1. Hash(m.hash, key) + n \in Int
    OBVIOUS
  <1> QED
    BY <1>1, ModNear DEF Way

\* Behind an INSTANCE, operators of the library are the same.
LEMMA SpLibrary ==
  ASSUME NEW S
  PROVE  Sp!Cardinality(S) = Cardinality(S) /\ Sp!FlattenSeq(S) = FlattenSeq(S)
  <1>1. Sp!Cardinality(S) = Cardinality(S)
    BY DEF Cardinality, Sp!Cardinality
  <1>2. Sp!FlattenSeq(S) = FlattenSeq(S)
    BY DEF FlattenSeq, Sp!FlattenSeq
  <1> QED
    BY <1>1, <1>2

LEMMA CountIs ==
  ASSUME NEW n \in Nat
  PROVE  IsFiniteSet(0 .. n - 1) /\ Cardinality(0 .. n - 1) = n
  <1>1. 0 \in Int /\ n - 1 \in Int
    OBVIOUS
  <1>2. /\ IsFiniteSet(0 .. n - 1)
        /\ Cardinality(0 .. n - 1) = IF 0 > n - 1 THEN 0 ELSE (n - 1) - 0 + 1
    BY <1>1, FS_Interval
  <1>3. Cardinality(0 .. n - 1) = n
    <2>1. CASE n = 0
      BY <1>2, <2>1
    <2>2. CASE n # 0
      BY <1>2, <2>2
    <2> QED
      BY <2>1, <2>2
  <1> QED
    BY <1>2, <1>3

LEMMA CapIs ==
  ASSUME NEW m, NEW c, Table(m, c)
  PROVE  Sp!Cap(m) = c
  <1>1. Cardinality(0 .. c - 1) = c
    BY CountIs DEF Table
  <1> QED
    BY <1>1, SpLibrary DEF Table, Sp!Cap

\* One round more leads to the same slot.
LEMMA ModRound ==
  ASSUME NEW c \in Nat \ {0}, NEW k \in Nat
  PROVE  (k + c) % c = k % c
  <1> DEFINE q == k \div c
             r == k % c
  <1>1. k = c * q + r /\ r \in 0 .. c - 1 /\ q \in Nat
    OBVIOUS
  <1> HIDE DEF q, r
  <1>2. k + c = c * (q + 1) + r /\ q + 1 \in Nat
    BY <1>1
  <1>3. (c * (q + 1) + r) \div c = q + 1
    BY <1>1, <1>2
  <1>4. k + c \in Nat
    BY <1>1
  <1>5. k + c = c * ((k + c) \div c) + ((k + c) % c) /\ (k + c) % c \in 0 .. c - 1
    BY <1>4
  <1>6. c * (q + 1) + r = c * (q + 1) + ((k + c) % c)
    <2>1. (k + c) \div c = q + 1
      BY <1>2, <1>3
    <2>2. k + c = c * (q + 1) + ((k + c) % c)
      BY <1>5, <2>1
    <2> QED
      BY <1>2, <2>2
  <1>7. c * (q + 1) \in Int
    BY <1>1
  <1>8. r = (k + c) % c
    BY <1>1, <1>5, <1>6, <1>7
  <1> QED
    BY <1>8 DEF r

\* From any place, probing comes by every slot.
LEMMA ProbesCover ==
  ASSUME NEW c \in Nat \ {0}, NEW h \in Nat, NEW s \in 0 .. c - 1
  PROVE  \E n \in 0 .. c - 1 : (h + n) % c = s
  <1> DEFINE S == {k \in Nat : \A t \in 0 .. c - 1 : \E n \in 0 .. c - 1 : (k + n) % c = t}
  <1>1. 0 \in S
    <2>1. \A t \in 0 .. c - 1 : (0 + t) % c = t
      BY ModNear
    <2> QED
      BY <2>1
  <1>2. ASSUME NEW k \in S PROVE k + 1 \in S
    <2> SUFFICES ASSUME NEW t \in 0 .. c - 1
                 PROVE  \E n \in 0 .. c - 1 : ((k + 1) + n) % c = t
      OBVIOUS
    <2>1. PICK n \in 0 .. c - 1 : (k + n) % c = t
      OBVIOUS
    <2>2. CASE n # 0
      <3>1. n - 1 \in 0 .. c - 1 /\ (k + 1) + (n - 1) = k + n
        BY <2>2
      <3> QED
        BY <2>1, <3>1
    <2>3. CASE n = 0
      <3>1. (k + c) % c = k % c
        BY ModRound
      <3>2. c - 1 \in 0 .. c - 1 /\ (k + 1) + (c - 1) = k + c /\ k + n = k
        BY <2>3
      <3> QED
        BY <2>1, <3>1, <3>2
    <2> QED
      BY <2>2, <2>3
  <1> HIDE DEF S
  <1>3. S \in SUBSET Nat
    BY DEF S
  <1>4. S = Nat
    BY <1>1, <1>2, <1>3, SetInduction
  <1> QED
    BY <1>4 DEF S

\* A slot ends the search for a key.
EndsAt(m, key, s) == m.e[s] = Sp!Free \/ Sp!Holds(m, s, key)

\* Where the search ends: the first slot on the way that is free or has the key.
LEMMA FindIs ==
  ASSUME NEW m, NEW c, Table(m, c), NEW key, Hash(m.hash, key) \in Nat,
         \E s \in 0 .. c - 1 : m.e[s] = Sp!Free
  PROVE  \E n \in 0 .. c - 1 :
            /\ Sp!Find(m, key) = Way(m, c, key, n) /\ Sp!Find(m, key) \in 0 .. c - 1
            /\ EndsAt(m, key, Sp!Find(m, key))
            /\ \A k \in 0 .. n - 1 : ~EndsAt(m, key, Way(m, c, key, k))
  <1> DEFINE P(n) == Way(m, c, key, n)
             ends == {n \in 0 .. c - 1 : EndsAt(m, key, P(n))}
  <1>1. c \in Nat \ {0} /\ Sp!Cap(m) = c /\ \A n : Sp!Probe(m, key, n) = P(n)
    BY CapIs DEF Table, Sp!Probe, Way
  <1>2. Sp!Find(m, key) = P(Sp!Min(ends))
    BY <1>1 DEF Sp!Find, EndsAt
  <1>3. \A n \in 0 .. c - 1 : P(n) \in 0 .. c - 1
    <2>1. c \in Nat \ {0} /\ \A n \in 0 .. c - 1 : n \in Nat
      BY <1>1
    <2> QED
      BY <2>1, WayIs
  <1>4. ends # {} /\ ends \in SUBSET Nat
    <2>1. PICK s \in 0 .. c - 1 : m.e[s] = Sp!Free
      OBVIOUS
    <2>2. PICK n \in 0 .. c - 1 : P(n) = s
      BY <1>1, ProbesCover DEF Way
    <2>3. n \in ends
      BY <2>1, <2>2 DEF EndsAt
    <2>4. \A k \in ends : k \in Nat
      BY <1>1
    <2> QED
      BY <2>3, <2>4
  <1>5. Sp!Min(ends) \in ends /\ \A k \in ends : Sp!Min(ends) <= k
    <2> HIDE DEF ends
    <2>1. PICK n \in ends : \A k \in ends : n <= k
      BY <1>4, LeastElement
    <2>2. \A n1 \in ends : n1 \in Int
      BY <1>4
    <2> QED
      BY <2>1, <2>2 DEF Sp!Min
  <1> DEFINE n == Sp!Min(ends)
  <1> HIDE DEF n
  <1>6. n \in 0 .. c - 1 /\ EndsAt(m, key, P(n)) /\ Sp!Find(m, key) = P(n)
    BY <1>2, <1>5 DEF n
  <1>7. \A k \in 0 .. n - 1 : ~EndsAt(m, key, P(k))
    <2> SUFFICES ASSUME NEW k \in 0 .. n - 1, EndsAt(m, key, P(k)) PROVE FALSE
      OBVIOUS
    <2>1. k \in 0 .. c - 1 /\ ~(n <= k)
      BY <1>1, <1>6
    <2>2. k \in ends
      BY <2>1
    <2> QED
      BY <1>5, <2>1, <2>2 DEF n
  <1>8. Sp!Find(m, key) \in 0 .. c - 1 /\ EndsAt(m, key, Sp!Find(m, key))
    BY <1>3, <1>6
  <1> QED
    BY <1>6, <1>7, <1>8

-----------------------------------------------------------------------------
(* The hash map: a dictionary of the pieces loaded so far. *)

\* A slot that is in use has the last of the pieces of its string.
SlotOf(m, n, s) ==
  /\ m.e[s].val \in 0 .. n - 1 /\ m.e[s].key = Sp!Str(m.e[s].val)
  /\ \A id \in 0 .. n - 1 : Sp!Str(id) = m.e[s].key => id <= m.e[s].val

\* The way to a slot in use has no gap.
Reached(m, c, s) ==
  \E k \in 0 .. c - 1 : /\ s = Way(m, c, m.e[s].key, k)
                        /\ \A j \in 0 .. k - 1 : m.e[Way(m, c, m.e[s].key, j)] # Sp!Free

\* The first n pieces are in the map, each string once and where it will be found.
MapOf(m, c, n) ==
  /\ Table(m, c) /\ n \in 0 .. Len(Pieces)
  /\ \A s \in 0 .. c - 1 : m.e[s] # Sp!Free => SlotOf(m, n, s) /\ Reached(m, c, s)
  /\ \A id \in 0 .. n - 1 : \E s \in 0 .. c - 1 : Sp!Holds(m, s, Sp!Str(id))
  /\ \A s, t \in 0 .. c - 1 :
        m.e[s] # Sp!Free /\ m.e[t] # Sp!Free /\ m.e[s].key = m.e[t].key => s = t

\* The table is never full.
LEMMA FreeSlot ==
  ASSUME NEW m, NEW c, NEW n, MapOf(m, c, n)
  PROVE  \E s \in 0 .. c - 1 : m.e[s] = Sp!Free
  <1> SUFFICES ASSUME \A s \in 0 .. c - 1 : m.e[s] # Sp!Free PROVE FALSE
    OBVIOUS
  <1> DEFINE f == [s \in 0 .. c - 1 |-> m.e[s].val]
  <1>1. c \in Nat \ {0} /\ n \in Nat /\ 2 * n <= c
    BY DEF MapOf, Table
  <1>2. f \in [0 .. c - 1 -> 0 .. n - 1]
    BY DEF MapOf, SlotOf
  <1>3. IsFiniteSet(0 .. c - 1) /\ Cardinality(0 .. c - 1) = c
    BY <1>1, CountIs
  <1>4. IsFiniteSet(0 .. n - 1) /\ Cardinality(0 .. n - 1) = n
    BY <1>1, CountIs
  <1>5. PICK x, y \in 0 .. c - 1 : x # y /\ f[x] = f[y]
    <2> HIDE DEF f
    <2>1. Cardinality(0 .. n - 1) < Cardinality(0 .. c - 1)
      BY <1>1, <1>3, <1>4
    <2> QED
      BY <1>2, <1>3, <1>4, <2>1, FS_PigeonHole
  <1>6. m.e[x].key = m.e[y].key
    BY <1>5 DEF MapOf, SlotOf
  <1> QED
    BY <1>5, <1>6 DEF MapOf

\* What is found is the slot of the key, or a free one if the key has none.
LEMMA FindInMap ==
  ASSUME NEW m, NEW c, NEW n, MapOf(m, c, n), NEW key, Hash(m.hash, key) \in Nat
  PROVE  LET f == Sp!Find(m, key) IN
         /\ f \in 0 .. c - 1
         /\ \/ Sp!Holds(m, f, key)
            \/ /\ m.e[f] = Sp!Free /\ \A s \in 0 .. c - 1 : ~Sp!Holds(m, s, key)
               /\ \E k \in 0 .. c - 1 : /\ f = Way(m, c, key, k)
                                        /\ \A j \in 0 .. k - 1 : m.e[Way(m, c, key, j)] # Sp!Free
  <1> DEFINE f == Sp!Find(m, key)
  <1>1. Table(m, c) /\ c \in Nat \ {0}
    BY DEF MapOf, Table
  <1>2. PICK k \in 0 .. c - 1 :
            /\ f = Way(m, c, key, k) /\ f \in 0 .. c - 1
            /\ EndsAt(m, key, f)
            /\ \A j \in 0 .. k - 1 : ~EndsAt(m, key, Way(m, c, key, j))
    BY <1>1, FreeSlot, FindIs
  <1> HIDE DEF f
  <1>3. ASSUME m.e[f] = Sp!Free, NEW s \in 0 .. c - 1, Sp!Holds(m, s, key) PROVE FALSE
    <2>1. m.e[s] # Sp!Free /\ m.e[s].key = key
      BY <1>3 DEF Sp!Holds
    <2>2. PICK l \in 0 .. c - 1 : /\ s = Way(m, c, key, l)
                                  /\ \A j \in 0 .. l - 1 : m.e[Way(m, c, key, j)] # Sp!Free
      BY <2>1 DEF MapOf, Reached
    <2>3. ~(k < l)
      <3>1. k < l => k \in 0 .. l - 1
        BY <1>1
      <3> QED
        BY <1>2, <1>3, <2>2, <3>1
    <2>4. ~(l < k)
      <3>1. l < k => l \in 0 .. k - 1
        BY <1>1
      <3> QED
        BY <1>2, <1>3, <2>2, <3>1 DEF EndsAt
    <2>5. k = l
      BY <1>1, <2>3, <2>4
    <2> QED
      BY <1>2, <1>3, <2>1, <2>2, <2>5
  <1>4. \A j \in 0 .. k - 1 : m.e[Way(m, c, key, j)] # Sp!Free
    BY <1>2 DEF EndsAt
  <1>5. Sp!Holds(m, f, key) \/ m.e[f] = Sp!Free
    BY <1>2 DEF EndsAt
  <1> QED
    BY <1>2, <1>3, <1>4, <1>5 DEF f

\* hmap_get: the last piece of the string, -1 if there is none.
LEMMA GetIs ==
  ASSUME NEW m, NEW c, NEW n, MapOf(m, c, n), NEW key, Hash(m.hash, key) \in Nat
  PROVE  LET v == Sp!HmapGet(m, key) IN
         \/ /\ v \in 0 .. n - 1 /\ Sp!Str(v) = key
            /\ \A id \in 0 .. n - 1 : Sp!Str(id) = key => id <= v
         \/ v = -1 /\ \A id \in 0 .. n - 1 : Sp!Str(id) # key
  <1> DEFINE f == Sp!Find(m, key)
             v == Sp!HmapGet(m, key)
  <1>1. v = m.e[f].val
    BY DEF Sp!HmapGet
  <1>2. /\ f \in 0 .. c - 1
        /\ Sp!Holds(m, f, key) \/ (m.e[f] = Sp!Free /\ \A s \in 0 .. c - 1 : ~Sp!Holds(m, s, key))
    BY FindInMap
  <1> HIDE DEF f, v
  <1>3. CASE Sp!Holds(m, f, key)
    <2>1. m.e[f] # Sp!Free /\ m.e[f].key = key
      BY <1>3 DEF Sp!Holds
    <2>2. SlotOf(m, n, f)
      BY <1>2, <2>1 DEF MapOf
    <2> QED
      BY <1>1, <2>1, <2>2 DEF SlotOf, v
  <1>4. CASE m.e[f] = Sp!Free /\ \A s \in 0 .. c - 1 : ~Sp!Holds(m, s, key)
    <2>1. v = -1
      BY <1>1, <1>4 DEF Sp!Free
    <2>2. \A id \in 0 .. n - 1 : Sp!Str(id) # key
      BY <1>4 DEF MapOf
    <2> QED
      BY <2>1, <2>2 DEF v
  <1> QED
    BY <1>2, <1>3, <1>4

LEMMA HashIs ==
  ASSUME NEW h \in HashIds, NEW id \in Sp!Ids
  PROVE  Hash(h, Sp!Str(id)) \in Nat
  <1>1. Sp!Str(id) \in Sp!Searched
    <2> DEFINE A == {Sp!Str(a) : a \in Sp!Ids}
               B == {Sp!Str(a) \o Sp!Str(c) : a, c \in Sp!Ids}
               C == {<<Sp!Blank>>}
               D == UNION {[1 .. n -> Sp!SpByte] : n \in 1 .. 4}
    <2>1. Sp!Searched = A \cup B \cup C \cup D
      BY DEF Sp!Searched
    <2>2. Sp!Str(id) \in A
      OBVIOUS
    <2> HIDE DEF A, B, C, D
    <2> QED
      BY <2>1, <2>2
  <1> QED
    BY <1>1, HashAssumption

\* hmap_put, of the next piece: into its slot, or over the earlier piece of its string.
LEMMA PutKeeps ==
  ASSUME NEW m, NEW c, NEW n, MapOf(m, c, n), n < Len(Pieces)
  PROVE  MapOf(Sp!HmapPut(m, Sp!Str(n), n), c, n + 1)
  <1> DEFINE key == Sp!Str(n)
             f == Sp!Find(m, key)
             w == Sp!HmapPut(m, key, n)
  <1>1. /\ m = [hash |-> m.hash, e |-> m.e] /\ m.e = [s \in 0 .. c - 1 |-> m.e[s]]
        /\ c \in Nat \ {0} /\ n \in Nat /\ n \in 0 .. Len(Pieces) /\ Len(Pieces) \in Int
    <2>1. Len(Pieces) \in Nat
      BY PiecesAssumption
    <2> QED
      BY <2>1 DEF MapOf, Table
  <1>2. /\ f \in 0 .. c - 1
        /\ \/ Sp!Holds(m, f, key)
           \/ /\ m.e[f] = Sp!Free /\ \A s \in 0 .. c - 1 : ~Sp!Holds(m, s, key)
              /\ \E k \in 0 .. c - 1 : /\ f = Way(m, c, key, k)
                                       /\ \A j \in 0 .. k - 1 : m.e[Way(m, c, key, j)] # Sp!Free
    <2>1. n \in Sp!Ids
      BY <1>1 DEF Sp!Ids
    <2>2. Hash(m.hash, key) \in Nat
      BY <2>1, HashIs DEF MapOf, Table
    <2> QED
      BY <2>2, FindInMap
  <1>3. w = [m EXCEPT !.e[f] = [key |-> key, val |-> n]]
    BY DEF Sp!HmapPut
  <1> HIDE DEF f, w, key
  <1>4. /\ w = [hash |-> w.hash, e |-> w.e] /\ w.hash = m.hash
        /\ w.e = [s \in 0 .. c - 1 |-> w.e[s]]
        /\ w.e[f] = [key |-> key, val |-> n]
        /\ \A s \in 0 .. c - 1 : s # f => w.e[s] = m.e[s]
    BY <1>1, <1>2, <1>3
  <1>5. w.e[f].key = key /\ w.e[f].val = n /\ w.e[f] # Sp!Free
    <2>1. w.e[f].val # Sp!Free.val
      BY <1>1, <1>4 DEF Sp!Free
    <2> QED
      BY <1>4, <2>1
  <1>6. \A s \in 0 .. c - 1 : m.e[s] # Sp!Free => w.e[s] # Sp!Free /\ w.e[s].key = m.e[s].key
    BY <1>2, <1>4, <1>5 DEF Sp!Holds
  <1>7. Table(w, c) /\ n + 1 \in 0 .. Len(Pieces)
    BY <1>1, <1>4 DEF Table, MapOf
  <1>8. \A k : \A t : Way(w, c, t, k) = Way(m, c, t, k)
    BY <1>4 DEF Way
  <1>9. ASSUME NEW id \in Sp!Ids, NEW k \in 0 .. c - 1, NEW j \in 0 .. k - 1
        PROVE  Way(m, c, Sp!Str(id), j) \in 0 .. c - 1
    <2>1. j \in Nat /\ Hash(m.hash, Sp!Str(id)) \in Nat
      BY <1>1, HashIs DEF MapOf, Table
    <2> QED
      BY <1>1, <2>1, WayIs
  <1>10. ASSUME NEW s \in 0 .. c - 1, w.e[s] # Sp!Free
         PROVE  SlotOf(w, n + 1, s)
    <2>1. CASE s = f
      BY <1>1, <1>5, <2>1 DEF SlotOf, key
    <2>2. CASE s # f
      <3>1. w.e[s] = m.e[s] /\ SlotOf(m, n, s)
        BY <1>4, <1>10, <2>2 DEF MapOf
      <3>2. m.e[s].key # key
        <4>1. CASE Sp!Holds(m, f, key)
          BY <1>2, <1>10, <2>2, <3>1, <4>1 DEF MapOf, Sp!Holds
        <4>2. CASE \A t \in 0 .. c - 1 : ~Sp!Holds(m, t, key)
          BY <1>10, <3>1, <4>2 DEF Sp!Holds
        <4> QED
          BY <1>2, <4>1, <4>2
      <3>3. \A id \in 0 .. (n + 1) - 1 : id \in 0 .. n - 1 \/ id = n
        BY <1>1
      <3>4. m.e[s].val \in 0 .. (n + 1) - 1
        BY <1>1, <3>1 DEF SlotOf
      <3> QED
        BY <3>1, <3>2, <3>3, <3>4 DEF SlotOf, key
    <2> QED
      BY <2>1, <2>2
  <1>11. ASSUME NEW s \in 0 .. c - 1, m.e[s] # Sp!Free
         PROVE  Reached(w, c, s)
    <2>1. PICK k \in 0 .. c - 1 : /\ s = Way(m, c, m.e[s].key, k)
                                  /\ \A j \in 0 .. k - 1 : m.e[Way(m, c, m.e[s].key, j)] # Sp!Free
      BY <1>11 DEF MapOf, Reached
    <2>2. w.e[s].key = m.e[s].key
      BY <1>6, <1>11
    <2>3. ASSUME NEW j \in 0 .. k - 1 PROVE w.e[Way(m, c, m.e[s].key, j)] # Sp!Free
      <3>1. m.e[Way(m, c, m.e[s].key, j)] # Sp!Free
        BY <2>1
      <3>2. m.e[s].key = Sp!Str(m.e[s].val) /\ m.e[s].val \in Sp!Ids
        BY <1>1, <1>11 DEF MapOf, SlotOf, Sp!Ids
      <3> QED
        BY <1>6, <1>9, <3>1, <3>2
    <2> QED
      BY <1>8, <2>1, <2>2, <2>3 DEF Reached
  <1>12. ASSUME m.e[f] = Sp!Free
         PROVE  Reached(w, c, f)
    <2>1. ~Sp!Holds(m, f, key)
      BY <1>12 DEF Sp!Holds
    <2>2. PICK k \in 0 .. c - 1 : /\ f = Way(m, c, key, k)
                                  /\ \A j \in 0 .. k - 1 : m.e[Way(m, c, key, j)] # Sp!Free
      BY <1>2, <2>1
    <2>3. ASSUME NEW j \in 0 .. k - 1 PROVE w.e[Way(m, c, key, j)] # Sp!Free
      <3>1. m.e[Way(m, c, key, j)] # Sp!Free
        BY <2>2
      <3>2. n \in Sp!Ids
        BY <1>1 DEF Sp!Ids
      <3> QED
        BY <1>6, <1>9, <3>1, <3>2 DEF key
    <2> QED
      BY <1>5, <1>8, <2>2, <2>3 DEF Reached
  <1>13. \A s \in 0 .. c - 1 : w.e[s] # Sp!Free => Reached(w, c, s)
    <2> SUFFICES ASSUME NEW s \in 0 .. c - 1, w.e[s] # Sp!Free PROVE Reached(w, c, s)
      OBVIOUS
    <2>1. CASE m.e[s] # Sp!Free
      BY <1>11, <2>1
    <2>2. CASE m.e[s] = Sp!Free
      <3>1. s = f
        BY <1>4, <2>2
      <3> QED
        BY <1>12, <2>2, <3>1
    <2> QED
      BY <2>1, <2>2
  <1>14. ASSUME NEW id \in 0 .. (n + 1) - 1
         PROVE  \E s \in 0 .. c - 1 : Sp!Holds(w, s, Sp!Str(id))
    <2>1. CASE id = n
      BY <1>2, <1>5, <2>1 DEF Sp!Holds, key
    <2>2. CASE id # n
      <3>1. id \in 0 .. n - 1
        BY <1>1, <2>2
      <3>2. PICK s \in 0 .. c - 1 : Sp!Holds(m, s, Sp!Str(id))
        BY <3>1 DEF MapOf
      <3> QED
        BY <1>6, <3>2 DEF Sp!Holds
    <2> QED
      BY <2>1, <2>2
  <1>15. ASSUME NEW s \in 0 .. c - 1, NEW t \in 0 .. c - 1,
                w.e[s] # Sp!Free, w.e[t] # Sp!Free, w.e[s].key = w.e[t].key, s # t
         PROVE  FALSE
    <2>1. CASE s # f /\ t # f
      BY <1>4, <1>15, <2>1 DEF MapOf
    <2>2. ASSUME NEW r \in 0 .. c - 1, r # f, w.e[r] # Sp!Free, w.e[r].key = key PROVE FALSE
      <3>1. m.e[r] # Sp!Free /\ m.e[r].key = key
        BY <1>4, <2>2
      <3>2. Sp!Holds(m, r, key)
        BY <3>1 DEF Sp!Holds
      <3>3. Sp!Holds(m, f, key)
        BY <1>2, <3>2
      <3> QED
        BY <1>2, <2>2, <3>1, <3>3 DEF MapOf, Sp!Holds
    <2> QED
      BY <1>5, <1>15, <2>1, <2>2
  <1>16. \A s \in 0 .. c - 1 : w.e[s] # Sp!Free => SlotOf(w, n + 1, s)
    BY <1>10
  <1> QED
    BY <1>7, <1>13, <1>14, <1>15, <1>16 DEF MapOf, w, key

\* hmap_init doubles the capacity until it is twice what is wanted.
LEMMA CapacityIs ==
  ASSUME NEW want \in Nat
  PROVE  LET cap[c \in Nat] == IF c < 2 * want THEN cap[2 * c] ELSE c IN
         \A c \in Nat \ {0} : cap[c] \in Nat \ {0} /\ cap[c] >= 2 * want
  <1> DEFINE N == 2 * want
             Is(f) == f = [c \in Nat |-> IF c < N THEN f[2 * c] ELSE c]
             cap == CHOOSE f : Is(f)
             From(f, k) == \A c \in Nat \ {0} : c >= N - k => f[c] = IF c < N THEN f[2 * c] ELSE c
             S == {k \in 0 .. N : \E f \in [Nat -> Nat] : From(f, k)}
  <1>0. N \in Nat
    OBVIOUS
  <1> HIDE DEF N
  <1>1. 0 \in S
    <2> DEFINE f == [c \in Nat |-> c]
    <2>1. f \in [Nat -> Nat] /\ From(f, 0)
      BY <1>0
    <2> HIDE DEF f, From
    <2> QED
      BY <1>0, <2>1
  <1>2. ASSUME NEW k \in 0 .. N - 1, k \in S PROVE k + 1 \in S
    <2>1. PICK f \in [Nat -> Nat] : From(f, k)
      BY <1>2
    <2> DEFINE low == N - (k + 1)
               g == [f EXCEPT ![low] = f[2 * low]]
    <2>2. low \in Nat /\ 2 * low \in Nat /\ (low # 0 => 2 * low # low) /\ k + 1 \in 0 .. N /\ low < N
      BY <1>0
    <2>3. /\ g \in [Nat -> Nat] /\ g[low] = f[2 * low]
          /\ \A c \in Nat : c # low => g[c] = f[c]
      BY <2>2
    <2> HIDE DEF g
    <2>4. ASSUME NEW c \in Nat \ {0}, c >= N - (k + 1)
          PROVE  g[c] = IF c < N THEN g[2 * c] ELSE c
      <3>1. CASE c = low
        <4>1. 2 * c # low /\ 2 * c \in Nat
          BY <2>2, <3>1
        <4> QED
          BY <2>2, <2>3, <3>1, <4>1
      <3>2. CASE c # low
        <4>1. c >= N - k /\ 2 * c \in Nat /\ 2 * c # low
          BY <1>0, <2>2, <2>4, <3>2
        <4> QED
          BY <2>1, <2>3, <3>2, <4>1
      <3> QED
        BY <3>1, <3>2
    <2>5. From(g, k + 1)
      BY <2>4
    <2> HIDE DEF From
    <2> QED
      BY <2>2, <2>3, <2>5
  <1>3. S = 0 .. N
    <2>1. S \in SUBSET (0 .. N)
      OBVIOUS
    <2> HIDE DEF S
    <2> QED
      BY <1>0, <1>1, <1>2, <2>1, BoundedInduction
  <1>4. PICK f \in [Nat -> Nat] : From(f, N)
    <2>1. N \in S
      <3>1. N \in 0 .. N
        BY <1>0
      <3> HIDE DEF S
      <3> QED
        BY <1>3, <3>1
    <2> QED
      BY <2>1
  <1> DEFINE h == [f EXCEPT ![0] = 0]
  <1>5. Is(h)
    <2>1. h = [c \in Nat |-> h[c]] /\ h[0] = 0 /\ \A c \in Nat : c # 0 => h[c] = f[c]
      OBVIOUS
    <2> HIDE DEF h
    <2>2. ASSUME NEW c \in Nat PROVE h[c] = IF c < N THEN h[2 * c] ELSE c
      <3>1. CASE c = 0
        BY <2>1, <3>1
      <3>2. CASE c # 0
        <4>1. 2 * c \in Nat /\ 2 * c # 0 /\ c >= N - N
          BY <1>0, <3>2
        <4> QED
          BY <1>4, <2>1, <3>2, <4>1
      <3> QED
        BY <3>1, <3>2
    <2> QED
      BY <2>1, <2>2
  <1>6. Is(cap)
    <2> HIDE DEF Is
    <2> QED
      BY <1>5
  <1> HIDE DEF cap
  <1> DEFINE T == {k \in 0 .. N : \A c \in Nat \ {0} :
                                     c >= N - k => cap[c] \in Nat \ {0} /\ cap[c] >= N}
  <1>7. T = 0 .. N
    <2>1. 0 \in T
      BY <1>0, <1>6
    <2>2. ASSUME NEW k \in 0 .. N - 1, k \in T PROVE k + 1 \in T
      <3>1. k + 1 \in 0 .. N
        BY <1>0
      <3>2. ASSUME NEW c \in Nat \ {0}, c >= N - (k + 1)
            PROVE  cap[c] \in Nat \ {0} /\ cap[c] >= N
        <4>1. CASE c < N
          <5>1. 2 * c \in Nat \ {0} /\ 2 * c >= N - k
            BY <1>0, <3>2
          <5>2. cap[c] = cap[2 * c]
            BY <1>6, <4>1
          <5> QED
            BY <2>2, <5>1, <5>2
        <4>2. CASE ~(c < N)
          BY <1>0, <1>6, <4>2
        <4> QED
          BY <4>1, <4>2
      <3> QED
        BY <3>1, <3>2
    <2>3. T \in SUBSET (0 .. N)
      OBVIOUS
    <2> HIDE DEF T
    <2> QED
      BY <1>0, <2>1, <2>2, <2>3, BoundedInduction
  <1>8. ASSUME NEW c \in Nat \ {0} PROVE cap[c] \in Nat \ {0} /\ cap[c] >= N
    <2>1. N \in T /\ c >= N - N
      <3>1. N \in 0 .. N /\ c >= N - N
        BY <1>0
      <3> HIDE DEF T
      <3> QED
        BY <1>7, <3>1
    <2> QED
      BY <2>1
  <1> QED
    BY <1>8 DEF cap, N

\* An empty map.
LEMMA InitIsMap ==
  ASSUME NEW h \in HashIds
  PROVE  \E c : MapOf(Sp!HmapInit(Len(Pieces), h), c, 0)
  <1> DEFINE want == Len(Pieces)
             cap == CHOOSE f : f = [c \in Nat |-> IF c < 2 * want THEN f[2 * c] ELSE c]
             c == cap[MinCap]
             w == Sp!HmapInit(want, h)
  <1>1. want \in Nat
    BY PiecesAssumption
  <1>2. c \in Nat \ {0} /\ c >= 2 * want
    BY <1>1, CapacityIs, MapAssumption
  <1>3. w = [hash |-> h, e |-> [s \in 0 .. c - 1 |-> Sp!Free]]
    BY DEF Sp!HmapInit
  <1> HIDE DEF c, w
  <1>4. Table(w, c)
    BY <1>2, <1>3 DEF Table
  <1>5. \A s \in 0 .. c - 1 : w.e[s] = Sp!Free
    BY <1>3
  <1>6. 0 \in 0 .. Len(Pieces) /\ 0 .. 0 - 1 = {}
    BY <1>1
  <1>7. MapOf(w, c, 0)
    BY <1>4, <1>5, <1>6 DEF MapOf
  <1> QED
    BY <1>7 DEF w

-----------------------------------------------------------------------------
(* The map of the tokenizer. *)

MapInv ==
  /\ type \in {"sp", "bpe"}
  /\ type = "sp" => \E c : MapOf(sp_map, c, loaded)
  /\ type = "sp" /\ pc # "new" => loaded = Len(Pieces)

LEMMA MapInvariant == TSpec => []MapInv
  <1>1. TInit => MapInv
    <2> SUFFICES ASSUME TInit PROVE MapInv
      OBVIOUS
    <2>1. type = "sp" => \E h \in HashIds : sp_map = Sp!HmapInit(Len(Pieces), h)
      BY DEF TInit
    <2>2. type = "sp" => \E c : MapOf(sp_map, c, 0)
      BY <2>1, InitIsMap
    <2> QED
      BY <2>2 DEF TInit, MapInv
  <1>2. MapInv /\ [TNext]_<<type, pc, b, bpe, sp>> => MapInv'
    <2> SUFFICES ASSUME MapInv, [TNext]_<<type, pc, b, bpe, sp>> PROVE MapInv'
      OBVIOUS
    <2>1. CASE type = "sp" /\ UNCHANGED type /\ Sp!SpNext
      <3>1. CASE Sp!LoadPiece
        <4>1. PICK c : MapOf(sp_map, c, loaded)
          BY <2>1 DEF MapInv
        <4>2. loaded < Len(Pieces) /\ loaded \in Int /\ loaded' = loaded + 1
              /\ sp_map' = Sp!HmapPut(sp_map, Sp!Str(loaded), loaded)
              /\ (pc' # "new" => loaded' = Len(Pieces))
          <5>1. Len(Pieces) \in Nat /\ loaded \in 0 .. Len(Pieces)
            BY <4>1, PiecesAssumption DEF MapOf
          <5> QED
            BY <3>1, <5>1 DEF Sp!LoadPiece
        <4>3. MapOf(sp_map', c, loaded')
          BY <4>1, <4>2, PutKeeps
        <4> QED
          BY <2>1, <4>2, <4>3 DEF MapInv
      <3>2. CASE pc # "new" /\ UNCHANGED <<sp_map, loaded>>
        BY <2>1, <3>2 DEF MapInv
      <3>3. Sp!SpNext => Sp!LoadPiece \/ (pc # "new" /\ UNCHANGED <<sp_map, loaded>>)
        BY DEF Sp!SpNext, Sp!SpCall, Sp!TakeCharacter, Sp!AllTaken, Sp!Join, Sp!SpReturn
      <3> QED
        BY <2>1, <3>1, <3>2, <3>3
    <2>2. CASE type = "bpe" /\ UNCHANGED type
      BY <2>2 DEF MapInv
    <2>3. CASE UNCHANGED <<type, pc, sp>>
      BY <2>3 DEF MapInv, sp
    <2> QED
      BY <2>1, <2>2, <2>3 DEF TNext, Ended, vars
  <1> QED
    BY <1>1, <1>2, PTL DEF TSpec

\* Whatever the hash function and however full the table, the map of build_sp
\* gives the id of a piece for its string, the last one if the string comes twice,
\* and -1 for any other string; probing always ends (hmap_put and hmap_get of
\* src/tokenizer.c).
THEOREM DictionaryIsKept == TSpec => []MapIsDictionary
  <1>1. MapInv => MapIsDictionary
    <2> SUFFICES ASSUME MapInv, type = "sp" PROVE Sp!MapIsDictionary
      BY DEF MapIsDictionary
    <2>1. PICK c : MapOf(sp_map, c, loaded)
      BY DEF MapInv
    <2>2. \E s \in DOMAIN sp_map.e : sp_map.e[s] = Sp!Free
      <3>1. DOMAIN sp_map.e = 0 .. c - 1
        BY <2>1 DEF MapOf, Table
      <3> QED
        BY <2>1, <3>1, FreeSlot
    <2>3. ASSUME NEW key \in Sp!Searched
          PROVE  Sp!HmapGet(sp_map, key)
                   = Sp!Max({-1} \cup {id \in 0 .. loaded - 1 : Sp!Str(id) = key})
      <3> DEFINE v == Sp!HmapGet(sp_map, key)
                 sameStr == {-1} \cup {id \in 0 .. loaded - 1 : Sp!Str(id) = key}
      <3>1. Hash(sp_map.hash, key) \in Nat
        BY <2>1, HashAssumption DEF MapOf, Table
      <3>2. \/ /\ v \in 0 .. loaded - 1 /\ Sp!Str(v) = key
               /\ \A id \in 0 .. loaded - 1 : Sp!Str(id) = key => id <= v
            \/ v = -1 /\ \A id \in 0 .. loaded - 1 : Sp!Str(id) # key
        BY <2>1, <3>1, GetIs
      <3> HIDE DEF v
      <3>3. v \in sameStr /\ v \in Int /\ \A id \in sameStr : id \in Int /\ id <= v
        BY <3>2
      <3> HIDE DEF sameStr
      <3>4. \A x \in sameStr : (\A y \in sameStr : x >= y) => x = v
        BY <3>3
      <3>5. \A y \in sameStr : v >= y
        BY <3>3
      <3>6. Sp!Max(sameStr) = v
        BY <3>3, <3>4, <3>5 DEF Sp!Max
      <3> QED
        BY <3>6 DEF v, sameStr
    <2> QED
      BY <2>2, <2>3 DEF Sp!MapIsDictionary
  <1> QED
    BY <1>1, MapInvariant, PTL

-----------------------------------------------------------------------------
(* Sequences of sequences, one after another. *)

LEMMA Associative ==
  ASSUME NEW A, NEW x \in Seq(A), NEW y \in Seq(A), NEW z \in Seq(A)
  PROVE  (x \o y) \o z = x \o (y \o z)
  BY ConcatAssociative

LEMMA ConcatAppend ==
  ASSUME NEW A, NEW s \in Seq(A), NEW t \in Seq(A), NEW x \in A
  PROVE  s \o Append(t, x) = Append(s \o t, x) /\ s \o t \in Seq(A)
  <1>1. <<x>> \in Seq(A) /\ s \o t \in Seq(A)
    OBVIOUS
  <1>2. Append(t, x) = t \o <<x>> /\ Append(s \o t, x) = (s \o t) \o <<x>>
    BY <1>1, AppendIsConcat
  <1> QED
    BY <1>1, <1>2, Associative

\* The concatenations of the first elements of s.
LEMMA FlattenSteps ==
  ASSUME NEW A, NEW s \in Seq(Seq(A))
  PROVE  \E F \in [0 .. Len(s) -> Seq(A)] :
            /\ F[0] = <<>> /\ FlattenSeq(s) = F[Len(s)]
            /\ \A k \in 1 .. Len(s) : F[k] = F[k - 1] \o s[k]
  <1> DEFINE n == Len(s)
             step == [kv \in (1 .. n) \X Seq(A) |-> kv[2] \o s[kv[1]]]
             Is(f) == f = [k \in 1 .. n |-> IF k = 1 THEN s[k] ELSE f[k - 1] \o s[k]]
             g == CHOOSE f : Is(f)
  <1>1. n \in Nat /\ \A k \in 1 .. n : s[k] \in Seq(A)
    OBVIOUS
  <1>2. FlattenSeq(s) = IF n = 0 THEN s ELSE g[n]
    BY DEF FlattenSeq
  <1>3. s = [k \in 1 .. n |-> s[k]]
    OBVIOUS
  <1> HIDE DEF n, g
  <1>4. step \in [(1 .. n) \X Seq(A) -> Seq(A)]
    <2> SUFFICES ASSUME NEW k \in 1 .. n, NEW v \in Seq(A) PROVE v \o s[k] \in Seq(A)
      OBVIOUS
    <2> QED
      BY <1>1
  <1>5. <<>> \in Seq(A)
    OBVIOUS
  <1>6. PICK F \in [0 .. n -> Seq(A)] : Recurses(F, n, <<>>, step)
    <2> HIDE DEF step
    <2> QED
      BY <1>1, <1>4, <1>5, RecursionExists
  <1>7. F[0] = <<>> /\ \A k \in 1 .. n : F[k] = F[k - 1] \o s[k]
    <2>1. 0 \in 0 .. n
      BY <1>1
    <2>2. F[0] = <<>>
      BY <1>6, <2>1 DEF Recurses
    <2>3. ASSUME NEW k \in 1 .. n PROVE F[k] = F[k - 1] \o s[k]
      <3>1. k \in 0 .. n /\ k # 0 /\ k - 1 \in 0 .. n
        BY <1>1
      <3>2. F[k] = step[<<k, F[k - 1]>>]
        BY <1>6, <3>1 DEF Recurses
      <3>3. <<k, F[k - 1]>> \in (1 .. n) \X Seq(A)
        BY <3>1
      <3> QED
        BY <3>2, <3>3
    <2> QED
      BY <2>2, <2>3
  <1>8. FlattenSeq(s) = F[n]
    <2>1. CASE n = 0
      <3>1. s = <<>>
        BY <2>1 DEF n
      <3> QED
        BY <1>2, <1>7, <2>1, <3>1
    <2>2. CASE n # 0
      <3> DEFINE f == [k \in 1 .. n |-> F[k]]
      <3>1. Is(f)
        <4> SUFFICES ASSUME NEW k \in 1 .. n
                     PROVE  F[k] = IF k = 1 THEN s[k] ELSE f[k - 1] \o s[k]
          OBVIOUS
        <4>1. CASE k = 1
          <5>1. k - 1 = 0 /\ <<>> \o s[k] = s[k] /\ F[k] = F[k - 1] \o s[k]
            <6>1. k - 1 = 0
              BY <4>1
            <6>2. F[k] = F[k - 1] \o s[k] /\ s[k] \in Seq(A)
              BY <1>1, <1>7
            <6>3. \A z \in Seq(A) : <<>> \o z = z
              OBVIOUS
            <6> QED
              BY <6>1, <6>2, <6>3
          <5>2. F[k - 1] = <<>>
            BY <1>7, <5>1
          <5> HIDE DEF f
          <5> QED
            BY <4>1, <5>1, <5>2
        <4>2. CASE k # 1
          <5>1. k - 1 \in 1 .. n
            BY <1>1, <4>2
          <5> QED
            BY <1>7, <4>2, <5>1
        <4> QED
          BY <4>1, <4>2
      <3>2. Is(g)
        <4> HIDE DEF Is, f
        <4> QED
          BY <3>1 DEF g
      <3>5. \A k \in 1 .. n : g[k] = IF k = 1 THEN s[k] ELSE g[k - 1] \o s[k]
        BY <3>2
      <3> HIDE DEF f, Is
      <3> DEFINE S == {k \in 0 .. n : k = 0 \/ g[k] = F[k]}
      <3>3. S = 0 .. n
        <4>1. 0 \in S /\ S \in SUBSET (0 .. n)
          BY <1>1
        <4>2. ASSUME NEW k \in 0 .. n - 1, k \in S PROVE k + 1 \in S
          <5>1. k + 1 \in 1 .. n /\ (k + 1) - 1 = k /\ k + 1 \in 0 .. n
            BY <1>1
          <5>2. g[k + 1] = IF k = 0 THEN s[k + 1] ELSE g[k] \o s[k + 1]
            <6>1. (k + 1 = 1) <=> (k = 0)
              OBVIOUS
            <6> QED
              BY <3>5, <5>1, <6>1
          <5>3. F[k + 1] = F[k] \o s[k + 1]
            BY <1>7, <5>1
          <5>4. <<>> \o s[k + 1] = s[k + 1]
            BY <1>1, <5>1
          <5>5. g[k + 1] = F[k + 1]
            <6>1. CASE k = 0
              BY <1>7, <5>2, <5>3, <5>4, <6>1
            <6>2. CASE k # 0
              BY <4>2, <5>2, <5>3, <6>2
            <6> QED
              BY <6>1, <6>2
          <5> QED
            BY <5>1, <5>5
        <4> HIDE DEF S
        <4> QED
          BY <1>1, <4>1, <4>2, BoundedInduction
      <3>4. n \in S
        <4>1. n \in 0 .. n
          BY <1>1
        <4> HIDE DEF S
        <4> QED
          BY <3>3, <4>1
      <3> QED
        BY <1>2, <2>2, <3>4
    <2> QED
      BY <2>1, <2>2
  <1> QED
    BY <1>6, <1>7, <1>8 DEF n

LEMMA FlattenIsSeq ==
  ASSUME NEW A, NEW s \in Seq(Seq(A))
  PROVE  FlattenSeq(s) \in Seq(A)
  <1>1. Len(s) \in 0 .. Len(s)
    OBVIOUS
  <1>2. PICK F \in [0 .. Len(s) -> Seq(A)] : FlattenSeq(s) = F[Len(s)]
    BY FlattenSteps
  <1> QED
    BY <1>1, <1>2

LEMMA FlattenEmpty == FlattenSeq(<<>>) = <<>>
  BY DEF FlattenSeq

LEMMA FlattenAppend ==
  ASSUME NEW A, NEW s \in Seq(Seq(A)), NEW x \in Seq(A)
  PROVE  FlattenSeq(Append(s, x)) = FlattenSeq(s) \o x
  <1> DEFINE t == Append(s, x)
             n == Len(s)
  <1>1. t \in Seq(Seq(A)) /\ Len(t) = n + 1 /\ n \in Nat /\ t[n + 1] = x
        /\ \A k \in 1 .. n : t[k] = s[k]
    BY AppendProperties
  <1>2. PICK F \in [0 .. n -> Seq(A)] :
            /\ F[0] = <<>> /\ FlattenSeq(s) = F[n]
            /\ \A k \in 1 .. n : F[k] = F[k - 1] \o s[k]
    BY FlattenSteps
  <1> HIDE DEF t, n
  <1>3. PICK G \in [0 .. Len(t) -> Seq(A)] :
            /\ G[0] = <<>> /\ FlattenSeq(t) = G[Len(t)]
            /\ \A k \in 1 .. Len(t) : G[k] = G[k - 1] \o t[k]
    BY <1>1, FlattenSteps
  <1> DEFINE S == {k \in 0 .. n : G[k] = F[k]}
  <1>4. S = 0 .. n
    <2>1. 0 \in S /\ S \in SUBSET (0 .. n)
      BY <1>1, <1>2, <1>3
    <2>2. ASSUME NEW k \in 0 .. n - 1, k \in S PROVE k + 1 \in S
      <3>1. /\ k + 1 \in 1 .. n /\ (k + 1) - 1 = k /\ k + 1 \in 0 .. n
            /\ k + 1 \in 1 .. Len(t)
        BY <1>1
      <3>2. G[k + 1] = G[k] \o t[k + 1] /\ F[k + 1] = F[k] \o s[k + 1] /\ t[k + 1] = s[k + 1]
        BY <1>1, <1>2, <1>3, <3>1
      <3> QED
        BY <2>2, <3>1, <3>2
    <2> HIDE DEF S
    <2> QED
      BY <1>1, <2>1, <2>2, BoundedInduction
  <1>5. G[n] = F[n]
    <2>1. n \in S
      <3>1. n \in 0 .. n
        BY <1>1
      <3> HIDE DEF S
      <3> QED
        BY <1>4, <3>1
    <2> QED
      BY <2>1
  <1>6. G[n + 1] = G[n] \o x
    <2>1. n + 1 \in 1 .. Len(t) /\ (n + 1) - 1 = n
      BY <1>1
    <2> QED
      BY <1>1, <1>3, <2>1
  <1> QED
    BY <1>1, <1>2, <1>3, <1>5, <1>6 DEF t, n

LEMMA FlattenOne ==
  ASSUME NEW A, NEW x \in Seq(A)
  PROVE  FlattenSeq(<<x>>) = x
  <1>1. <<>> \in Seq(Seq(A)) /\ Append(<<>>, x) = <<x>> /\ <<>> \o x = x
    OBVIOUS
  <1> QED
    BY <1>1, FlattenAppend, FlattenEmpty

LEMMA FlattenConcat ==
  ASSUME NEW A, NEW s \in Seq(Seq(A)), NEW t \in Seq(Seq(A))
  PROVE  FlattenSeq(s \o t) = FlattenSeq(s) \o FlattenSeq(t)
  <1> DEFINE n == Len(t)
             T(k) == SubSeq(t, 1, k)
             S == {k \in 0 .. n : FlattenSeq(s \o T(k)) = FlattenSeq(s) \o FlattenSeq(T(k))}
  <1>0. n \in Nat /\ FlattenSeq(s) \in Seq(A)
    BY FlattenIsSeq
  <1>6. \A p, q, r \in Seq(A) : (p \o q) \o r = p \o (q \o r)
    BY Associative
  <1>1. 0 \in S
    <2>1. T(0) = <<>> /\ s \o <<>> = s
      OBVIOUS
    <2>2. FlattenSeq(s) \o <<>> = FlattenSeq(s)
      BY <1>0
    <2>3. 0 \in 0 .. n
      BY <1>0
    <2>4. FlattenSeq(s \o T(0)) = FlattenSeq(s) \o FlattenSeq(T(0))
      <3> HIDE DEF T
      <3> QED
        BY <2>1, <2>2, FlattenEmpty
    <2> QED
      BY <2>3, <2>4
  <1>2. ASSUME NEW k \in 0 .. n - 1, k \in S PROVE k + 1 \in S
    <2> DEFINE x == t[k + 1]
    <2>1. k + 1 \in 1 .. Len(t) /\ k + 1 \in 0 .. n /\ x \in Seq(A)
      BY <1>0
    <2>2. T(k) \in Seq(Seq(A)) /\ T(k + 1) = Append(T(k), x)
      <3>1. T(k) \in Seq(Seq(A)) /\ Len(T(k)) = k /\ \A j \in 1 .. k : T(k)[j] = t[j]
        BY <1>0, SubSeqProperties
      <3>2. T(k + 1) \in Seq(Seq(A)) /\ Len(T(k + 1)) = k + 1
            /\ \A j \in 1 .. k + 1 : T(k + 1)[j] = t[j]
        BY <1>0, <2>1, SubSeqProperties
      <3> HIDE DEF T, x
      <3>3. Append(T(k), x) \in Seq(Seq(A)) /\ Len(Append(T(k), x)) = k + 1
            /\ Append(T(k), x)[k + 1] = x /\ \A j \in 1 .. k : Append(T(k), x)[j] = T(k)[j]
        BY <2>1, <3>1, AppendProperties
      <3>4. \A j \in 1 .. k + 1 : T(k + 1)[j] = Append(T(k), x)[j]
        <4> SUFFICES ASSUME NEW j \in 1 .. k + 1 PROVE T(k + 1)[j] = Append(T(k), x)[j]
          OBVIOUS
        <4>1. j \in 1 .. k \/ j = k + 1
          OBVIOUS
        <4>2. T(k + 1)[j] = t[j]
          BY <3>2
        <4> QED
          BY <3>1, <3>3, <4>1, <4>2 DEF x
      <3> QED
        BY <3>1, <3>2, <3>3, <3>4, SeqEqual
    <2> HIDE DEF T, x
    <2>3. s \o T(k + 1) = Append(s \o T(k), x) /\ s \o T(k) \in Seq(Seq(A))
      <3> DEFINE y == T(k)
      <3>1. x \in Seq(A) /\ y \in Seq(Seq(A)) /\ T(k + 1) = Append(y, x)
        BY <2>1, <2>2
      <3> HIDE DEF y
      <3>2. s \o Append(y, x) = Append(s \o y, x) /\ s \o y \in Seq(Seq(A))
        BY <3>1, ConcatAppend
      <3> QED
        BY <3>1, <3>2 DEF y
    <2>4. FlattenSeq(s \o T(k + 1)) = FlattenSeq(s \o T(k)) \o x
      BY <2>1, <2>3, FlattenAppend
    <2>5. FlattenSeq(T(k + 1)) = FlattenSeq(T(k)) \o x /\ FlattenSeq(T(k)) \in Seq(A)
      BY <2>1, <2>2, FlattenAppend, FlattenIsSeq
    <2>6. FlattenSeq(s \o T(k)) = FlattenSeq(s) \o FlattenSeq(T(k))
      BY <1>2
    <2>7. (FlattenSeq(s) \o FlattenSeq(T(k))) \o x = FlattenSeq(s) \o (FlattenSeq(T(k)) \o x)
      <3> DEFINE p == FlattenSeq(s)
                 q == FlattenSeq(T(k))
      <3>1. p \in Seq(A) /\ q \in Seq(A) /\ x \in Seq(A)
        BY <1>0, <2>1, <2>5
      <3> HIDE DEF p, q
      <3>2. (p \o q) \o x = p \o (q \o x)
        BY <1>6, <3>1
      <3> QED
        BY <3>2 DEF p, q
    <2> QED
      BY <2>1, <2>4, <2>5, <2>6, <2>7
  <1>3. S = 0 .. n
    <2>1. S \in SUBSET (0 .. n)
      OBVIOUS
    <2> HIDE DEF S
    <2> QED
      BY <1>0, <1>1, <1>2, <2>1, BoundedInduction
  <1>4. n \in S
    <2>1. n \in 0 .. n
      BY <1>0
    <2> HIDE DEF S
    <2> QED
      BY <1>3, <2>1
  <1>5. T(n) = t
    BY SubSeqFull
  <1> QED
    BY <1>4, <1>5

-----------------------------------------------------------------------------
(* Least and greatest numbers of a set. *)

LEMMA MinIs ==
  ASSUME NEW S \in SUBSET Nat, S # {}
  PROVE  Min(S) \in S /\ \A k \in S : Min(S) <= k
  <1>1. PICK m \in S : \A k \in S : m <= k
    BY LeastElement
  <1>2. \E x \in S : \A y \in S : x <= y
    BY <1>1
  <1> QED
    BY <1>2 DEF Min

LEMMA MaxIs ==
  ASSUME NEW n \in Nat, NEW S \in SUBSET (0 .. n), S # {}
  PROVE  Max(S) \in S
  <1> DEFINE T == {n - k : k \in S}
  <1>1. T \in SUBSET Nat /\ T # {}
    <2>1. \A k \in S : n - k \in Nat
      <3>1. \A k \in S : k \in 0 .. n
        OBVIOUS
      <3> QED
        BY <3>1
    <2> QED
      BY <2>1
  <1>2. PICK m \in T : \A k \in T : m <= k
    <2> HIDE DEF T
    <2> QED
      BY <1>1, LeastElement
  <1>3. PICK x \in S : m = n - x
    BY <1>2
  <1>4. ASSUME NEW y \in S PROVE x >= y
    <2>1. n - y \in T
      OBVIOUS
    <2>2. m <= n - y /\ x \in 0 .. n /\ y \in 0 .. n
      <3> HIDE DEF T
      <3> QED
        BY <1>2, <2>1
    <2> QED
      BY <1>3, <2>2
  <1>5. \E z \in S : \A y \in S : z >= y
    BY <1>4
  <1> QED
    BY <1>5 DEF Max

-----------------------------------------------------------------------------
(* The scanner: a piece is at least one byte, and ends within the text. *)

LEMMA RunIs ==
  ASSUME NEW A, NEW s \in Seq(A), NEW j \in 1 .. Len(s) + 1, NEW S
  PROVE  Run(s, j, S) \in 0 .. Len(s) - j + 1
  <1> DEFINE others == {p \in j .. Len(s) : s[p] \notin S}
  <1>0. Len(s) \in Nat
    OBVIOUS
  <1>1. CASE others = {}
    <2>1. Run(s, j, S) = Len(s) - j + 1
      BY <1>1 DEF Run
    <2> QED
      BY <1>0, <2>1
  <1>2. CASE others # {}
    <2>1. others \in SUBSET Nat
      BY <1>0
    <2>2. Min(others) \in j .. Len(s)
      <3>1. Min(others) \in others
        BY <1>2, <2>1, MinIs
      <3> QED
        BY <3>1
    <2>3. Run(s, j, S) = Min(others) - j
      BY <1>2 DEF Run
    <2> QED
      BY <1>0, <2>2, <2>3
  <1> QED
    BY <1>1, <1>2

LEMMA ContractionFits ==
  ASSUME NEW s \in Seq(Byte), s # <<>>
  PROVE  Contraction(s) \in 0 .. Len(s)
  <1> DEFINE found == {c \in Contractions : s[1] = Quote /\ IsPrefix(c, Tail(s))}
             c == CHOOSE x \in found : TRUE
  <1>0. Len(s) \in Nat \ {0} /\ Len(Tail(s)) = Len(s) - 1
    BY HeadTailProperties
  <1>1. CASE found = {}
    BY <1>0, <1>1 DEF Contraction
  <1>2. CASE found # {}
    <2>1. c \in found
      BY <1>2
    <2>2. Len(c) \in 1 .. 2 /\ Len(c) <= Len(Tail(s))
      BY <2>1, ClassesAssumption DEF IsPrefix
    <2>3. Contraction(s) = 1 + Len(c)
      BY <1>2 DEF Contraction
    <2> HIDE DEF c
    <2> QED
      BY <1>0, <2>2, <2>3
  <1> QED
    BY <1>1, <1>2

LEMMA WordFits ==
  ASSUME NEW s \in Seq(Byte), s # <<>>
  PROVE  Word(s) \in 0 .. Len(s)
  <1> DEFINE d == IF s[1] \in Blanks \cup Marks /\ Len(s) >= 2 /\ s[2] \in Letters THEN 1 ELSE 0
  <1>0. Len(s) \in Nat \ {0}
    OBVIOUS
  <1>1. d \in 0 .. 1 /\ d + 1 \in 1 .. Len(s) + 1
    BY <1>0
  <1>2. Word(s) = IF s[d + 1] \in Letters THEN d + Run(s, d + 1, Letters) ELSE 0
    BY DEF Word
  <1> HIDE DEF d
  <1>3. Run(s, d + 1, Letters) \in 0 .. Len(s) - (d + 1) + 1
    BY <1>1, RunIs
  <1> QED
    BY <1>0, <1>1, <1>2, <1>3

LEMMA PunctuationFits ==
  ASSUME NEW s \in Seq(Byte), s # <<>>
  PROVE  Punctuation(s) \in 0 .. Len(s)
  <1> DEFINE d == IF s[1] = Space THEN 1 ELSE 0
             j == d + Run(s, d + 1, Marks)
             r == Run(s, j + 1, Newlines)
  <1>0. Len(s) \in Nat \ {0}
    OBVIOUS
  <1>1. d \in 0 .. 1 /\ d + 1 \in 1 .. Len(s) + 1
    BY <1>0
  <1>2. Punctuation(s) = IF d < Len(s) /\ s[d + 1] \in Marks THEN j + r ELSE 0
    BY DEF Punctuation
  <1> HIDE DEF d
  <1>3. Run(s, d + 1, Marks) \in 0 .. Len(s) - (d + 1) + 1
    BY <1>1, RunIs
  <1>4. j \in 0 .. Len(s) /\ j + 1 \in 1 .. Len(s) + 1
    BY <1>0, <1>1, <1>3
  <1> HIDE DEF j
  <1>5. Run(s, j + 1, Newlines) \in 0 .. Len(s) - (j + 1) + 1
    BY <1>4, RunIs
  <1> QED
    BY <1>0, <1>2, <1>4, <1>5

LEMMA WhiteSpaceFits ==
  ASSUME NEW s \in Seq(Byte), s # <<>>
  PROVE  WhiteSpace(s) \in 0 .. Len(s)
  <1> DEFINE j == Run(s, 1, Spaces)
             newlines == {k \in 1 .. j : s[k] \in Newlines}
  <1>0. Len(s) \in Nat \ {0} /\ 1 \in 1 .. Len(s) + 1
    OBVIOUS
  <1>1. j \in 0 .. Len(s)
    <2>1. Run(s, 1, Spaces) \in 0 .. Len(s) - 1 + 1
      BY <1>0, RunIs
    <2> QED
      BY <1>0, <2>1
  <1>2. newlines # {} => Max(newlines) \in 0 .. Len(s)
    <2> HIDE DEF j
    <2>1. j \in Nat /\ newlines \in SUBSET (0 .. j)
      BY <1>0, <1>1
    <2>2. ASSUME newlines # {} PROVE Max(newlines) \in newlines
      <3> HIDE DEF newlines
      <3> QED
        BY <2>1, <2>2, MaxIs
    <2> QED
      BY <1>0, <1>1, <2>2
  <1>3. WhiteSpace(s) = IF newlines # {} THEN Max(newlines)
                        ELSE IF j = Len(s) \/ j <= 1 THEN j ELSE j - 1
    BY DEF WhiteSpace
  <1> HIDE DEF newlines, j
  <1> QED
    BY <1>0, <1>1, <1>2, <1>3

LEMMA PieceFits ==
  ASSUME NEW s \in Seq(Byte), s # <<>>
  PROVE  NextPiece(s) \in 1 .. Len(s)
  <1> DEFINE lengths == <<Contraction(s), Word(s), Digit(s), Punctuation(s), WhiteSpace(s), 1>>
             positive == {k \in 1 .. 6 : lengths[k] > 0}
  <1>0. Len(s) \in Nat \ {0}
    OBVIOUS
  <1>1. \A k \in 1 .. 6 : lengths[k] \in 0 .. Len(s)
    <2>1. Digit(s) \in 0 .. Len(s) /\ 1 \in 0 .. Len(s)
      BY <1>0 DEF Digit
    <2> QED
      BY <2>1, ContractionFits, WordFits, PunctuationFits, WhiteSpaceFits
  <1>2. NextPiece(s) = lengths[Min(positive)]
    <2>1. DOMAIN lengths = 1 .. 6
      OBVIOUS
    <2> QED
      BY <2>1 DEF NextPiece
  <1>3. 6 \in positive /\ positive \in SUBSET Nat
    OBVIOUS
  <1>4. Min(positive) \in positive
    <2> HIDE DEF positive
    <2> QED
      BY <1>3, MinIs
  <1>5. Min(positive) \in 1 .. 6 /\ lengths[Min(positive)] > 0
    BY <1>4
  <1> HIDE DEF lengths, positive
  <1> QED
    BY <1>0, <1>1, <1>2, <1>5

-----------------------------------------------------------------------------
(* Symbols spell the bytes of their piece. *)

LEMMA FlattenSingles ==
  ASSUME NEW A, NEW w \in Seq(A)
  PROVE  FlattenSeq([k \in 1 .. Len(w) |-> <<w[k]>>]) = w
  <1> DEFINE n == Len(w)
             s == [k \in 1 .. n |-> <<w[k]>>]
  <1>0. n \in Nat /\ \A k \in 1 .. n : w[k] \in A
    OBVIOUS
  <1>1. s \in Seq(Seq(A)) /\ Len(s) = n /\ \A k \in 1 .. n : s[k] = <<w[k]>>
    <2>1. \A k \in 1 .. n : <<w[k]>> \in Seq(A)
      BY <1>0
    <2>2. s \in [1 .. n -> Seq(A)]
      BY <2>1
    <2> HIDE DEF s
    <2> QED
      BY <1>0, <2>2 DEF s
  <1> HIDE DEF s, n
  <1>2. PICK F \in [0 .. n -> Seq(A)] :
            /\ F[0] = <<>> /\ FlattenSeq(s) = F[n]
            /\ \A k \in 1 .. n : F[k] = F[k - 1] \o s[k]
    BY <1>1, FlattenSteps
  <1> DEFINE S == {k \in 0 .. n : F[k] = SubSeq(w, 1, k)}
  <1>3. 0 \in S
    <2>1. 0 \in 0 .. n /\ SubSeq(w, 1, 0) = <<>>
      BY <1>0
    <2> QED
      BY <1>2, <2>1
  <1>4. ASSUME NEW k \in 0 .. n - 1, k \in S PROVE k + 1 \in S
    <2>1. /\ k + 1 \in 1 .. n /\ (k + 1) - 1 = k /\ k + 1 \in 0 .. n
          /\ 1 \in 1 .. Len(w) /\ k + 1 \in 1 .. Len(w)
      BY <1>0 DEF n
    <2>2. F[k + 1] = F[k] \o <<w[k + 1]>>
      BY <1>1, <1>2, <2>1
    <2>3. SubSeq(w, 1, k + 1) = SubSeq(w, 1, k) \o <<w[k + 1]>>
      BY <2>1, SubSeqRecursiveSecond
    <2> QED
      BY <1>4, <2>1, <2>2, <2>3
  <1>5. S = 0 .. n
    <2>1. S \in SUBSET (0 .. n)
      OBVIOUS
    <2> HIDE DEF S
    <2> QED
      BY <1>0, <1>3, <1>4, <2>1, BoundedInduction
  <1>6. F[n] = SubSeq(w, 1, n)
    <2>1. n \in S
      <3>1. n \in 0 .. n
        BY <1>0
      <3> HIDE DEF S
      <3> QED
        BY <1>5, <3>1
    <2> QED
      BY <2>1
  <1> QED
    BY <1>2, <1>6, SubSeqFull DEF n, s

LEMMA BytesSpell ==
  ASSUME NEW w \in Seq(Byte)
  PROVE  FlattenSeq(Bytes(w)) = w /\ Bytes(w) \in Seq(Vocab)
  <1>1. FlattenSeq(Bytes(w)) = w
    BY FlattenSingles DEF Bytes
  <1>2. \A k \in 1 .. Len(w) : <<w[k]>> \in Vocab
    BY DEF Vocab
  <1>3. Bytes(w) \in [1 .. Len(w) -> Vocab] /\ Len(w) \in Nat
    BY <1>2 DEF Bytes
  <1> QED
    BY <1>1, <1>3

LEMMA VocabSpells == Vocab \subseteq Seq(Byte)
  <1>1. \A k \in DOMAIN Merges : Product(k) \in Seq(Byte)
    <2> SUFFICES ASSUME NEW k \in DOMAIN Merges PROVE Product(k) \in Seq(Byte)
      OBVIOUS
    <2>1. Merges[k] \in Seq(Byte) \X Seq(Byte)
      BY VocabularyAssumption
    <2> QED
      BY <2>1 DEF Product
  <1>2. \A x \in Byte : <<x>> \in Seq(Byte)
    OBVIOUS
  <1> QED
    BY <1>1, <1>2 DEF Vocab

\* The pair joined stands side by side, and its product is a symbol.
LEMMA BestIsMerge ==
  ASSUME NEW w \in Seq(Vocab), Ranks(w) # {}
  PROVE  Best(w) \in 1 .. Len(w) - 1 /\ w[Best(w)] \o w[Best(w) + 1] \in Vocab
  <1> DEFINE r == Min(Ranks(w))
             places == {k \in 1 .. Len(w) - 1 : r \in RanksAt(w, k)}
  <1>1. Ranks(w) \in SUBSET Nat
    <2>1. DOMAIN Merges \subseteq Nat
      BY VocabularyAssumption
    <2> QED
      BY <2>1 DEF Ranks, RanksAt
  <1>2. r \in Ranks(w)
    BY <1>1, MinIs
  <1>3. places # {} /\ places \in SUBSET Nat
    <2>1. \E k \in 1 .. Len(w) - 1 : r \in RanksAt(w, k)
      <3> HIDE DEF r
      <3> QED
        BY <1>2 DEF Ranks
    <2> QED
      BY <2>1
  <1>4. Best(w) \in places
    <2>1. Best(w) = Min(places)
      BY DEF Best
    <2> HIDE DEF places
    <2> QED
      BY <1>3, <2>1, MinIs
  <1>5. Best(w) \in 1 .. Len(w) - 1 /\ r \in RanksAt(w, Best(w))
    BY <1>4
  <1>6. r \in DOMAIN Merges /\ Merges[r] = <<w[Best(w)], w[Best(w) + 1]>>
    <2> HIDE DEF r
    <2> QED
      BY <1>5 DEF RanksAt
  <1>7. Product(r) = w[Best(w)] \o w[Best(w) + 1]
    <2> HIDE DEF r
    <2>1. Merges[r][1] = w[Best(w)] /\ Merges[r][2] = w[Best(w) + 1]
      BY <1>6
    <2> QED
      BY <2>1 DEF Product
  <1> QED
    BY <1>5, <1>6, <1>7 DEF Vocab

\* Joining two neighbours changes nothing in what the symbols spell.
LEMMA JoinedSpells ==
  ASSUME NEW w \in Seq(Vocab), NEW k \in 1 .. Len(w) - 1, w[k] \o w[k + 1] \in Vocab
  PROVE  Joined(w, k) \in Seq(Vocab) /\ FlattenSeq(Joined(w, k)) = FlattenSeq(w)
  <1> DEFINE x == w[k]
             y == w[k + 1]
             p == SubSeq(w, 1, k - 1)
             r == SubSeq(w, k + 2, Len(w))
             V == Seq(Byte)
  <1>0. Len(w) \in Nat /\ k \in 1 .. Len(w) /\ k + 1 \in 1 .. Len(w)
    OBVIOUS
  <1>1. p \in Seq(Vocab) /\ r \in Seq(Vocab) /\ x \in Vocab /\ y \in Vocab
    <2>1. \A j \in 1 .. k - 1 : w[j] \in Vocab
      BY <1>0
    <2>2. p \in Seq(Vocab)
      BY <2>1, SubSeqProperties
    <2>3. \A j \in k + 2 .. Len(w) : w[j] \in Vocab
      BY <1>0
    <2>4. r \in Seq(Vocab)
      BY <1>0, <2>3, SubSeqProperties
    <2> QED
      BY <1>0, <2>2, <2>4
  <1>2. w = p \o (<<x>> \o (<<y>> \o r))
    <2>1. SubSeq(w, k, Len(w)) = <<x>> \o SubSeq(w, k + 1, Len(w))
      BY <1>0, SubSeqRecursiveFirst
    <2>2. SubSeq(w, k + 1, Len(w)) = <<y>> \o SubSeq(w, (k + 1) + 1, Len(w))
      BY <1>0, SubSeqRecursiveFirst
    <2>3. SubSeq(w, 1, k - 1) \o SubSeq(w, (k - 1) + 1, Len(w)) = SubSeq(w, 1, Len(w))
      <3>1. 1 \in 1 .. Len(w) + 1 /\ k - 1 \in 1 - 1 .. Len(w) /\ Len(w) \in k - 1 .. Len(w)
        BY <1>0
      <3> QED
        BY <3>1, ConcatAdjacentSubSeq
    <2>4. (k - 1) + 1 = k /\ (k + 1) + 1 = k + 2 /\ SubSeq(w, 1, Len(w)) = w
      BY SubSeqFull
    <2> QED
      BY <2>1, <2>2, <2>3, <2>4
  <1>3. Joined(w, k) = (p \o <<x \o y>>) \o r
    BY DEF Joined
  <1> HIDE DEF p, r, x, y
  <1>4. p \in Seq(V) /\ r \in Seq(V) /\ x \in V /\ y \in V /\ x \o y \in V
        /\ <<x>> \in Seq(V) /\ <<y>> \in Seq(V) /\ <<x \o y>> \in Seq(V)
    <2>1. \A z \in Seq(Vocab) : z \in Seq(V)
      BY VocabSpells
    <2>2. x \in V /\ y \in V
      BY <1>1, VocabSpells
    <2>3. x \o y \in V
      BY <2>2
    <2> HIDE DEF V
    <2> QED
      BY <1>1, <2>1, <2>2, <2>3
  <1> HIDE DEF V
  <1>5. \A s, t \in Seq(V) : FlattenSeq(s \o t) = FlattenSeq(s) \o FlattenSeq(t)
                             /\ s \o t \in Seq(V) /\ FlattenSeq(s) \in V
    BY FlattenConcat, FlattenIsSeq DEF V
  <1>6. \A z \in V : FlattenSeq(<<z>>) = z
    BY FlattenOne DEF V
  <1> DEFINE P == FlattenSeq(p)
             R == FlattenSeq(r)
             bx == <<x>>
             by == <<y>>
             z == x \o y
             bz == <<z>>
  <1>13. /\ bx \in Seq(V) /\ by \in Seq(V) /\ bz \in Seq(V)
         /\ FlattenSeq(bx) = x /\ FlattenSeq(by) = y /\ FlattenSeq(bz) = z
    BY <1>4, <1>6
  <1> HIDE DEF bx, by, bz, z
  <1>7. FlattenSeq(w) = P \o (x \o (y \o R))
    <2> DEFINE d == by \o r
               e == bx \o d
    <2>1. FlattenSeq(d) = y \o R /\ d \in Seq(V)
      BY <1>4, <1>5, <1>13
    <2> HIDE DEF d
    <2>2. FlattenSeq(e) = x \o (y \o R) /\ e \in Seq(V)
      <3>1. FlattenSeq(e) = FlattenSeq(bx) \o FlattenSeq(d) /\ e \in Seq(V)
        BY <1>5, <1>13, <2>1
      <3> QED
        BY <1>13, <2>1, <3>1
    <2> HIDE DEF e
    <2>3. FlattenSeq(p \o e) = P \o (x \o (y \o R))
      <3>1. FlattenSeq(p \o e) = FlattenSeq(p) \o FlattenSeq(e)
        BY <1>4, <1>5, <2>2
      <3> QED
        BY <2>2, <3>1
    <2> QED
      BY <1>2, <2>3 DEF bx, by, d, e
  <1>8. FlattenSeq(Joined(w, k)) = (P \o z) \o R
    <2>1. FlattenSeq(p \o bz) = P \o z /\ p \o bz \in Seq(V)
      BY <1>4, <1>5, <1>13
    <2>2. FlattenSeq((p \o bz) \o r) = (P \o z) \o R
      BY <1>4, <1>5, <2>1
    <2> QED
      BY <1>3, <2>2 DEF bz, z
  <1>9. P \in V /\ R \in V
    BY <1>4, <1>5
  <1> HIDE DEF P, R
  <1>10. \A q, s, t \in V : (q \o s) \o t = q \o (s \o t)
    BY Associative DEF V
  <1>11. (P \o z) \o R = P \o (x \o (y \o R))
    <2>1. z \in V
      BY <1>4 DEF z
    <2>2. (P \o z) \o R = P \o (z \o R)
      BY <1>9, <1>10, <2>1
    <2>3. z \o R = x \o (y \o R)
      BY <1>4, <1>9, <1>10 DEF z
    <2> QED
      BY <2>2, <2>3
  <1>12. Joined(w, k) \in Seq(Vocab)
    <2>1. z \in Vocab
      BY DEF x, y, z
    <2>2. (p \o <<z>>) \o r \in Seq(Vocab)
      BY <1>1, <2>1
    <2> QED
      BY <1>3, <2>2 DEF z
  <1> QED
    BY <1>7, <1>8, <1>11, <1>12

-----------------------------------------------------------------------------
(* Pieces of a text, one after another. *)

TextPart == [special : BOOLEAN, str : Seq(Byte)]

\* What the tokens of a piece spell: all of a special, SymCap bytes of another.
Kept(p) == IF p.special THEN p.str ELSE SubSeq(p.str, 1, Min({Len(p.str), SymCap}))
KeptOf(ps) == [k \in DOMAIN ps |-> Kept(ps[k])]

LEMMA CutIs ==
  ASSUME NEW s \in Seq(Byte)
  PROVE  /\ SubSeq(s, 1, Min({Len(s), SymCap})) \in Seq(Byte)
         /\ Min({Len(s), SymCap}) \in 0 .. Len(s)
  <1> DEFINE n == Min({Len(s), SymCap})
  <1>1. {Len(s), SymCap} \in SUBSET Nat /\ {Len(s), SymCap} # {}
    BY VocabularyAssumption
  <1>2. n \in {Len(s), SymCap} /\ \A k \in {Len(s), SymCap} : n <= k
    BY <1>1, MinIs
  <1>3. n \in 0 .. Len(s)
    <2> HIDE DEF n
    <2> QED
      BY <1>1, <1>2
  <1> HIDE DEF n
  <1>4. \A k \in 1 .. n : s[k] \in Byte
    BY <1>3
  <1>5. SubSeq(s, 1, n) \in Seq(Byte)
    BY <1>3, <1>4, SubSeqProperties
  <1> QED
    BY <1>3, <1>5 DEF n

LEMMA PiecesAre ==
  ASSUME NEW ps \in Seq(TextPart)
  PROVE  /\ Strings(ps) \in Seq(Seq(Byte)) /\ Len(Strings(ps)) = Len(ps)
         /\ KeptOf(ps) \in Seq(Seq(Byte)) /\ Len(KeptOf(ps)) = Len(ps)
         /\ \A k \in 1 .. Len(ps) : Strings(ps)[k] = ps[k].str /\ KeptOf(ps)[k] = Kept(ps[k])
  <1>0. DOMAIN ps = 1 .. Len(ps) /\ Len(ps) \in Nat /\ \A k \in 1 .. Len(ps) : ps[k] \in TextPart
    OBVIOUS
  <1>1. ASSUME NEW p \in TextPart PROVE p.str \in Seq(Byte) /\ Kept(p) \in Seq(Byte)
    <2>1. p.str \in Seq(Byte)
      BY DEF TextPart
    <2> QED
      BY <2>1, CutIs DEF Kept
  <1>2. Strings(ps) \in [1 .. Len(ps) -> Seq(Byte)] /\ KeptOf(ps) \in [1 .. Len(ps) -> Seq(Byte)]
    BY <1>0, <1>1 DEF Strings, KeptOf
  <1>3. \A k \in 1 .. Len(ps) : Strings(ps)[k] = ps[k].str /\ KeptOf(ps)[k] = Kept(ps[k])
    BY <1>0 DEF Strings, KeptOf
  <1>4. ASSUME NEW A, NEW n \in Nat, NEW f \in [1 .. n -> A] PROVE f \in Seq(A) /\ Len(f) = n
    OBVIOUS
  <1>5. Strings(ps) \in Seq(Seq(Byte)) /\ Len(Strings(ps)) = Len(ps)
    BY <1>0, <1>2, <1>4
  <1>6. KeptOf(ps) \in Seq(Seq(Byte)) /\ Len(KeptOf(ps)) = Len(ps)
    BY <1>0, <1>2, <1>4
  <1> QED
    BY <1>3, <1>5, <1>6

LEMMA OneMorePiece ==
  ASSUME NEW ps \in Seq(TextPart), NEW p \in TextPart
  PROVE  /\ FlattenSeq(Strings(Append(ps, p))) = FlattenSeq(Strings(ps)) \o p.str
         /\ FlattenSeq(KeptOf(Append(ps, p))) = FlattenSeq(KeptOf(ps)) \o Kept(p)
  <1> DEFINE qs == Append(ps, p)
             n == Len(ps)
  <1>0. n \in Nat /\ qs \in Seq(TextPart) /\ Len(qs) = n + 1 /\ qs[n + 1] = p
        /\ \A k \in 1 .. n : qs[k] = ps[k]
    BY AppendProperties
  <1>1. p.str \in Seq(Byte) /\ Kept(p) \in Seq(Byte)
    <2>1. p.str \in Seq(Byte)
      BY DEF TextPart
    <2> QED
      BY <2>1, CutIs DEF Kept
  <1> HIDE DEF qs
  <1>2. Strings(qs) = Append(Strings(ps), p.str)
    <2> DEFINE s == Strings(ps)
               t == Append(s, p.str)
    <2>1. s \in Seq(Seq(Byte)) /\ Len(s) = n /\ \A k \in 1 .. n : s[k] = ps[k].str
      BY PiecesAre
    <2> HIDE DEF s
    <2>2. t \in Seq(Seq(Byte)) /\ Len(t) = n + 1 /\ t[n + 1] = p.str
          /\ \A k \in 1 .. n : t[k] = s[k]
      BY <1>1, <2>1, AppendProperties
    <2>3. Strings(qs) \in Seq(Seq(Byte)) /\ Len(Strings(qs)) = n + 1
          /\ \A k \in 1 .. n + 1 : Strings(qs)[k] = qs[k].str
      BY <1>0, PiecesAre
    <2> HIDE DEF t, n
    <2>4. \A k \in 1 .. n + 1 : Strings(qs)[k] = t[k]
      <3> SUFFICES ASSUME NEW k \in 1 .. n + 1 PROVE Strings(qs)[k] = t[k]
        OBVIOUS
      <3>1. k \in 1 .. n \/ k = n + 1
        BY <1>0
      <3> QED
        BY <1>0, <2>1, <2>2, <2>3, <3>1
    <2> QED
      BY <2>2, <2>3, <2>4, SeqEqual DEF t, s
  <1>3. KeptOf(qs) = Append(KeptOf(ps), Kept(p))
    <2> DEFINE s == KeptOf(ps)
               t == Append(s, Kept(p))
    <2>1. s \in Seq(Seq(Byte)) /\ Len(s) = n /\ \A k \in 1 .. n : s[k] = Kept(ps[k])
      BY PiecesAre
    <2> HIDE DEF s
    <2>2. t \in Seq(Seq(Byte)) /\ Len(t) = n + 1 /\ t[n + 1] = Kept(p)
          /\ \A k \in 1 .. n : t[k] = s[k]
      BY <1>1, <2>1, AppendProperties
    <2>3. KeptOf(qs) \in Seq(Seq(Byte)) /\ Len(KeptOf(qs)) = n + 1
          /\ \A k \in 1 .. n + 1 : KeptOf(qs)[k] = Kept(qs[k])
      BY <1>0, PiecesAre
    <2> HIDE DEF t, n
    <2>4. \A k \in 1 .. n + 1 : KeptOf(qs)[k] = t[k]
      <3> SUFFICES ASSUME NEW k \in 1 .. n + 1 PROVE KeptOf(qs)[k] = t[k]
        OBVIOUS
      <3>1. k \in 1 .. n \/ k = n + 1
        BY <1>0
      <3> QED
        BY <1>0, <2>1, <2>2, <2>3, <3>1
    <2> QED
      BY <2>2, <2>3, <2>4, SeqEqual DEF t, s
  <1>4. Strings(ps) \in Seq(Seq(Byte)) /\ KeptOf(ps) \in Seq(Seq(Byte))
    BY PiecesAre
  <1>5. FlattenSeq(Append(Strings(ps), p.str)) = FlattenSeq(Strings(ps)) \o p.str
    BY <1>1, <1>4, FlattenAppend
  <1>6. FlattenSeq(Append(KeptOf(ps), Kept(p))) = FlattenSeq(KeptOf(ps)) \o Kept(p)
    BY <1>1, <1>4, FlattenAppend
  <1> QED
    BY <1>2, <1>3, <1>5, <1>6 DEF qs

\* The text from position j + 1 on, and its first n bytes.
LEMMA FrontOfRest ==
  ASSUME NEW t \in Seq(Byte), NEW j \in 0 .. Len(t), NEW n \in 0 .. Len(t) - j
  PROVE  LET r == SubSeq(t, j + 1, Len(t)) IN
         /\ r \in Seq(Byte) /\ Len(r) = Len(t) - j
         /\ SubSeq(r, 1, n) = SubSeq(t, j + 1, j + n)
         /\ SubSeq(r, 1, n) \in Seq(Byte) /\ Len(SubSeq(r, 1, n)) = n
         /\ SubSeq(t, 1, j) \o SubSeq(t, j + 1, j + n) = SubSeq(t, 1, j + n)
  <1> DEFINE r == SubSeq(t, j + 1, Len(t))
  <1>0. Len(t) \in Nat /\ \A k \in 1 .. Len(t) : t[k] \in Byte
    OBVIOUS
  <1>1. r \in Seq(Byte) /\ Len(r) = Len(t) - j /\ \A k \in 1 .. Len(t) - j : r[k] = t[j + k]
    <2>1. \A k \in j + 1 .. Len(t) : t[k] \in Byte
      BY <1>0
    <2>2. /\ r \in Seq(Byte)
          /\ Len(r) = IF j + 1 <= Len(t) THEN Len(t) - (j + 1) + 1 ELSE 0
          /\ \A k \in 1 .. Len(t) - (j + 1) + 1 : r[k] = t[(j + 1) + k - 1]
      BY <1>0, <2>1, SubSeqProperties
    <2>3. Len(t) - (j + 1) + 1 = Len(t) - j /\ \A k \in Int : (j + 1) + k - 1 = j + k
      BY <1>0
    <2> HIDE DEF r
    <2>4. Len(r) = Len(t) - j
      BY <1>0, <2>2
    <2>5. ASSUME NEW k \in 1 .. Len(t) - j PROVE r[k] = t[j + k]
      <3>1. r[k] = t[(j + 1) + k - 1]
        BY <1>0, <2>2, <2>3
      <3>2. (j + 1) + k - 1 = j + k
        BY <1>0
      <3> QED
        BY <3>1, <3>2
    <2> QED
      BY <2>2, <2>4, <2>5
  <1> HIDE DEF r
  <1> DEFINE u == SubSeq(r, 1, n)
             v == SubSeq(t, j + 1, j + n)
  <1>2. u \in Seq(Byte) /\ Len(u) = n /\ \A k \in 1 .. n : u[k] = r[k]
    <2>1. \A k \in 1 .. n : r[k] \in Byte
      BY <1>0, <1>1
    <2>2. /\ u \in Seq(Byte) /\ Len(u) = IF 1 <= n THEN n - 1 + 1 ELSE 0
          /\ \A k \in 1 .. n - 1 + 1 : u[k] = r[1 + k - 1]
      BY <2>1, SubSeqProperties
    <2> QED
      BY <2>2
  <1>3. v \in Seq(Byte) /\ Len(v) = n /\ \A k \in 1 .. n : v[k] = t[j + k]
    <2>1. \A k \in j + 1 .. j + n : t[k] \in Byte
      BY <1>0
    <2>2. /\ v \in Seq(Byte)
          /\ Len(v) = IF j + 1 <= j + n THEN j + n - (j + 1) + 1 ELSE 0
          /\ \A k \in 1 .. j + n - (j + 1) + 1 : v[k] = t[(j + 1) + k - 1]
      BY <2>1, SubSeqProperties
    <2>3. j + n - (j + 1) + 1 = n /\ \A k \in Int : (j + 1) + k - 1 = j + k
      OBVIOUS
    <2> QED
      BY <2>2, <2>3
  <1> HIDE DEF u, v
  <1>4. u = v
    <2>1. \A k \in 1 .. n : u[k] = v[k]
      BY <1>0, <1>1, <1>2, <1>3
    <2> QED
      BY <1>2, <1>3, <2>1, SeqEqual
  <1>5. SubSeq(t, 1, j) \o SubSeq(t, j + 1, j + n) = SubSeq(t, 1, j + n)
    <2>1. 1 \in 1 .. Len(t) + 1 /\ j \in 1 - 1 .. Len(t) /\ j + n \in j .. Len(t)
      BY <1>0
    <2> QED
      BY <2>1, ConcatAdjacentSubSeq
  <1> QED
    BY <1>1, <1>2, <1>4, <1>5 DEF r, u, v

-----------------------------------------------------------------------------
(* Byte-level encoding. *)

BpeTypes ==
  /\ type \in {"sp", "bpe"}
  /\ text \in Seq(Byte) /\ i \in 0 .. Len(text)
  /\ symbols \in Seq(Vocab) /\ tokens \in Seq(TextPart) /\ pieces \in Seq(TextPart)

\* The piece at hand is the text from i on, and its symbols spell what they may.
PieceAtHand ==
  type = "bpe" /\ pc = "merge" =>
    /\ pieces # <<>> /\ ~Last(pieces).special
    /\ i + Len(Last(pieces).str) <= Len(text)
    /\ Last(pieces).str = SubSeq(text, i + 1, i + Len(Last(pieces).str))
    /\ FlattenSeq(symbols) = Kept(Last(pieces))

BpeInv ==
  /\ BpeTypes /\ PieceAtHand /\ NothingIsLost
  /\ type = "sp" \/ pc \in {"new", "call"} => i = 0 /\ tokens = <<>> /\ pieces = <<>>

LEMMA LostIs ==
  NothingIsLost <=> /\ FlattenSeq(Strings(Scanned)) = SubSeq(text, 1, i)
                    /\ FlattenSeq(Strings(tokens)) = FlattenSeq(KeptOf(Scanned))
  BY DEF NothingIsLost, KeptOf, Kept

\* Between pieces.
LEMMA SpeltWhenScanning ==
  ASSUME pc # "merge"
  PROVE  NothingIsLost <=> /\ FlattenSeq(Strings(pieces)) = SubSeq(text, 1, i)
                           /\ FlattenSeq(Strings(tokens)) = FlattenSeq(KeptOf(pieces))
  BY LostIs DEF Scanned

LEMMA FrontAndLast ==
  ASSUME NEW ps \in Seq(TextPart), ps # <<>>
  PROVE  Front(ps) \in Seq(TextPart) /\ Last(ps) \in TextPart /\ ps = Append(Front(ps), Last(ps))
  <1> DEFINE n == Len(ps)
             f == Front(ps)
  <1>0. n \in Nat \ {0} /\ n \in 1 .. n /\ \A k \in 1 .. n : ps[k] \in TextPart
    OBVIOUS
  <1>1. f \in Seq(TextPart) /\ Len(f) = n - 1 /\ \A k \in 1 .. n - 1 : f[k] = ps[k]
    <2>1. \A k \in 1 .. n - 1 : ps[k] \in TextPart
      BY <1>0
    <2>2. /\ f \in Seq(TextPart) /\ Len(f) = IF 1 <= n - 1 THEN n - 1 - 1 + 1 ELSE 0
          /\ \A k \in 1 .. n - 1 - 1 + 1 : f[k] = ps[1 + k - 1]
      BY <1>0, <2>1, SubSeqProperties DEF Front
    <2>3. Len(f) = n - 1
      <3>1. Len(f) = IF 1 <= n - 1 THEN n - 1 - 1 + 1 ELSE 0
        BY <2>2
      <3> HIDE DEF f, n
      <3> QED
        BY <1>0, <3>1
    <2> HIDE DEF f
    <2>4. ASSUME NEW k \in 1 .. n - 1 PROVE f[k] = ps[k]
      <3>1. k \in 1 .. n - 1 - 1 + 1 /\ 1 + k - 1 = k
        BY <1>0
      <3> QED
        BY <2>2, <3>1
    <2> QED
      BY <2>2, <2>3, <2>4
  <1> HIDE DEF f
  <1>2. Last(ps) = ps[n] /\ Last(ps) \in TextPart
    BY <1>0 DEF Last
  <1> DEFINE g == Append(f, Last(ps))
  <1>3. g \in Seq(TextPart) /\ Len(g) = (n - 1) + 1 /\ g[(n - 1) + 1] = Last(ps)
        /\ \A k \in 1 .. n - 1 : g[k] = f[k]
    BY <1>1, <1>2, AppendProperties
  <1> HIDE DEF g
  <1>4. \A k \in 1 .. n : ps[k] = g[k]
    <2> SUFFICES ASSUME NEW k \in 1 .. n PROVE ps[k] = g[k]
      OBVIOUS
    <2>1. k \in 1 .. n - 1 \/ k = n
      BY <1>0
    <2>2. (n - 1) + 1 = n
      BY <1>0
    <2> QED
      BY <1>1, <1>2, <1>3, <2>1, <2>2
  <1>5. Len(g) = n
    BY <1>0, <1>3
  <1>6. ps = g
    BY <1>3, <1>4, <1>5, SeqEqual
  <1> QED
    BY <1>1, <1>2, <1>6 DEF f, g

LEMMA FrontOfAppend ==
  ASSUME NEW ps \in Seq(TextPart), NEW p \in TextPart
  PROVE  Front(Append(ps, p)) = ps /\ Last(Append(ps, p)) = p /\ Append(ps, p) # <<>>
  <1> DEFINE qs == Append(ps, p)
             n == Len(ps)
  <1>0. n \in Nat /\ qs \in Seq(TextPart) /\ Len(qs) = n + 1 /\ qs[n + 1] = p
        /\ \A k \in 1 .. n : qs[k] = ps[k] /\ ps[k] \in TextPart
    BY AppendProperties
  <1> HIDE DEF qs
  <1>1. qs # <<>> /\ Last(qs) = p
    BY <1>0 DEF Last
  <1>2. Front(qs) \in Seq(TextPart) /\ Len(Front(qs)) = n /\ \A k \in 1 .. n : Front(qs)[k] = qs[k]
    <2>0. (n + 1) - 1 = n
      BY <1>0
    <2>1. \A k \in 1 .. n : qs[k] \in TextPart
      BY <1>0
    <2>2. Front(qs) = SubSeq(qs, 1, n)
      BY <1>0, <2>0 DEF Front
    <2>3. /\ SubSeq(qs, 1, n) \in Seq(TextPart)
          /\ Len(SubSeq(qs, 1, n)) = IF 1 <= n THEN n - 1 + 1 ELSE 0
          /\ \A k \in 1 .. n - 1 + 1 : SubSeq(qs, 1, n)[k] = qs[1 + k - 1]
      BY <1>0, <2>1, SubSeqProperties
    <2> HIDE DEF n
    <2> QED
      BY <1>0, <2>2, <2>3
  <1>3. Front(qs) = ps
    BY <1>0, <1>2, SeqEqual
  <1> QED
    BY <1>1, <1>3 DEF qs

LEMMA TakeSpecialStep ==
  ASSUME BpeInv, type = "bpe", type' = type, TakeSpecial
  PROVE  BpeInv'
  <1> DEFINE m == Min(MatchSpecial(Rest))
             s == Specials[m]
             n == Len(s)
  <1>0. text \in Seq(Byte) /\ i \in 0 .. Len(text) /\ Len(text) \in Nat
    BY DEF BpeInv, BpeTypes
  <1>1. m \in DOMAIN Specials /\ IsPrefix(s, Rest)
    <2>1. MatchSpecial(Rest) \in SUBSET Nat /\ MatchSpecial(Rest) # {}
      BY VocabularyAssumption DEF MatchSpecial, TakeSpecial
    <2>2. m \in MatchSpecial(Rest)
      BY <2>1, MinIs
    <2> HIDE DEF m
    <2> QED
      BY <2>2 DEF MatchSpecial
  <1>2. s \in Seq(Byte) /\ n \in Nat
    BY <1>1, VocabularyAssumption
  <1>3. /\ tokens' = Append(tokens, Special(s)) /\ pieces' = Append(pieces, Special(s))
        /\ i' = i + n /\ text' = text /\ symbols' = symbols /\ pc = "scan" /\ pc' = "scan"
    BY DEF TakeSpecial
  <1> HIDE DEF m, s
  <1>4. n \in 0 .. Len(text) - i /\ SubSeq(Rest, 1, n) = s
    <2>1. Len(Rest) = Len(text) - i
      <3>1. 0 \in 0 .. Len(text) - i
        BY <1>0
      <3> QED
        BY <1>0, <3>1, FrontOfRest DEF Rest
    <2>2. n <= Len(Rest) /\ SubSeq(s, 1, n) = SubSeq(Rest, 1, n)
      BY <1>1 DEF IsPrefix
    <2>3. SubSeq(s, 1, n) = s
      BY <1>2, SubSeqFull
    <2> QED
      BY <1>0, <1>2, <2>1, <2>2, <2>3
  <1>5. SubSeq(text, 1, i) \o s = SubSeq(text, 1, i + n)
    <2>1. /\ SubSeq(SubSeq(text, i + 1, Len(text)), 1, n) = SubSeq(text, i + 1, i + n)
          /\ SubSeq(text, 1, i) \o SubSeq(text, i + 1, i + n) = SubSeq(text, 1, i + n)
      BY <1>0, <1>4, FrontOfRest
    <2> QED
      BY <1>4, <2>1 DEF Rest
  <1>6. Special(s) \in TextPart /\ Special(s).str = s /\ Kept(Special(s)) = s
    BY <1>2 DEF Special, TextPart, Kept
  <1>7. tokens \in Seq(TextPart) /\ pieces \in Seq(TextPart) /\ symbols \in Seq(Vocab)
    BY DEF BpeInv, BpeTypes
  <1>8. BpeTypes'
    <2>1. i' \in 0 .. Len(text')
      BY <1>0, <1>2, <1>3, <1>4
    <2>2. tokens' \in Seq(TextPart) /\ pieces' \in Seq(TextPart)
      BY <1>3, <1>6, <1>7, AppendProperties
    <2> QED
      BY <1>0, <1>3, <1>7, <2>1, <2>2 DEF BpeInv, BpeTypes
  <1>9. NothingIsLost'
    <2>1. /\ FlattenSeq(Strings(pieces)) = SubSeq(text, 1, i)
          /\ FlattenSeq(Strings(tokens)) = FlattenSeq(KeptOf(pieces))
      BY <1>3, SpeltWhenScanning DEF BpeInv
    <2>2. /\ FlattenSeq(Strings(pieces')) = FlattenSeq(Strings(pieces)) \o s
          /\ FlattenSeq(KeptOf(pieces')) = FlattenSeq(KeptOf(pieces)) \o s
          /\ FlattenSeq(Strings(tokens')) = FlattenSeq(Strings(tokens)) \o s
      <3>1. \A ps \in Seq(TextPart) :
              /\ FlattenSeq(Strings(Append(ps, Special(s)))) = FlattenSeq(Strings(ps)) \o s
              /\ FlattenSeq(KeptOf(Append(ps, Special(s)))) = FlattenSeq(KeptOf(ps)) \o s
        BY <1>6, OneMorePiece
      <3> QED
        BY <1>3, <1>7, <3>1
    <2>3. Scanned' = pieces' /\ SubSeq(text', 1, i') = SubSeq(text, 1, i + n)
      BY <1>3 DEF Scanned
    <2> QED
      BY <1>5, <2>1, <2>2, <2>3 DEF NothingIsLost, KeptOf, Kept
  <1> QED
    BY <1>3, <1>8, <1>9 DEF BpeInv, PieceAtHand

LEMMA TakePieceStep ==
  ASSUME BpeInv, type = "bpe", type' = type, TakePiece
  PROVE  BpeInv'
  <1> DEFINE n == NextPiece(Rest)
             p == SubSeq(Rest, 1, n)
             cut == SubSeq(p, 1, Min({Len(p), SymCap}))
  <1>0. text \in Seq(Byte) /\ i \in 0 .. Len(text) /\ Len(text) \in Nat
    BY DEF BpeInv, BpeTypes
  <1>1. /\ symbols' = Symbols(p) /\ pieces' = Append(pieces, Ordinary(p))
        /\ i < Len(text) /\ pc = "scan" /\ pc' = "merge"
        /\ UNCHANGED <<text, i, tokens>>
    BY DEF TakePiece
  <1>2. Rest \in Seq(Byte) /\ Len(Rest) = Len(text) - i /\ n \in 0 .. Len(text) - i
    <2>1. Rest \in Seq(Byte) /\ Len(Rest) = Len(text) - i
      <3>1. 0 \in 0 .. Len(text) - i
        BY <1>0
      <3> QED
        BY <1>0, <3>1, FrontOfRest DEF Rest
    <2>2. Rest # <<>>
      BY <1>0, <1>1, <2>1
    <2>3. n \in 1 .. Len(Rest)
      BY <2>1, <2>2, PieceFits
    <2> HIDE DEF n
    <2> QED
      BY <1>0, <2>1, <2>3
  <1> HIDE DEF n
  <1>3. p \in Seq(Byte) /\ Len(p) = n /\ p = SubSeq(text, i + 1, i + n)
    BY <1>0, <1>2, FrontOfRest DEF Rest
  <1> HIDE DEF p
  <1>4. cut \in Seq(Byte)
    BY <1>3, CutIs
  <1>5. symbols' \in Seq(Vocab) /\ FlattenSeq(symbols') = cut
    <2>1. symbols' = Bytes(cut)
      BY <1>1 DEF Symbols
    <2> HIDE DEF cut
    <2> QED
      BY <1>4, <2>1, BytesSpell
  <1>6. Ordinary(p) \in TextPart /\ Ordinary(p).str = p /\ Kept(Ordinary(p)) = cut
        /\ ~Ordinary(p).special
    BY <1>3 DEF Ordinary, TextPart, Kept
  <1> HIDE DEF cut
  <1>7. tokens \in Seq(TextPart) /\ pieces \in Seq(TextPart)
    BY DEF BpeInv, BpeTypes
  <1>8. pieces' # <<>> /\ Front(pieces') = pieces /\ Last(pieces') = Ordinary(p)
        /\ pieces' \in Seq(TextPart)
    <2>1. pieces' \in Seq(TextPart)
      BY <1>1, <1>6, <1>7, AppendProperties
    <2> QED
      BY <1>1, <1>6, <1>7, <2>1, FrontOfAppend
  <1>9. BpeTypes'
    BY <1>0, <1>1, <1>5, <1>7, <1>8 DEF BpeInv, BpeTypes
  <1>10. PieceAtHand'
    BY <1>0, <1>1, <1>2, <1>3, <1>5, <1>6, <1>8 DEF PieceAtHand
  <1>11. NothingIsLost'
    <2>1. /\ FlattenSeq(Strings(pieces)) = SubSeq(text, 1, i)
          /\ FlattenSeq(Strings(tokens)) = FlattenSeq(KeptOf(pieces))
      BY <1>1, SpeltWhenScanning DEF BpeInv
    <2>2. Scanned' = pieces
      BY <1>1, <1>8 DEF Scanned
    <2> QED
      BY <1>1, <2>1, <2>2 DEF NothingIsLost, KeptOf, Kept
  <1> QED
    BY <1>1, <1>9, <1>10, <1>11 DEF BpeInv

LEMMA MergeStep ==
  ASSUME BpeInv, type = "bpe", type' = type, Merge
  PROVE  BpeInv'
  <1> DEFINE k == Best(symbols)
  <1>1. symbols \in Seq(Vocab) /\ Ranks(symbols) # {}
        /\ symbols' = Joined(symbols, k) /\ pc = "merge"
        /\ UNCHANGED <<pc, text, i, tokens, pieces>>
    BY DEF Merge, BpeInv, BpeTypes
  <1>2. k \in 1 .. Len(symbols) - 1 /\ symbols[k] \o symbols[k + 1] \in Vocab
    BY <1>1, BestIsMerge
  <1> HIDE DEF k
  <1>3. symbols' \in Seq(Vocab) /\ FlattenSeq(symbols') = FlattenSeq(symbols)
    BY <1>1, <1>2, JoinedSpells
  <1>4. NothingIsLost'
    <2>1. Scanned' = Scanned
      BY <1>1 DEF Scanned
    <2> QED
      BY <1>1, <2>1 DEF BpeInv, NothingIsLost
  <1>5. PieceAtHand' /\ BpeTypes'
    BY <1>1, <1>3 DEF BpeInv, BpeTypes, PieceAtHand
  <1> QED
    BY <1>1, <1>4, <1>5 DEF BpeInv

\* The tokens of the symbols of a piece spell what the symbols spell.
LEMMA EmittedSpell ==
  ASSUME NEW w \in Seq(Vocab), NEW ts \in Seq(TextPart)
  PROVE  LET found == FlattenSeq([k \in DOMAIN w |-> Resolved(w[k])]) IN
         /\ ts \o found \in Seq(TextPart)
         /\ FlattenSeq(Strings(ts \o found)) = FlattenSeq(Strings(ts)) \o FlattenSeq(w)
  <1> DEFINE n == Len(w)
             found == [k \in 1 .. n |-> Ordinary(w[k])]
             us == ts \o found
             m == Len(ts)
  <1>0. n \in Nat /\ m \in Nat /\ DOMAIN w = 1 .. n /\ \A k \in 1 .. n : w[k] \in Vocab
    OBVIOUS
  <1>1. \A k \in 1 .. n : Ordinary(w[k]) \in TextPart /\ Ordinary(w[k]).str = w[k] /\ w[k] \in Seq(Byte)
    BY <1>0, VocabSpells DEF Ordinary, TextPart
  <1>2. found \in Seq(TextPart) /\ Len(found) = n /\ \A k \in 1 .. n : found[k] = Ordinary(w[k])
    <2>1. found \in [1 .. n -> TextPart]
      BY <1>1
    <2>2. \A k \in 1 .. n : found[k] = Ordinary(w[k])
      OBVIOUS
    <2> HIDE DEF found
    <2> QED
      BY <1>0, <2>1, <2>2
  <1>3. FlattenSeq([k \in DOMAIN w |-> Resolved(w[k])]) = found
    <2>1. [k \in DOMAIN w |-> Resolved(w[k])] = [k \in 1 .. Len(found) |-> <<found[k]>>]
      <3>1. \A k \in 1 .. n : Resolved(w[k]) = <<found[k]>>
        BY <1>0, <1>2 DEF Resolved
      <3> HIDE DEF found, n
      <3> QED
        BY <1>0, <1>2, <3>1
    <2> HIDE DEF found
    <2> QED
      BY <1>2, <2>1, FlattenSingles
  <1> HIDE DEF found
  <1>4. us \in Seq(TextPart) /\ Len(us) = m + n
        /\ \A k \in 1 .. m + n : us[k] = IF k <= m THEN ts[k] ELSE found[k - m]
    <2>1. /\ us \in Seq(TextPart) /\ Len(us) = Len(ts) + Len(found)
          /\ \A k \in 1 .. Len(ts) + Len(found) :
                us[k] = IF k <= Len(ts) THEN ts[k] ELSE found[k - Len(ts)]
      BY <1>2, ConcatProperties
    <2> HIDE DEF us
    <2> QED
      BY <1>2, <2>1
  <1> HIDE DEF us
  <1>5. Strings(us) = Strings(ts) \o w
    <2> DEFINE s == Strings(ts)
               t == s \o w
    <2>1. s \in Seq(Seq(Byte)) /\ Len(s) = m /\ \A k \in 1 .. m : s[k] = ts[k].str
      BY PiecesAre
    <2>2. w \in Seq(Seq(Byte))
      BY VocabSpells
    <2> HIDE DEF s
    <2>3. t \in Seq(Seq(Byte)) /\ Len(t) = m + n
          /\ \A k \in 1 .. m + n : t[k] = IF k <= m THEN s[k] ELSE w[k - m]
      <3>1. /\ t \in Seq(Seq(Byte)) /\ Len(t) = Len(s) + Len(w)
            /\ \A k \in 1 .. Len(s) + Len(w) :
                  t[k] = IF k <= Len(s) THEN s[k] ELSE w[k - Len(s)]
        BY <2>1, <2>2, ConcatProperties
      <3> HIDE DEF t
      <3> QED
        BY <2>1, <3>1
    <2>4. Strings(us) \in Seq(Seq(Byte)) /\ Len(Strings(us)) = m + n
          /\ \A k \in 1 .. m + n : Strings(us)[k] = us[k].str
      BY <1>4, PiecesAre
    <2> HIDE DEF t, n, m
    <2>5. \A k \in 1 .. m + n : Strings(us)[k] = t[k]
      <3> SUFFICES ASSUME NEW k \in 1 .. m + n PROVE us[k].str = t[k]
        BY <2>4
      <3>1. CASE k <= m
        <4>1. k \in 1 .. m
          BY <1>0, <3>1
        <4> QED
          BY <1>4, <2>1, <2>3, <3>1, <4>1
      <3>2. CASE ~(k <= m)
        <4>1. k - m \in 1 .. n
          BY <1>0, <3>2
        <4>2. us[k] = found[k - m] /\ t[k] = w[k - m]
          BY <1>4, <2>3, <3>2
        <4> QED
          BY <1>1, <1>2, <4>1, <4>2
      <3> QED
        BY <3>1, <3>2
    <2> QED
      BY <2>3, <2>4, <2>5, SeqEqual DEF t, s
  <1>6. FlattenSeq(Strings(ts) \o w) = FlattenSeq(Strings(ts)) \o FlattenSeq(w)
    <2>1. w \in Seq(Seq(Byte)) /\ Strings(ts) \in Seq(Seq(Byte))
      BY VocabSpells, PiecesAre
    <2> QED
      BY <2>1, FlattenConcat
  <1> QED
    BY <1>3, <1>4, <1>5, <1>6 DEF us

LEMMA EmitStep ==
  ASSUME BpeInv, type = "bpe", type' = type, Emit
  PROVE  BpeInv'
  <1> DEFINE p == Last(pieces)
             n == Len(p.str)
  <1>0. /\ text \in Seq(Byte) /\ i \in 0 .. Len(text) /\ Len(text) \in Nat
        /\ symbols \in Seq(Vocab) /\ tokens \in Seq(TextPart) /\ pieces \in Seq(TextPart)
    BY DEF BpeInv, BpeTypes
  <1>1. /\ tokens' = tokens \o FlattenSeq([k \in DOMAIN symbols |-> Resolved(symbols[k])])
        /\ i' = i + n /\ symbols' = <<>> /\ pc = "merge" /\ pc' = "scan"
        /\ UNCHANGED <<text, pieces>>
    BY DEF Emit
  <1>2. /\ pieces # <<>> /\ ~p.special /\ i + n <= Len(text)
        /\ p.str = SubSeq(text, i + 1, i + n) /\ FlattenSeq(symbols) = Kept(p)
    BY <1>1 DEF BpeInv, PieceAtHand
  <1>3. Front(pieces) \in Seq(TextPart) /\ p \in TextPart /\ pieces = Append(Front(pieces), p)
    BY <1>0, <1>2, FrontAndLast
  <1>4. n \in Nat
    BY <1>3 DEF TextPart
  <1> HIDE DEF p, n
  <1>5. tokens' \in Seq(TextPart)
        /\ FlattenSeq(Strings(tokens')) = FlattenSeq(Strings(tokens)) \o Kept(p)
    BY <1>0, <1>1, <1>2, EmittedSpell
  <1>6. /\ FlattenSeq(Strings(Front(pieces))) = SubSeq(text, 1, i)
        /\ FlattenSeq(Strings(tokens)) = FlattenSeq(KeptOf(Front(pieces)))
    BY <1>1, LostIs DEF BpeInv, Scanned
  <1>7. /\ FlattenSeq(Strings(pieces)) = FlattenSeq(Strings(Front(pieces))) \o p.str
        /\ FlattenSeq(KeptOf(pieces)) = FlattenSeq(KeptOf(Front(pieces))) \o Kept(p)
    BY <1>3, OneMorePiece
  <1>8. SubSeq(text, 1, i) \o p.str = SubSeq(text, 1, i + n)
    <2>1. n \in 0 .. Len(text) - i
      BY <1>0, <1>2, <1>4
    <2>2. SubSeq(text, 1, i) \o SubSeq(text, i + 1, i + n) = SubSeq(text, 1, i + n)
      BY <1>0, <2>1, FrontOfRest
    <2> QED
      BY <1>2, <2>2
  <1>9. /\ FlattenSeq(Strings(pieces)) = SubSeq(text, 1, i + n)
        /\ FlattenSeq(Strings(tokens')) = FlattenSeq(KeptOf(pieces))
    BY <1>5, <1>6, <1>7, <1>8
  <1>10. NothingIsLost'
    <2>1. Scanned' = pieces
      BY <1>1 DEF Scanned
    <2> QED
      BY <1>1, <1>9, <2>1 DEF NothingIsLost, KeptOf, Kept
  <1>11. BpeTypes'
    <2>1. i' \in 0 .. Len(text') /\ symbols' \in Seq(Vocab)
      BY <1>0, <1>1, <1>2, <1>4
    <2> QED
      BY <1>0, <1>1, <1>5, <2>1 DEF BpeInv, BpeTypes
  <1> QED
    BY <1>1, <1>10, <1>11 DEF BpeInv, PieceAtHand

LEMMA CallStep ==
  ASSUME BpeInv, type = "bpe", type' = type, Call
  PROVE  BpeInv'
  <1>1. /\ i = 0 /\ tokens = <<>> /\ pieces = <<>> /\ pc' = "scan"
        /\ UNCHANGED <<i, symbols, pieces>> /\ tokens' \in {<<Bos>>, <<>>}
        /\ symbols \in Seq(Vocab) /\ type \in {"sp", "bpe"}
    BY DEF Call, BpeInv, BpeTypes
  <1>2. text' \in Seq(Byte)
    <2>1. PICK n \in 0 .. MaxText : text' \in [1 .. n -> Byte]
      BY DEF Call
    <2>2. n \in Nat
      BY VocabularyAssumption
    <2> QED
      BY <2>1, <2>2
  <1>3. Bos \in TextPart /\ Bos.str = <<>>
    BY DEF Bos, Special, TextPart
  <1>4. tokens' \in Seq(TextPart) /\ FlattenSeq(Strings(tokens')) = <<>>
    <2>1. <<>> \in Seq(TextPart) /\ Strings(<<>>) = <<>>
      BY DEF Strings
    <2>2. <<Bos>> = Append(<<>>, Bos) /\ <<Bos>> \in Seq(TextPart)
      BY <1>3
    <2>3. FlattenSeq(Strings(Append(<<>>, Bos))) = <<>>
      <3>1. FlattenSeq(Strings(Append(<<>>, Bos))) = FlattenSeq(Strings(<<>>)) \o <<>>
        BY <1>3, <2>1, OneMorePiece
      <3> QED
        BY <2>1, <3>1, FlattenEmpty
    <2> QED
      BY <1>1, <2>1, <2>2, <2>3, FlattenEmpty
  <1>5. NothingIsLost'
    <2>1. Scanned' = <<>> /\ SubSeq(text', 1, i') = <<>>
      BY <1>1, <1>2 DEF Scanned
    <2>2. Strings(<<>>) = <<>> /\ KeptOf(<<>>) = <<>>
      BY DEF Strings, KeptOf
    <2>3. FlattenSeq(Strings(<<>>)) = <<>> /\ FlattenSeq(KeptOf(<<>>)) = <<>>
      BY <2>2, FlattenEmpty
    <2> QED
      BY <1>4, <2>1, <2>3 DEF NothingIsLost, KeptOf, Kept
  <1>6. BpeTypes'
    <2>1. 0 \in 0 .. Len(text') /\ <<>> \in Seq(TextPart)
      BY <1>2
    <2> QED
      BY <1>1, <1>2, <1>4, <2>1 DEF BpeTypes
  <1> QED
    BY <1>1, <1>5, <1>6 DEF BpeInv, PieceAtHand

\* Where nothing was begun, nothing is lost, whatever pc is.
LEMMA NothingBegun ==
  ASSUME i = 0, tokens = <<>>, pieces = <<>>
  PROVE  NothingIsLost
  <1>1. Scanned = <<>>
    <2>1. Front(pieces) = <<>>
      BY DEF Front
    <2> QED
      BY <2>1 DEF Scanned
  <1>2. SubSeq(text, 1, i) = <<>>
    BY SubSeqEmpty
  <1>3. Strings(<<>>) = <<>> /\ KeptOf(<<>>) = <<>>
    BY DEF Strings, KeptOf
  <1> QED
    BY <1>1, <1>2, <1>3, LostIs, FlattenEmpty

LEMMA BpeInvariant == TSpec => []BpeInv
  <1>1. TInit => BpeInv
    <2> SUFFICES ASSUME TInit PROVE BpeInv
      OBVIOUS
    <2>1. NothingIsLost
      BY NothingBegun DEF TInit
    <2>2. BpeTypes
      <3>1. <<>> \in Seq(Byte) /\ <<>> \in Seq(Vocab) /\ <<>> \in Seq(TextPart)
            /\ 0 \in 0 .. Len(<<>>)
        OBVIOUS
      <3> QED
        BY <3>1 DEF TInit, BpeTypes
    <2> QED
      BY <2>1, <2>2 DEF TInit, BpeInv, PieceAtHand
  <1>2. BpeInv /\ [TNext]_<<type, pc, b, bpe, sp>> => BpeInv'
    <2> SUFFICES ASSUME BpeInv, [TNext]_<<type, pc, b, bpe, sp>> PROVE BpeInv'
      OBVIOUS
    <2>1. CASE type = "bpe" /\ type' = type /\ Next
      <3>1. CASE Call
        BY <2>1, <3>1, CallStep
      <3>2. CASE TakeSpecial
        BY <2>1, <3>2, TakeSpecialStep
      <3>3. CASE TakePiece
        BY <2>1, <3>3, TakePieceStep
      <3>4. CASE Merge
        BY <2>1, <3>4, MergeStep
      <3>5. CASE Emit
        BY <2>1, <3>5, EmitStep
      <3>6. CASE Return
        <4>1. NothingIsLost'
          BY <3>6 DEF BpeInv, NothingIsLost, Scanned, Return
        <4> QED
          BY <2>1, <3>6, <4>1 DEF BpeInv, BpeTypes, PieceAtHand, Return
      <3>7. CASE UNCHANGED vars
        <4>1. NothingIsLost'
          BY <3>7 DEF BpeInv, NothingIsLost, Scanned, vars
        <4> QED
          BY <2>1, <3>7, <4>1 DEF BpeInv, BpeTypes, PieceAtHand, vars
      <3> QED
        BY <2>1, <3>1, <3>2, <3>3, <3>4, <3>5, <3>6, <3>7 DEF Next, Ended
    <2>2. CASE type = "bpe" /\ type' = type /\ UNCHANGED bpe /\ pc = "new" /\ pc' \in {"new", "call"}
      <3>1. NothingIsLost'
        BY <2>2 DEF BpeInv, NothingIsLost, Scanned, bpe
      <3> QED
        BY <2>2, <3>1 DEF BpeInv, BpeTypes, PieceAtHand, bpe
    <2>3. CASE type = "sp" /\ type' = type /\ UNCHANGED bpe
      <3>1. i = 0 /\ tokens = <<>> /\ pieces = <<>> /\ i' = 0 /\ tokens' = <<>> /\ pieces' = <<>>
        BY <2>3 DEF BpeInv, bpe
      <3>2. NothingIsLost'
        <4>1. Scanned' = <<>>
          <5>1. Front(pieces') = <<>>
            BY <3>1 DEF Front
          <5> QED
            BY <3>1, <5>1 DEF Scanned
        <4>2. SubSeq(text', 1, i') = <<>>
          BY <3>1, SubSeqEmpty
        <4>3. Strings(<<>>) = <<>> /\ KeptOf(<<>>) = <<>>
          BY DEF Strings, KeptOf
        <4>4. FlattenSeq(Strings(<<>>)) = <<>> /\ FlattenSeq(KeptOf(<<>>)) = <<>>
          BY <4>3, FlattenEmpty
        <4> QED
          BY <3>1, <4>1, <4>2, <4>4 DEF NothingIsLost, KeptOf, Kept
      <3> QED
        BY <2>3, <3>1, <3>2 DEF BpeInv, BpeTypes, PieceAtHand, bpe
    <2>4. CASE type' = type /\ UNCHANGED <<pc, bpe>>
      <3>1. NothingIsLost'
        BY <2>4 DEF BpeInv, NothingIsLost, Scanned, bpe
      <3> QED
        BY <2>4, <3>1 DEF BpeInv, BpeTypes, PieceAtHand, bpe
    <2> QED
      BY <2>1, <2>2, <2>3, <2>4 DEF TNext, BuildByte, Built, Ended, vars, bpe
  <1> QED
    BY <1>1, <1>2, PTL DEF TSpec

\* Whatever the vocabulary, the text and the bound on the symbols of a piece,
\* the tokens encoded so far spell the text up to where it was scanned, special
\* texts as they are, but for the bytes of a piece that do not fit its symbols
\* (bpe_encode of src/tokenizer.c).
THEOREM TokensSpellTheText == TSpec => []NothingIsLost
  <1>1. BpeInv => NothingIsLost
    BY DEF BpeInv
  <1> QED
    BY <1>1, BpeInvariant, PTL

-----------------------------------------------------------------------------
(* The elements of a sequence replaced by what each stands for. *)

Spelt(f, s) == [k \in 1 .. Len(s) |-> f[s[k]]]

LEMMA SpeltConcat ==
  ASSUME NEW A, NEW B, NEW f, \A a \in A : f[a] \in Seq(B),
         NEW s \in Seq(A), NEW t \in Seq(A)
  PROVE  /\ s \o t \in Seq(A)
         /\ FlattenSeq(Spelt(f, s \o t)) = FlattenSeq(Spelt(f, s)) \o FlattenSeq(Spelt(f, t))
         /\ FlattenSeq(Spelt(f, s)) \in Seq(B)
  <1>a. \A w \in Seq(A) :
           /\ Spelt(f, w) \in Seq(Seq(B)) /\ Len(Spelt(f, w)) = Len(w)
           /\ \A k \in 1 .. Len(w) : Spelt(f, w)[k] = f[w[k]]
    <2> TAKE w \in Seq(A)
    <2>1. Len(w) \in Nat /\ \A k \in 1 .. Len(w) : f[w[k]] \in Seq(B)
      OBVIOUS
    <2>2. Spelt(f, w) \in [1 .. Len(w) -> Seq(B)]
      BY <2>1 DEF Spelt
    <2>3. \A k \in 1 .. Len(w) : Spelt(f, w)[k] = f[w[k]]
      BY DEF Spelt
    <2>4. ASSUME NEW C, NEW n \in Nat, NEW g \in [1 .. n -> C] PROVE g \in Seq(C) /\ Len(g) = n
      OBVIOUS
    <2>5. Spelt(f, w) \in Seq(Seq(B)) /\ Len(Spelt(f, w)) = Len(w)
      BY <2>1, <2>2, <2>4
    <2> QED
      BY <2>3, <2>5
  <1> DEFINE m == Len(s)
             n == Len(t)
             u == s \o t
             x == Spelt(f, s)
             y == Spelt(f, t)
             z == Spelt(f, u)
             v == x \o y
  <1>0. m \in Nat /\ n \in Nat
    OBVIOUS
  <1>1. u \in Seq(A) /\ Len(u) = m + n
        /\ \A k \in 1 .. m + n : u[k] = IF k <= m THEN s[k] ELSE t[k - m]
    BY ConcatProperties
  <1>2. x \in Seq(Seq(B)) /\ Len(x) = m /\ \A k \in 1 .. m : x[k] = f[s[k]]
    BY <1>a
  <1>3. y \in Seq(Seq(B)) /\ Len(y) = n /\ \A k \in 1 .. n : y[k] = f[t[k]]
    BY <1>a
  <1> HIDE DEF u, x, y
  <1>4. z \in Seq(Seq(B)) /\ Len(z) = m + n /\ \A k \in 1 .. m + n : z[k] = f[u[k]]
    BY <1>1, <1>a
  <1> HIDE DEF z
  <1>5. v \in Seq(Seq(B)) /\ Len(v) = m + n
        /\ \A k \in 1 .. m + n : v[k] = IF k <= m THEN x[k] ELSE y[k - m]
    <2>1. /\ v \in Seq(Seq(B)) /\ Len(v) = Len(x) + Len(y)
          /\ \A k \in 1 .. Len(x) + Len(y) : v[k] = IF k <= Len(x) THEN x[k] ELSE y[k - Len(x)]
      BY <1>2, <1>3, ConcatProperties
    <2> HIDE DEF v
    <2> QED
      BY <1>2, <1>3, <2>1
  <1> HIDE DEF v, m, n
  <1>6. ASSUME NEW k \in 1 .. m + n PROVE z[k] = v[k]
    <2>1. CASE k <= m
      <3>1. k \in 1 .. m
        BY <1>0, <2>1
      <3>2. u[k] = s[k] /\ v[k] = x[k]
        BY <1>1, <1>5, <2>1
      <3> QED
        BY <1>2, <1>4, <3>1, <3>2
    <2>2. CASE ~(k <= m)
      <3>1. k - m \in 1 .. n
        BY <1>0, <2>2
      <3>2. u[k] = t[k - m] /\ v[k] = y[k - m]
        BY <1>1, <1>5, <2>2
      <3> QED
        BY <1>3, <1>4, <3>1, <3>2
    <2> QED
      BY <2>1, <2>2
  <1>7. z = v
    BY <1>4, <1>5, <1>6, SeqEqual
  <1>8. FlattenSeq(v) = FlattenSeq(x) \o FlattenSeq(y)
    BY <1>2, <1>3, FlattenConcat DEF v
  <1>9. FlattenSeq(x) \in Seq(B)
    BY <1>2, FlattenIsSeq
  <1> QED
    BY <1>1, <1>7, <1>8, <1>9 DEF u, x, y, z

LEMMA SpeltOne ==
  ASSUME NEW A, NEW B, NEW f \in [A -> Seq(B)], NEW a \in A
  PROVE  FlattenSeq(Spelt(f, <<a>>)) = f[a]
  <1>1. Spelt(f, <<a>>) = <<f[a]>>
    BY DEF Spelt
  <1>2. f[a] \in Seq(B)
    OBVIOUS
  <1> QED
    BY <1>1, <1>2, FlattenOne

\* Some element of a set of places has the greatest value.
LEMMA MaxValue ==
  ASSUME NEW n \in Nat, NEW J \in SUBSET (1 .. n), J # {}, NEW f \in [J -> Int]
  PROVE  \E k \in J : \A j \in J : f[k] >= f[j]
  <1> DEFINE Top(m) == \E k \in J : \A j \in J : j <= m => f[k] >= f[j]
             S == {m \in 0 .. n : Top(m)}
  <1>1. 0 \in S
    <2>1. \A j \in J : ~(j <= 0)
      OBVIOUS
    <2>2. Top(0)
      BY <2>1
    <2> HIDE DEF Top
    <2> QED
      BY <2>2
  <1>2. ASSUME NEW m \in 0 .. n - 1, m \in S PROVE m + 1 \in S
    <2>1. PICK k \in J : \A j \in J : j <= m => f[k] >= f[j]
      BY <1>2
    <2>2. \A j \in J : j <= m + 1 => j <= m \/ j = m + 1
      OBVIOUS
    <2>3. \A j \in J : f[j] \in Int
      OBVIOUS
    <2>4. Top(m + 1)
      <3>1. CASE m + 1 \in J /\ f[m + 1] > f[k]
        <4>1. ASSUME NEW j \in J, j <= m + 1 PROVE f[m + 1] >= f[j]
          <5>1. f[j] \in Int /\ f[k] \in Int /\ f[m + 1] \in Int
            BY <2>3, <3>1
          <5> QED
            BY <2>1, <2>2, <3>1, <4>1, <5>1
        <4> QED
          BY <3>1, <4>1
      <3>2. CASE ~(m + 1 \in J /\ f[m + 1] > f[k])
        <4>1. \A j \in J : j <= m + 1 => f[k] >= f[j]
          BY <2>1, <2>2, <2>3, <3>2
        <4> QED
          BY <4>1
      <3> QED
        BY <3>1, <3>2
    <2>5. m + 1 \in 0 .. n
      OBVIOUS
    <2> HIDE DEF Top
    <2> QED
      BY <2>4, <2>5
  <1>3. S = 0 .. n
    <2>1. S \in SUBSET (0 .. n)
      OBVIOUS
    <2> HIDE DEF S
    <2> QED
      BY <1>1, <1>2, <2>1, BoundedInduction
  <1>4. n \in S
    <2>1. n \in 0 .. n
      OBVIOUS
    <2> HIDE DEF S
    <2> QED
      BY <1>3, <2>1
  <1>5. \A j \in J : j <= n
    OBVIOUS
  <1> QED
    BY <1>4, <1>5

-----------------------------------------------------------------------------
(* Pieces of the vocabulary and the text they stand for. *)

SpText == Seq(Sp!SpByte)

IsByte(id) == \E byte \in Sp!SpByte : Sp!Str(id) = Sp!Hex(byte)

SpellOf == [id \in Sp!Ids |->
              IF Sp!Control(id) THEN <<>>
              ELSE IF IsByte(id) THEN <<Sp!Str(id)[2]>> ELSE Sp!Str(id)]

\* What strings of pieces are made of.
Sign == Sp!SpByte \cup {"<0x", ">"} \cup {Head(Sp!Str(id)) : id \in Sp!Ids}

\* Each piece is a text, a byte or a control piece, and only one of these.
LEMMA KindOf ==
  ASSUME NEW id \in Sp!Ids
  PROVE  LET s == Sp!Str(id) IN
         /\ s \in Seq(Sign) /\ s # <<>>
         /\ \/ /\ s \in SpText /\ s[1] \in Sp!SpByte
               /\ ~IsByte(id) /\ ~Sp!Control(id)
            \/ /\ \E byte \in Sp!SpByte : s = <<"<0x", byte, ">">>
               /\ s[1] = "<0x" /\ IsByte(id) /\ ~Sp!Control(id)
            \/ /\ Len(s) = 1 /\ s[1] \notin Sp!SpByte /\ s[1] # "<0x"
               /\ ~IsByte(id) /\ Sp!Control(id)
  <1> DEFINE s == Sp!Str(id)
  <1>0. /\ "<0x" \notin Sp!SpByte /\ \A byte : <<"<0x", byte, ">">>[1] = "<0x"
        /\ \A byte : Len(<<"<0x", byte, ">">>) = 3
    BY PiecesAssumption
  <1>a. Sp!SpByte \subseteq Sign /\ "<0x" \in Sign /\ ">" \in Sign /\ Head(s) \in Sign
    BY DEF Sign
  <1>b. s \in Seq(Sp!SpByte) \ {<<>>} \/ IsByte(id) \/ Sp!Control(id)
    BY PiecesAssumption DEF IsByte
  <1>1. CASE s \in Seq(Sp!SpByte) \ {<<>>}
    <2>1. s[1] \in Sp!SpByte /\ Head(s) = s[1]
      BY <1>1
    <2>2. ~IsByte(id)
      BY <1>0, <2>1 DEF IsByte, Sp!Hex
    <2>3. ~Sp!Control(id)
      BY <2>1 DEF Sp!Control
    <2>4. s \in Seq(Sign)
      BY <1>1, <1>a
    <2> QED
      BY <1>1, <2>1, <2>2, <2>3, <2>4 DEF SpText
  <1>2. CASE IsByte(id)
    <2>1. PICK byte \in Sp!SpByte : s = <<"<0x", byte, ">">>
      BY <1>2 DEF IsByte, Sp!Hex
    <2>2. Len(s) = 3 /\ s[1] = "<0x"
      BY <1>0, <2>1
    <2>3. ~Sp!Control(id)
      <3>1. Len(<<Head(s)>>) = 1
        OBVIOUS
      <3> QED
        BY <2>2, <3>1 DEF Sp!Control
    <2>4. s \in Seq(Sign) /\ s # <<>>
      <3>1. byte \in Sign
        BY <1>a
      <3>2. <<"<0x", byte, ">">> \in Seq(Sign)
        BY <1>a, <3>1
      <3> QED
        BY <2>1, <3>2
    <2> QED
      BY <1>2, <2>1, <2>2, <2>3, <2>4
  <1>3. CASE Sp!Control(id)
    <2> DEFINE name == Head(s)
    <2>1. s = <<name>> /\ name \notin Sp!SpByte /\ name # "<0x"
      BY <1>3 DEF Sp!Control
    <2> HIDE DEF name
    <2>2. Len(s) = 1 /\ s[1] = name
      BY <2>1
    <2>3. ~IsByte(id)
      BY <1>0, <2>1, <2>2 DEF IsByte, Sp!Hex
    <2>4. s \in Seq(Sign) /\ s # <<>>
      <3>1. name \in Sign
        BY <1>a DEF name
      <3> QED
        BY <2>1, <3>1
    <2> QED
      BY <1>3, <2>1, <2>2, <2>3, <2>4
  <1> QED
    BY <1>1, <1>2, <1>3, <1>b

LEMMA SpellIs ==
  /\ SpellOf \in [Sp!Ids -> SpText]
  /\ \A id \in Sp!Ids : SpellOf[id] = IF Sp!Control(id) THEN <<>>
                                       ELSE IF IsByte(id) THEN <<Sp!Str(id)[2]>> ELSE Sp!Str(id)
  <1>1. ASSUME NEW id \in Sp!Ids
        PROVE  (IF Sp!Control(id) THEN <<>>
                ELSE IF IsByte(id) THEN <<Sp!Str(id)[2]>> ELSE Sp!Str(id)) \in SpText
    <2>1. CASE Sp!Control(id)
      <3>1. <<>> \in SpText
        BY DEF SpText
      <3> QED
        BY <2>1, <3>1
    <2>2. CASE IsByte(id) /\ ~Sp!Control(id)
      <3>1. PICK byte \in Sp!SpByte : Sp!Str(id) = <<"<0x", byte, ">">>
        BY <2>2, KindOf
      <3>2. Sp!Str(id)[2] = byte
        BY <3>1
      <3>3. <<byte>> \in SpText
        BY DEF SpText
      <3> QED
        BY <2>2, <3>2, <3>3
    <2>3. CASE ~IsByte(id) /\ ~Sp!Control(id)
      BY <2>3, KindOf
    <2> QED
      BY <2>1, <2>2, <2>3
  <1> QED
    BY <1>1 DEF SpellOf

\* What two pieces spell together is a piece only if all three are texts.
LEMMA JoinIs ==
  ASSUME NEW x \in Sp!Ids, NEW y \in Sp!Ids, NEW v \in Sp!Ids,
         Sp!Str(v) = Sp!Str(x) \o Sp!Str(y)
  PROVE  /\ SpellOf[v] = SpellOf[x] \o SpellOf[y]
         /\ ~Sp!Control(x) /\ ~Sp!Control(y) /\ ~Sp!Control(v)
         /\ Head(Sp!Str(v)) = Head(Sp!Str(x))
  <1> DEFINE p == Sp!Str(x)
             q == Sp!Str(y)
             r == Sp!Str(v)
  <1>1. p \in Seq(Sign) /\ p # <<>> /\ q \in Seq(Sign) /\ q # <<>> /\ r \in Seq(Sign)
    BY KindOf
  <1>2. /\ Len(p) \in Nat \ {0} /\ Len(q) \in Nat \ {0} /\ Len(r) = Len(p) + Len(q)
        /\ r[1] = p[1] /\ r[Len(p) + 1] = q[1] /\ Head(r) = Head(p)
    <2>1. r = p \o q
      OBVIOUS
    <2> HIDE DEF p, q, r
    <2> QED
      BY <1>1, <2>1
  <1>3. r \in SpText
    <2>1. Len(r) # 1
      BY <1>2
    <2>2. r[1] # "<0x"
      <3> SUFFICES ASSUME r[1] = "<0x" PROVE FALSE
        OBVIOUS
      <3>1. p[1] = "<0x"
        BY <1>2
      <3>2. \E byte \in Sp!SpByte : p = <<"<0x", byte, ">">>
        <4>1. "<0x" \notin Sp!SpByte
          BY PiecesAssumption
        <4> QED
          BY <3>1, <4>1, KindOf
      <3>3. Len(p) = 3
        <4>1. \A byte : Len(<<"<0x", byte, ">">>) = 3
          OBVIOUS
        <4> QED
          BY <3>2, <4>1
      <3>4. \E byte \in Sp!SpByte : r = <<"<0x", byte, ">">>
        <4>1. "<0x" \notin Sp!SpByte
          BY PiecesAssumption
        <4> QED
          BY <4>1, KindOf
      <3>5. Len(r) = 3
        <4>1. \A byte : Len(<<"<0x", byte, ">">>) = 3
          OBVIOUS
        <4> QED
          BY <3>4, <4>1
      <3> QED
        BY <1>2, <3>3, <3>5
    <2> QED
      BY <2>1, <2>2, KindOf
  <1>4. r[1] \in Sp!SpByte /\ r[Len(p) + 1] \in Sp!SpByte
    BY <1>2, <1>3 DEF SpText
  <1>5. "<0x" \notin Sp!SpByte
    BY PiecesAssumption
  <1>6. ~IsByte(x) /\ ~Sp!Control(x)
    BY <1>2, <1>4, <1>5, KindOf
  <1>7. ~IsByte(y) /\ ~Sp!Control(y)
    BY <1>2, <1>4, <1>5, KindOf
  <1>8. ~IsByte(v) /\ ~Sp!Control(v)
    BY <1>4, <1>5, KindOf
  <1>9. SpellOf[x] = p /\ SpellOf[y] = q /\ SpellOf[v] = r
    BY <1>6, <1>7, <1>8, SpellIs
  <1> QED
    BY <1>2, <1>6, <1>7, <1>8, <1>9

-----------------------------------------------------------------------------
(* What sp_encode looks up. *)

LEMMA LookupIs ==
  ASSUME MapInv, type = "sp", pc # "new", NEW key \in Sp!Searched
  PROVE  \/ Sp!Lookup(key) \in Sp!Ids /\ Sp!Str(Sp!Lookup(key)) = key
         \/ Sp!Lookup(key) = -1
  <1>1. PICK c : MapOf(sp_map, c, Len(Pieces))
    BY DEF MapInv
  <1>2. Hash(sp_map.hash, key) \in Nat
    BY <1>1, HashAssumption DEF MapOf, Table
  <1> QED
    BY <1>1, <1>2, GetIs DEF Sp!Lookup, Sp!Ids

LEMMA SpMin ==
  ASSUME NEW S \in SUBSET Nat, S # {}
  PROVE  Sp!Min(S) \in S /\ \A k \in S : Sp!Min(S) <= k
  <1>1. Sp!Min(S) = Min(S)
    BY DEF Min, Sp!Min
  <1> QED
    BY <1>1, MinIs

LEMMA CharacterIs ==
  ASSUME sp_text \in SpText, sp_i \in Nat, sp_i < Len(sp_text)
  PROVE  \E n \in 1 .. 4 :
            /\ Sp!Character \in [1 .. n -> Sp!SpByte] /\ Sp!Character \in Sp!Searched
            /\ sp_i + n <= Len(sp_text)
            /\ Sp!Character = SubSeq(sp_text, sp_i + 1, sp_i + n)
            /\ Sp!Character[1] = sp_text[sp_i + 1]
            /\ sp_text[sp_i + 1] = Sp!Blank => Sp!Character = <<Sp!Blank>>
  <1> DEFINE head == sp_text[sp_i + 1]
             lens == {sp_i + Lead[head], Len(sp_text)}
             n == Sp!Min(lens) - sp_i
             c == SubSeq(sp_text, sp_i + 1, sp_i + n)
  <1>0. Len(sp_text) \in Nat /\ sp_i \in Nat /\ \A k \in 1 .. Len(sp_text) : sp_text[k] \in Sp!SpByte
    BY DEF SpText
  <1>1. head \in Sp!SpByte /\ Lead[head] \in 1 .. 4
    <2>1. head \in Sp!SpByte
      BY <1>0
    <2> QED
      BY <2>1, PiecesAssumption
  <1>2. lens \in SUBSET Nat /\ lens # {}
    BY <1>0, <1>1
  <1>3. Sp!Min(lens) \in lens /\ \A k \in lens : Sp!Min(lens) <= k
    <2> HIDE DEF lens
    <2> QED
      BY <1>2, SpMin
  <1> HIDE DEF head
  <1>4. n \in 1 .. 4 /\ sp_i + n <= Len(sp_text) /\ (Lead[head] = 1 => n = 1)
        /\ sp_i + n = Sp!Min(lens)
    <2> DEFINE least == Sp!Min(lens)
               there == sp_i + Lead[head]
    <2>1. (least = there \/ least = Len(sp_text)) /\ least <= there /\ least <= Len(sp_text)
      BY <1>3
    <2>2. there \in Nat /\ there - sp_i = Lead[head]
      BY <1>0, <1>1
    <2>3. n = least - sp_i
      OBVIOUS
    <2> HIDE DEF least, there, n, lens
    <2>4. least \in Nat /\ least - sp_i \in 1 .. 4 /\ (Lead[head] = 1 => least = sp_i + 1)
      BY <1>0, <1>1, <2>1, <2>2 DEF there
    <2> QED
      BY <1>0, <2>1, <2>3, <2>4 DEF least
  <1>5. Sp!Character = c
    BY <1>4 DEF Sp!Character, head
  <1> HIDE DEF n, lens
  <1>6. /\ c \in Seq(Sp!SpByte) /\ Len(c) = n
        /\ \A k \in 1 .. n : c[k] = sp_text[sp_i + k]
    <2>1. sp_text \in Seq(Sp!SpByte) /\ sp_i + 1 \in 1 .. Len(sp_text) + 1 /\ sp_i + n \in sp_i .. Len(sp_text)
      BY <1>0, <1>4 DEF SpText
    <2>2. \A k \in sp_i + 1 .. sp_i + n : sp_text[k] \in Sp!SpByte
      BY <1>0, <1>4
    <2>3. sp_i + 1 \in Int /\ sp_i + n \in Int
      BY <1>0, <1>4
    <2>4. /\ Len(c) = n /\ \A k \in 1 .. n : c[k] = sp_text[sp_i + k]
      BY <1>0, <1>4, <2>1
    <2>5. c \in Seq(Sp!SpByte)
      BY <2>1, <2>2, <2>3, SubSeqProperties
    <2> QED
      BY <2>4, <2>5
  <1> HIDE DEF c
  <1>7. c \in [1 .. n -> Sp!SpByte]
    <2>1. PICK m \in Nat : c \in [1 .. m -> Sp!SpByte]
      BY <1>6, SeqDef
    <2>2. m = n
      BY <1>6, <2>1
    <2> QED
      BY <2>1, <2>2
  <1>8. c \in Sp!Searched
    <2> DEFINE A == {Sp!Str(a) : a \in Sp!Ids}
               B == {Sp!Str(a) \o Sp!Str(d) : a, d \in Sp!Ids}
               C == {<<Sp!Blank>>}
               D == UNION {[1 .. k -> Sp!SpByte] : k \in 1 .. 4}
    <2>1. Sp!Searched = A \cup B \cup C \cup D
      BY DEF Sp!Searched
    <2>2. c \in D
      BY <1>4, <1>7
    <2> HIDE DEF A, B, C, D
    <2> QED
      BY <2>1, <2>2
  <1>9. c[1] = head
    <2>1. 1 \in 1 .. n
      BY <1>4
    <2> QED
      BY <1>6, <2>1 DEF head
  <1>10. head = Sp!Blank => c = <<Sp!Blank>>
    <2> SUFFICES ASSUME head = Sp!Blank PROVE c = <<Sp!Blank>>
      OBVIOUS
    <2>1. n = 1
      BY <1>4, PiecesAssumption
    <2>2. Len(c) = 1 /\ c[1] = Sp!Blank /\ c \in Seq(Sp!SpByte)
      BY <1>6, <1>9, <2>1
    <2>3. Sp!Blank \in Sp!SpByte
      BY PiecesAssumption
    <2>4. Len(<<Sp!Blank>>) = 1 /\ <<Sp!Blank>>[1] = Sp!Blank /\ <<Sp!Blank>> \in Seq(Sp!SpByte)
      BY <2>3
    <2>5. \A k \in 1 .. 1 : c[k] = <<Sp!Blank>>[k]
      BY <2>2, <2>4
    <2> QED
      BY <2>2, <2>4, <2>5, SeqEqual
  <1> QED
    BY <1>4, <1>5, <1>7, <1>8, <1>9, <1>10 DEF head, c

-----------------------------------------------------------------------------
(* The tokens of a text, and what they spell. *)

Spells(s) == FlattenSeq(Spelt(SpellOf, s))

LEMMA SpellsConcat ==
  ASSUME NEW s \in Seq(Sp!Ids), NEW t \in Seq(Sp!Ids)
  PROVE  /\ s \o t \in Seq(Sp!Ids) /\ Spells(s \o t) = Spells(s) \o Spells(t)
         /\ Spells(s) \in SpText
  <1>1. \A id \in Sp!Ids : SpellOf[id] \in Seq(Sp!SpByte)
    BY SpellIs DEF SpText
  <1> DEFINE A == Sp!Ids
             B == Sp!SpByte
  <1>2. \A id \in A : SpellOf[id] \in Seq(B)
    BY <1>1
  <1> HIDE DEF SpellOf, A, B
  <1>3. /\ s \o t \in Seq(A)
        /\ FlattenSeq(Spelt(SpellOf, s \o t)) = FlattenSeq(Spelt(SpellOf, s)) \o FlattenSeq(Spelt(SpellOf, t))
        /\ FlattenSeq(Spelt(SpellOf, s)) \in Seq(B)
    <2>1. s \in Seq(A) /\ t \in Seq(A)
      BY DEF A
    <2> QED
      BY <1>2, <2>1, SpeltConcat
  <1> QED
    BY <1>3 DEF Spells, SpText, A, B

LEMMA SpellsOne ==
  ASSUME NEW id \in Sp!Ids
  PROVE  Spells(<<id>>) = SpellOf[id]
  <1>1. SpellOf \in [Sp!Ids -> Seq(Sp!SpByte)]
    BY SpellIs DEF SpText
  <1> HIDE DEF SpellOf
  <1> QED
    BY <1>1, SpeltOne DEF Spells

LEMMA SpellsNone == Spells(<<>>) = <<>>
  <1>1. Spelt(SpellOf, <<>>) = <<>>
    BY DEF Spelt
  <1> QED
    BY <1>1, FlattenEmpty DEF Spells

\* The ids of the bytes of a character spell it.
LEMMA FallbackSpells ==
  ASSUME NEW n \in Nat, NEW c \in [1 .. n -> Sp!SpByte]
  PROVE  LET w == [k \in DOMAIN c |-> Sp!ByteId(c[k])] IN
         /\ w \in Seq(Sp!Ids) /\ Len(w) = n /\ Spells(w) = c
         /\ \A k \in 1 .. n : ~Sp!Control(w[k]) /\ Head(Sp!Str(w[k])) = "<0x"
  <1> DEFINE w == [k \in 1 .. n |-> Sp!ByteId(c[k])]
  <1>0. DOMAIN c = 1 .. n /\ c \in Seq(Sp!SpByte) /\ Len(c) = n
    OBVIOUS
  <1>1. ASSUME NEW byte \in Sp!SpByte
        PROVE  /\ Sp!ByteId(byte) \in Sp!Ids /\ Sp!Str(Sp!ByteId(byte)) = <<"<0x", byte, ">">>
               /\ SpellOf[Sp!ByteId(byte)] = <<byte>> /\ ~Sp!Control(Sp!ByteId(byte))
               /\ Head(Sp!Str(Sp!ByteId(byte))) = "<0x"
    <2> DEFINE id == Sp!ByteId(byte)
    <2>1. \E k \in DOMAIN SpBytes : SpBytes[k] = byte
      BY DEF Sp!SpByte, Sp!Range
    <2>2. Sp!Place(byte) \in DOMAIN SpBytes /\ SpBytes[Sp!Place(byte)] = byte
      BY <2>1 DEF Sp!Place
    <2>3. id \in Sp!Ids /\ Sp!Str(id) = Sp!Hex(byte)
      BY <2>2, PiecesAssumption DEF Sp!ByteId
    <2> HIDE DEF id
    <2>4. IsByte(id) /\ ~Sp!Control(id)
      <3>1. IsByte(id)
        BY <2>3 DEF IsByte
      <3> QED
        BY <2>3, <3>1, KindOf
    <2>5. Sp!Str(id)[2] = byte /\ Head(Sp!Str(id)) = "<0x"
      BY <2>3 DEF Sp!Hex
    <2>6. SpellOf[id] = <<byte>>
      BY <2>3, <2>4, <2>5, SpellIs
    <2> QED
      BY <2>3, <2>4, <2>5, <2>6 DEF id, Sp!Hex
  <1>2. ASSUME NEW k \in 1 .. n PROVE c[k] \in Sp!SpByte
    OBVIOUS
  <1>3. w \in [1 .. n -> Sp!Ids]
    BY <1>1, <1>2
  <1>4. w \in Seq(Sp!Ids) /\ Len(w) = n /\ \A k \in 1 .. n : w[k] = Sp!ByteId(c[k])
    <2>1. \A k \in 1 .. n : w[k] = Sp!ByteId(c[k])
      OBVIOUS
    <2> HIDE DEF w
    <2> QED
      BY <1>3, <2>1
  <1>5. Spells(w) = c
    <2>1. Spelt(SpellOf, w) = [k \in 1 .. n |-> SpellOf[w[k]]]
      BY <1>4 DEF Spelt
    <2>2. \A k \in 1 .. n : SpellOf[w[k]] = <<c[k]>>
      BY <1>1, <1>2, <1>4
    <2> HIDE DEF w
    <2>3. Spelt(SpellOf, w) = [k \in 1 .. Len(c) |-> <<c[k]>>]
      BY <1>0, <2>1, <2>2
    <2> QED
      BY <1>0, <2>3, FlattenSingles DEF Spells
  <1>6. \A k \in 1 .. n : ~Sp!Control(w[k]) /\ Head(Sp!Str(w[k])) = "<0x"
    <2> HIDE DEF w
    <2> QED
      BY <1>1, <1>2, <1>4
  <1> QED
    BY <1>0, <1>4, <1>5, <1>6

\* What a character becomes.
Taken == IF Sp!Lookup(Sp!Character) # -1 THEN <<Sp!Lookup(Sp!Character)>>
         ELSE [k \in DOMAIN Sp!Character |-> Sp!ByteId(Sp!Character[k])]

LEMMA TakenSpells ==
  ASSUME MapInv, type = "sp", pc # "new", sp_text \in SpText, sp_i \in Nat, sp_i < Len(sp_text)
  PROVE  LET n == Len(Sp!Character) IN
         /\ n \in 1 .. 4 /\ sp_i + n <= Len(sp_text)
         /\ Sp!Character = SubSeq(sp_text, sp_i + 1, sp_i + n)
         /\ Taken \in Seq(Sp!Ids) /\ Len(Taken) <= n /\ Spells(Taken) = Sp!Character
         /\ \A k \in 1 .. Len(Taken) :
               /\ ~Sp!Control(Taken[k])
               /\ Sp!Lookup(<<Sp!Blank>>) = -1 => Head(Sp!Str(Taken[k])) # Sp!Blank
  <1> DEFINE c == Sp!Character
             v == Sp!Lookup(c)
  <1>1. PICK n \in 1 .. 4 :
            /\ c \in [1 .. n -> Sp!SpByte] /\ c \in Sp!Searched
            /\ sp_i + n <= Len(sp_text)
            /\ c = SubSeq(sp_text, sp_i + 1, sp_i + n)
            /\ c[1] = sp_text[sp_i + 1]
            /\ sp_text[sp_i + 1] = Sp!Blank => c = <<Sp!Blank>>
    BY CharacterIs
  <1> HIDE DEF c
  <1>2. c \in Seq(Sp!SpByte) /\ Len(c) = n /\ n \in Nat /\ n >= 1 /\ Head(c) = c[1]
    <2>1. c \in Seq(Sp!SpByte) /\ Len(c) = n
      <3>1. \A m \in Nat : \A g \in [1 .. m -> Sp!SpByte] : g \in Seq(Sp!SpByte) /\ Len(g) = m
        OBVIOUS
      <3>2. n \in Nat /\ c \in [1 .. n -> Sp!SpByte]
        BY <1>1
      <3> QED
        BY <3>1, <3>2
    <2> QED
      BY <2>1
  <1>3. (v \in Sp!Ids /\ Sp!Str(v) = c) \/ v = -1
    BY <1>1, LookupIs
  <1> HIDE DEF v
  <1>4. CASE v # -1
    <2>1. Taken = <<v>>
      BY <1>4 DEF Taken, v, c
    <2>2. ~IsByte(v) /\ ~Sp!Control(v)
      <3>1. "<0x" \notin Sp!SpByte
        BY PiecesAssumption
      <3>2. c[1] \in Sp!SpByte
        BY <1>1, <1>2
      <3>3. Sp!Str(v)[1] \in Sp!SpByte
        BY <1>3, <1>4, <3>2
      <3> QED
        BY <1>3, <1>4, <3>1, <3>3, KindOf
    <2>3. Spells(Taken) = c
      BY <1>3, <1>4, <2>1, <2>2, SpellIs, SpellsOne
    <2>4. Head(c) = Sp!Blank => v = Sp!Lookup(<<Sp!Blank>>)
      BY <1>1, <1>2 DEF v
    <2>5. Taken \in Seq(Sp!Ids) /\ Len(Taken) = 1 /\ Taken[1] = v
      BY <1>3, <1>4, <2>1
    <2>6. \A k \in 1 .. Len(Taken) : Taken[k] = v
      BY <2>5
    <2>7. Sp!Lookup(<<Sp!Blank>>) = -1 => Head(Sp!Str(v)) # Sp!Blank
      BY <1>3, <1>4, <2>4
    <2> QED
      BY <1>1, <1>2, <2>2, <2>3, <2>5, <2>6, <2>7 DEF c
  <1>5. CASE v = -1
    <2> DEFINE w == [k \in DOMAIN c |-> Sp!ByteId(c[k])]
    <2>1. Taken = w
      BY <1>5 DEF Taken, v, c
    <2>2. /\ w \in Seq(Sp!Ids) /\ Len(w) = n /\ Spells(w) = c
          /\ \A k \in 1 .. n : ~Sp!Control(w[k]) /\ Head(Sp!Str(w[k])) = "<0x"
      BY <1>1, <1>2, FallbackSpells
    <2> HIDE DEF w
    <2>3. "<0x" # Sp!Blank
      BY PiecesAssumption
    <2> QED
      BY <1>1, <1>2, <2>1, <2>2, <2>3 DEF c
  <1> QED
    BY <1>4, <1>5

-----------------------------------------------------------------------------
(* Tokens that encode a text, with a space in front or not. *)

Encodes(w, t, f) ==
  /\ w \in Seq(Sp!Ids) /\ Spells(w) = f \o t
  /\ \A k \in 1 .. Len(w) : Sp!Control(w[k]) => k = 1 /\ w[k] = Sp!BosId
  /\ f # <<>> => w # <<>> /\ (w[1] = Sp!BosId => Len(w) >= 2 /\ Head(Sp!Str(w[2])) = Sp!Blank)
  /\ f = <<>> => \A k \in 1 .. Len(w) : Head(Sp!Str(w[k])) # Sp!Blank
  /\ Len(w) <= Len(t) + 2

LEMMA TextAssociative ==
  /\ \A p, q, r \in SpText : (p \o q) \o r = p \o (q \o r)
  /\ \A p, q \in SpText : p \o q \in SpText
  <1> DEFINE A == Sp!SpByte
  <1>1. SpText = Seq(A)
    BY DEF SpText
  <1> HIDE DEF A
  <1>2. \A p, q, r \in Seq(A) : (p \o q) \o r = p \o (q \o r)
    BY Associative
  <1>3. \A p, q \in Seq(A) : p \o q \in Seq(A)
    OBVIOUS
  <1> QED
    BY <1>1, <1>2, <1>3

LEMMA FourTexts ==
  \A p, q, r, s \in SpText : (p \o (q \o r)) \o s = p \o (q \o (r \o s))
  <1> TAKE p, q, r, s \in SpText
  <1> DEFINE qr == q \o r
  <1>1. qr \in SpText
    BY TextAssociative
  <1>2. qr \o s = q \o (r \o s)
    BY TextAssociative
  <1>3. (p \o qr) \o s = p \o (qr \o s)
    <2> HIDE DEF qr
    <2> QED
      BY <1>1, TextAssociative
  <1> QED
    BY <1>2, <1>3

\* More tokens, for more of the text.
LEMMA EncodesMore ==
  ASSUME NEW w, NEW t \in SpText, NEW f \in SpText, Encodes(w, t, f),
         NEW x \in Seq(Sp!Ids), NEW c \in SpText, Spells(x) = c, Len(x) <= Len(c),
         \A k \in 1 .. Len(x) : /\ ~Sp!Control(x[k])
                                /\ f = <<>> => Head(Sp!Str(x[k])) # Sp!Blank
  PROVE  Encodes(w \o x, t \o c, f)
  <1> DEFINE u == w \o x
             n == Len(w)
  <1>1. w \in Seq(Sp!Ids) /\ n \in Nat /\ Len(x) \in Nat
    BY DEF Encodes
  <1>2. u \in Seq(Sp!Ids) /\ Len(u) = n + Len(x)
        /\ \A k \in 1 .. n + Len(x) : u[k] = IF k <= n THEN w[k] ELSE x[k - n]
    BY <1>1, ConcatProperties
  <1>3. Spells(u) = f \o (t \o c)
    <2>1. Spells(u) = Spells(w) \o Spells(x)
      BY <1>1, SpellsConcat
    <2>2. Spells(u) = (f \o t) \o c
      BY <2>1 DEF Encodes
    <2>3. f \in Seq(Sp!SpByte) /\ t \in Seq(Sp!SpByte) /\ c \in Seq(Sp!SpByte)
      BY DEF SpText
    <2>4. (f \o t) \o c = f \o (t \o c)
      BY <2>3, Associative
    <2> QED
      BY <2>2, <2>4
  <1>4. Len(t \o c) = Len(t) + Len(c) /\ Len(t) \in Nat /\ Len(c) \in Nat
    BY DEF SpText
  <1> HIDE DEF u, n
  <1>5. ASSUME NEW k \in 1 .. Len(u)
        PROVE  \/ k \in 1 .. n /\ u[k] = w[k]
               \/ k - n \in 1 .. Len(x) /\ u[k] = x[k - n]
    BY <1>1, <1>2
  <1>6. ASSUME NEW k \in 1 .. Len(u), Sp!Control(u[k]) PROVE k = 1 /\ u[k] = Sp!BosId
    BY <1>5, <1>6 DEF Encodes, n
  <1>7. ASSUME f # <<>>
        PROVE  u # <<>> /\ (u[1] = Sp!BosId => Len(u) >= 2 /\ Head(Sp!Str(u[2])) = Sp!Blank)
    <2>1. n >= 1 /\ (w[1] = Sp!BosId => n >= 2 /\ Head(Sp!Str(w[2])) = Sp!Blank)
      BY <1>1, <1>7 DEF Encodes, n
    <2>2. u[1] = w[1] /\ (n >= 2 => u[2] = w[2]) /\ Len(u) >= n
      BY <1>1, <1>2, <2>1
    <2> QED
      BY <1>1, <1>2, <2>1, <2>2
  <1>8. ASSUME f = <<>>, NEW k \in 1 .. Len(u) PROVE Head(Sp!Str(u[k])) # Sp!Blank
    BY <1>5, <1>8 DEF Encodes, n
  <1>9. Len(u) <= Len(t \o c) + 2
    <2>1. n <= Len(t) + 2
      BY DEF Encodes, n
    <2> QED
      BY <1>1, <1>2, <1>4, <2>1
  <1> QED
    BY <1>2, <1>3, <1>6, <1>7, <1>8, <1>9 DEF Encodes, u

\* Two tokens as the one their strings are together.
LEMMA EncodesJoined ==
  ASSUME NEW w, NEW t \in SpText, NEW f \in SpText, Encodes(w, t, f),
         NEW k \in 1 .. Len(w) - 1, NEW v \in Sp!Ids,
         Sp!Str(v) = Sp!Str(w[k]) \o Sp!Str(w[k + 1])
  PROVE  Encodes(SubSeq(w, 1, k - 1) \o <<v>> \o SubSeq(w, k + 2, Len(w)), t, f)
  <1> DEFINE n == Len(w)
             x == w[k]
             y == w[k + 1]
             p == SubSeq(w, 1, k - 1)
             r == SubSeq(w, k + 2, Len(w))
             V == Sp!Ids
             q == p \o <<v>>
             u == q \o r
  <1>0. w \in Seq(V) /\ n \in Nat /\ k \in 1 .. n /\ k + 1 \in 1 .. n /\ x \in V /\ y \in V
        /\ \A j \in 1 .. n : w[j] \in V
    BY DEF Encodes
  <1>1. /\ p \in Seq(V) /\ Len(p) = k - 1 /\ \A j \in 1 .. k - 1 : p[j] = w[j]
    <2>1. \A j \in 1 .. k - 1 : w[j] \in V
      BY <1>0
    <2>2. p \in Seq(V)
      BY <1>0, <2>1, SubSeqProperties
    <2>3. Len(p) = k - 1 /\ \A j \in 1 .. k - 1 : p[j] = w[j]
      BY <1>0
    <2> QED
      BY <2>2, <2>3
  <1>2. /\ r \in Seq(V) /\ Len(r) = n - k - 1 /\ \A j \in 1 .. n - k - 1 : r[j] = w[k + 1 + j]
    <2>1. \A j \in k + 2 .. n : w[j] \in V
      BY <1>0
    <2>2. r \in Seq(V)
      BY <1>0, <2>1, SubSeqProperties
    <2>3. Len(r) = n - k - 1
      BY <1>0
    <2>4. \A j \in 1 .. n - k - 1 : r[j] = w[k + 1 + j]
      <3>1. ASSUME NEW j \in 1 .. n - k - 1 PROVE r[j] = w[k + 1 + j]
        <4>1. j \in 1 .. n - (k + 2) + 1 /\ (k + 2) + j - 1 = k + 1 + j
          BY <1>0
        <4>2. r[j] = w[(k + 2) + j - 1]
          BY <1>0, <4>1
        <4> QED
          BY <4>1, <4>2
      <3> QED
        BY <3>1
    <2> QED
      BY <2>2, <2>3, <2>4
  <1>3. w = p \o (<<x>> \o (<<y>> \o r))
    <2>1. SubSeq(w, k, n) = <<x>> \o SubSeq(w, k + 1, n)
      BY <1>0, SubSeqRecursiveFirst
    <2>2. SubSeq(w, k + 1, n) = <<y>> \o SubSeq(w, (k + 1) + 1, n)
      BY <1>0, SubSeqRecursiveFirst
    <2>3. SubSeq(w, 1, k - 1) \o SubSeq(w, (k - 1) + 1, n) = SubSeq(w, 1, n)
      <3>1. 1 \in 1 .. n + 1 /\ k - 1 \in 1 - 1 .. n /\ n \in k - 1 .. n
        BY <1>0
      <3> QED
        BY <1>0, <3>1, ConcatAdjacentSubSeq
    <2>4. (k - 1) + 1 = k /\ (k + 1) + 1 = k + 2 /\ SubSeq(w, 1, n) = w
      BY <1>0, SubSeqFull
    <2> QED
      BY <2>1, <2>2, <2>3, <2>4
  <1>4. /\ SpellOf[v] = SpellOf[x] \o SpellOf[y]
        /\ ~Sp!Control(x) /\ ~Sp!Control(y) /\ ~Sp!Control(v)
        /\ Head(Sp!Str(v)) = Head(Sp!Str(x))
    BY <1>0, JoinIs
  <1> HIDE DEF p, r, x, y, V
  <1> DEFINE bx == <<x>>
             by == <<y>>
             bv == <<v>>
  <1>5. bx \in Seq(V) /\ by \in Seq(V) /\ bv \in Seq(V) /\ q = p \o bv
        /\ w = p \o (bx \o (by \o r))
        /\ Spells(bx) = SpellOf[x] /\ Spells(by) = SpellOf[y] /\ Spells(bv) = Spells(bx) \o Spells(by)
    <2>1. x \in V /\ y \in V /\ v \in V
      BY <1>0 DEF V
    <2>2. Spells(bx) = SpellOf[x] /\ Spells(by) = SpellOf[y] /\ Spells(bv) = SpellOf[v]
      BY <2>1, SpellsOne DEF V
    <2>3. bx \in Seq(V) /\ by \in Seq(V) /\ bv \in Seq(V)
      BY <2>1
    <2> QED
      BY <1>3, <1>4, <2>2, <2>3
  <1>6. /\ Len(bv) = 1 /\ bv[1] = v
    OBVIOUS
  <1>7. q \in Seq(V) /\ Len(q) = k /\ \A j \in 1 .. k : q[j] = IF j <= k - 1 THEN w[j] ELSE v
    <2>1. /\ q \in Seq(V) /\ Len(q) = Len(p) + Len(bv)
          /\ \A j \in 1 .. Len(p) + Len(bv) : q[j] = IF j <= Len(p) THEN p[j] ELSE bv[j - Len(p)]
      BY <1>1, <1>5, ConcatProperties
    <2> HIDE DEF q, bv
    <2>2. Len(p) = k - 1 /\ Len(p) + Len(bv) = k
      BY <1>0, <1>1, <1>6
    <2>3. ASSUME NEW j \in 1 .. k PROVE q[j] = IF j <= k - 1 THEN w[j] ELSE v
      <3>1. CASE j <= k - 1
        <4>1. j \in 1 .. k - 1 /\ j \in 1 .. Len(p) + Len(bv) /\ j <= Len(p)
          BY <1>0, <2>2, <3>1
        <4>2. q[j] = p[j]
          BY <2>1, <4>1
        <4> QED
          BY <1>1, <3>1, <4>1, <4>2
      <3>2. CASE ~(j <= k - 1)
        <4>1. j - (k - 1) = 1
          BY <1>0, <3>2
        <4>2. q[j] = bv[j - (k - 1)]
          BY <2>1, <2>2, <3>2
        <4> QED
          BY <1>6, <3>2, <4>1, <4>2
      <3> QED
        BY <3>1, <3>2
    <2> QED
      BY <2>1, <2>2, <2>3
  <1> HIDE DEF q, bx, by, bv
  <1>8. /\ u \in Seq(V) /\ Len(u) = n - 1
        /\ \A j \in 1 .. n - 1 : u[j] = IF j < k THEN w[j] ELSE IF j = k THEN v ELSE w[j + 1]
    <2>1. /\ u \in Seq(V) /\ Len(u) = Len(q) + Len(r)
          /\ \A j \in 1 .. Len(q) + Len(r) : u[j] = IF j <= Len(q) THEN q[j] ELSE r[j - Len(q)]
      BY <1>2, <1>7, ConcatProperties
    <2> HIDE DEF u
    <2>2. Len(q) + Len(r) = n - 1
      BY <1>0, <1>2, <1>7
    <2>3. ASSUME NEW j \in 1 .. n - 1, j <= k PROVE u[j] = IF j < k THEN w[j] ELSE v
      BY <1>0, <1>7, <2>1, <2>2, <2>3
    <2>4. ASSUME NEW j \in 1 .. n - 1, ~(j <= k) PROVE u[j] = w[j + 1]
      <3>1. j - k \in 1 .. n - k - 1 /\ k + 1 + (j - k) = j + 1
        BY <1>0, <2>4
      <3>2. u[j] = r[j - k]
        BY <1>7, <2>1, <2>2, <2>4
      <3> QED
        BY <1>2, <3>1, <3>2
    <2>5. ASSUME NEW j \in 1 .. n - 1
          PROVE  u[j] = IF j < k THEN w[j] ELSE IF j = k THEN v ELSE w[j + 1]
      BY <1>0, <2>3, <2>4
    <2> QED
      BY <2>1, <2>2, <2>5
  <1>9. Spells(u) = f \o t
    <2>1. \A a, b2 \in Seq(V) : a \o b2 \in Seq(V) /\ Spells(a \o b2) = Spells(a) \o Spells(b2)
                                /\ Spells(a) \in SpText
      BY SpellsConcat DEF V
    <2> DEFINE d == by \o r
               e == bx \o d
    <2> HIDE DEF Spells
    <2>3. d \in Seq(V) /\ Spells(d) = Spells(by) \o Spells(r)
      BY <1>2, <1>5, <2>1
    <2> HIDE DEF d
    <2>4. e \in Seq(V) /\ Spells(e) = Spells(bx) \o (Spells(by) \o Spells(r))
      <3>1. e \in Seq(V) /\ Spells(e) = Spells(bx) \o Spells(d)
        BY <1>5, <2>1, <2>3
      <3> QED
        BY <2>3, <3>1
    <2>5. w = p \o e
      BY <1>5 DEF d
    <2> HIDE DEF e
    <2>6. Spells(w) = Spells(p) \o (Spells(bx) \o (Spells(by) \o Spells(r)))
      <3>1. Spells(p \o e) = Spells(p) \o Spells(e)
        BY <1>1, <2>1, <2>4
      <3> QED
        BY <2>4, <2>5, <3>1
    <2>7. Spells(u) = (Spells(p) \o (Spells(bx) \o Spells(by))) \o Spells(r)
      <3>1. Spells(q) = Spells(p) \o Spells(bv)
        BY <1>1, <1>5, <2>1
      <3>2. Spells(u) = Spells(q) \o Spells(r)
        BY <1>2, <1>7, <2>1
      <3> QED
        BY <1>5, <3>1, <3>2
    <2> DEFINE P == Spells(p)
               X == Spells(bx)
               Y == Spells(by)
               R == Spells(r)
    <2>8. P \in SpText /\ X \in SpText /\ Y \in SpText /\ R \in SpText
      BY <1>1, <1>2, <1>5, <2>1
    <2>9. Spells(w) = P \o (X \o (Y \o R)) /\ Spells(u) = (P \o (X \o Y)) \o R
      BY <2>6, <2>7
    <2> HIDE DEF P, X, Y, R
    <2>10. Spells(u) = Spells(w)
      <3>1. (P \o (X \o Y)) \o R = P \o (X \o (Y \o R))
        <4>1. \A a1, a2, a3 \in SpText : (P \o (a1 \o a2)) \o a3 = P \o (a1 \o (a2 \o a3))
          BY <2>8, FourTexts
        <4>2. \A a2, a3 \in SpText : (P \o (X \o a2)) \o a3 = P \o (X \o (a2 \o a3))
          BY <2>8, <4>1
        <4>3. \A a3 \in SpText : (P \o (X \o Y)) \o a3 = P \o (X \o (Y \o a3))
          BY <2>8, <4>2
        <4> QED
          BY <2>8, <4>3
      <3> QED
        BY <2>9, <3>1
    <2> QED
      BY <2>10 DEF Encodes
  <1> HIDE DEF u
  <1>10. ASSUME NEW j \in 1 .. n, Sp!Control(w[j]) PROVE j = 1 /\ w[j] = Sp!BosId /\ j < k
    <2>1. j = 1 /\ w[j] = Sp!BosId
      BY <1>10 DEF Encodes
    <2>2. k # 1
      BY <1>4, <1>10, <2>1 DEF x
    <2> QED
      BY <1>0, <2>1, <2>2
  <1>11. ASSUME NEW j \in 1 .. n - 1, Sp!Control(u[j]) PROVE j = 1 /\ u[j] = Sp!BosId
    <2>1. CASE j < k
      BY <1>0, <1>8, <1>10, <1>11, <2>1
    <2>2. CASE j = k
      BY <1>0, <1>4, <1>8, <1>11, <2>2
    <2>3. CASE j > k
      <3>1. j + 1 \in 1 .. n /\ u[j] = w[j + 1] /\ ~(j + 1 < k)
        BY <1>0, <1>8, <2>3
      <3> QED
        BY <1>10, <1>11, <3>1
    <2> QED
      BY <1>0, <2>1, <2>2, <2>3
  <1>12. ASSUME f # <<>>
         PROVE  u # <<>> /\ (u[1] = Sp!BosId => Len(u) >= 2 /\ Head(Sp!Str(u[2])) = Sp!Blank)
    <2>1. w[1] = Sp!BosId => n >= 2 /\ Head(Sp!Str(w[2])) = Sp!Blank
      BY <1>12 DEF Encodes, n
    <2>2. u # <<>>
      BY <1>0, <1>8
    <2>3. Sp!Control(Sp!BosId)
      BY PiecesAssumption
    <2>4. ASSUME u[1] = Sp!BosId PROVE Len(u) >= 2 /\ Head(Sp!Str(u[2])) = Sp!Blank
      <3>1. k # 1
        <4>1. k = 1 => u[1] = v
          BY <1>0, <1>8
        <4> QED
          BY <1>4, <2>3, <2>4, <4>1
      <3>2. u[1] = w[1] /\ Len(u) >= 2 /\ k >= 2
        BY <1>0, <1>8, <3>1
      <3>3. Head(Sp!Str(w[2])) = Sp!Blank
        BY <2>1, <2>4, <3>2
      <3>4. CASE k = 2
        <4>1. u[2] = v /\ x = w[2]
          BY <1>0, <1>8, <3>2, <3>4 DEF x
        <4> QED
          BY <1>4, <3>2, <3>3, <4>1
      <3>5. CASE k # 2
        <4>1. u[2] = w[2]
          BY <1>0, <1>8, <3>2, <3>5
        <4> QED
          BY <3>2, <3>3, <4>1
      <3> QED
        BY <3>4, <3>5
    <2> QED
      BY <2>2, <2>4
  <1>13. ASSUME f = <<>>, NEW j \in 1 .. n - 1 PROVE Head(Sp!Str(u[j])) # Sp!Blank
    <2>1. \A m \in 1 .. n : Head(Sp!Str(w[m])) # Sp!Blank
      BY <1>13 DEF Encodes
    <2>2. CASE j = k
      <3>1. u[j] = v
        BY <1>0, <1>8, <2>2
      <3>2. Head(Sp!Str(x)) # Sp!Blank
        BY <1>0, <2>1 DEF x
      <3> QED
        BY <1>4, <3>1, <3>2
    <2>3. CASE j # k
      <3>1. u[j] = w[j] \/ u[j] = w[j + 1]
        BY <1>0, <1>8, <2>3
      <3>2. j \in 1 .. n /\ j + 1 \in 1 .. n
        BY <1>0
      <3> QED
        BY <2>1, <3>1, <3>2
    <2> QED
      BY <2>2, <2>3
  <1>14. Len(u) <= Len(t) + 2
    <2>1. n <= Len(t) + 2 /\ Len(t) \in Nat
      BY DEF Encodes, SpText
    <2> QED
      BY <1>0, <1>8, <2>1
  <1>15. Encodes(u, t, f)
    <2> HIDE DEF n
    <2>1. u \in Seq(Sp!Ids)
      BY <1>8 DEF V
    <2> QED
      BY <1>8, <1>9, <1>11, <1>12, <1>13, <1>14, <2>1 DEF Encodes
  <1> QED
    BY <1>15 DEF u, q, p, r

\* What one token prints behind another.
Printed(w, k) == IF w[k] = Sp!BosId THEN <<>>
                 ELSE Sp!SpDecode(IF k = 1 THEN -1 ELSE w[k - 1], w[k])

\* Away from the first token, or without a space to drop, it prints what it spells.
LEMMA PrintsItsText ==
  ASSUME NEW w \in Seq(Sp!Ids), NEW k \in 1 .. Len(w),
         Sp!Control(w[k]) => w[k] = Sp!BosId,
         k > 1 /\ w[k - 1] = Sp!BosId => Head(Sp!Str(w[k])) # Sp!Blank
  PROVE  Printed(w, k) = SpellOf[w[k]]
  <1> DEFINE v == w[k]
             prev == IF k = 1 THEN -1 ELSE w[k - 1]
  <1>1. v \in Sp!Ids /\ Len(w) \in Nat
    OBVIOUS
  <1>2. CASE v = Sp!BosId
    <2>1. Sp!Control(v)
      BY <1>2, PiecesAssumption
    <2> QED
      BY <1>1, <1>2, <2>1, SpellIs DEF Printed
  <1>3. CASE v # Sp!BosId
    <2>1. ~Sp!Control(v)
      BY <1>3
    <2>2. prev = Sp!BosId => Head(Sp!Str(v)) # Sp!Blank
      BY DEF Sp!BosId
    <2>3. Printed(w, k) = Sp!SpDecode(prev, v)
      BY <1>3 DEF Printed
    <2> HIDE DEF v, prev
    <2>4. Sp!SpDecode(prev, v) = IF IsByte(v) THEN <<Sp!Str(v)[2]>> ELSE Sp!Str(v)
      BY <2>2 DEF Sp!SpDecode, IsByte
    <2>5. SpellOf[v] = IF IsByte(v) THEN <<Sp!Str(v)[2]>> ELSE Sp!Str(v)
      BY <1>1, <2>1, SpellIs
    <2> QED
      BY <2>3, <2>4, <2>5 DEF v
  <1> QED
    BY <1>2, <1>3

\* Behind the first token a space is dropped.
LEMMA PrintsWithoutSpace ==
  ASSUME NEW w \in Seq(Sp!Ids), 2 \in 1 .. Len(w), w[1] = Sp!BosId,
         ~Sp!Control(w[2]), Head(Sp!Str(w[2])) = Sp!Blank
  PROVE  /\ Printed(w, 2) \in SpText
         /\ SpellOf[w[2]] = <<Sp!Blank>> \o Printed(w, 2)
  <1> DEFINE v == w[2]
             s == Sp!Str(v)
  <1>1. v \in Sp!Ids /\ Sp!Blank \in Sp!SpByte /\ "<0x" \notin Sp!SpByte
    BY PiecesAssumption
  <1>2. s \in Seq(Sign) /\ s # <<>> /\ Head(s) = Sp!Blank /\ Head(s) = s[1]
    BY <1>1, KindOf
  <1>3. s \in SpText /\ ~IsByte(v) /\ ~Sp!Control(v)
    <2>1. s[1] # "<0x"
      BY <1>1, <1>2
    <2> QED
      BY <1>1, <2>1, KindOf
  <1>4. v # Sp!BosId
    BY <1>3, PiecesAssumption
  <1> HIDE DEF v
  <1>5. Tail(s) \in SpText /\ s = <<Sp!Blank>> \o Tail(s)
    <2>1. s \in Seq(Sp!SpByte) /\ Len(s) \in Nat \ {0}
      BY <1>2, <1>3 DEF SpText
    <2>2. Tail(s) \in Seq(Sp!SpByte) /\ s = <<Head(s)>> \o Tail(s)
      <3> HIDE DEF s
      <3> QED
        BY <2>1, <1>2
    <2> QED
      BY <1>2, <2>2 DEF SpText
  <1>6. Printed(w, 2) = Sp!SpDecode(Sp!BosId, v)
    BY <1>4 DEF Printed, v
  <1>7. Sp!SpDecode(Sp!BosId, v) = Tail(s)
    <2>1. \A byte \in Sp!SpByte : Tail(s) # Sp!Hex(byte)
      <3> SUFFICES ASSUME NEW byte \in Sp!SpByte, Tail(s) = <<"<0x", byte, ">">> PROVE FALSE
        BY DEF Sp!Hex
      <3> DEFINE u == Tail(s)
      <3>1. u[1] = "<0x" /\ Len(u) = 3
        <4>1. u = <<"<0x", byte, ">">>
          OBVIOUS
        <4> HIDE DEF u
        <4> QED
          BY <4>1
      <3>2. Tail(s)[1] \in Sp!SpByte
        BY <1>5, <3>1 DEF SpText
      <3> QED
        BY <1>1, <3>1, <3>2
    <2> HIDE DEF s
    <2> QED
      BY <1>2, <2>1 DEF Sp!SpDecode, s
  <1>8. SpellOf[v] = s
    BY <1>1, <1>3, SpellIs
  <1> QED
    BY <1>5, <1>6, <1>7, <1>8 DEF v

\* The first two of some sequences, the first one empty.
LEMMA TwoInFront ==
  ASSUME NEW B, NEW F \in Seq(Seq(B)), NEW n \in Nat, Len(F) = n, n >= 2, F[1] = <<>>
  PROVE  /\ FlattenSeq(F) = F[2] \o FlattenSeq(SubSeq(F, 3, n))
         /\ SubSeq(F, 3, n) \in Seq(Seq(B))
  <1> DEFINE z == SubSeq(F, 3, n)
             V == Seq(B)
             b1 == <<F[1]>>
             b2 == <<F[2]>>
             d == b2 \o z
  <1>0. F \in Seq(V) /\ 1 \in 1 .. n /\ 2 \in 1 .. n /\ \A k \in 1 .. n : F[k] \in V
    OBVIOUS
  <1>1. F = b1 \o d
    <2>1. SubSeq(F, 1, n) = <<F[1]>> \o SubSeq(F, 1 + 1, n)
      BY <1>0, SubSeqRecursiveFirst
    <2>2. SubSeq(F, 2, n) = <<F[2]>> \o SubSeq(F, 2 + 1, n)
      BY <1>0, SubSeqRecursiveFirst
    <2>3. SubSeq(F, 1, n) = F
      BY SubSeqFull
    <2>4. 1 + 1 = 2 /\ 2 + 1 = 3
      OBVIOUS
    <2>5. SubSeq(F, 1 + 1, n) = d
      BY <2>2, <2>4
    <2> HIDE DEF d
    <2> QED
      BY <2>1, <2>3, <2>5
  <1>2. z \in Seq(V)
    <2>1. \A k \in 3 .. n : F[k] \in V
      BY <1>0
    <2> HIDE DEF V
    <2> QED
      BY <1>0, <2>1, SubSeqProperties
  <1>3. b1 \in Seq(V) /\ b2 \in Seq(V)
    BY <1>0
  <1>4. FlattenSeq(b1) = F[1] /\ FlattenSeq(b2) = F[2]
    BY <1>0, FlattenOne
  <1>5. FlattenSeq(z) \in V /\ F[2] \in V
    BY <1>0, <1>2, FlattenIsSeq
  <1>6. \A x, y \in Seq(V) : FlattenSeq(x \o y) = FlattenSeq(x) \o FlattenSeq(y)
                             /\ x \o y \in Seq(V)
    BY FlattenConcat
  <1> HIDE DEF z, b1, b2, V
  <1>9. FlattenSeq(d) = FlattenSeq(b2) \o FlattenSeq(z) /\ d \in Seq(V)
    BY <1>2, <1>3, <1>6
  <1> HIDE DEF d
  <1>7. FlattenSeq(F) = F[1] \o FlattenSeq(d)
    <2>1. FlattenSeq(b1 \o d) = FlattenSeq(b1) \o FlattenSeq(d)
      BY <1>3, <1>6, <1>9
    <2> QED
      BY <1>1, <1>4, <2>1
  <1>8. <<>> \o FlattenSeq(d) = FlattenSeq(d)
    <2>1. FlattenSeq(d) \in Seq(B)
      BY <1>9, FlattenIsSeq DEF V
    <2> QED
      BY <2>1
  <1> QED
    BY <1>2, <1>4, <1>7, <1>8, <1>9 DEF z, V

\* What the tokens print is the text, and the space unless the first is BosId.
LEMMA EncodesPrints ==
  ASSUME NEW w, NEW t \in SpText, NEW f \in {<<>>, <<Sp!Blank>>}, Encodes(w, t, f)
  PROVE  FlattenSeq([k \in 1 .. Len(w) |-> Printed(w, k)])
            = (IF w # <<>> /\ w[1] # Sp!BosId THEN f ELSE <<>>) \o t
  <1> DEFINE n == Len(w)
             D == [k \in 1 .. n |-> Printed(w, k)]
             W == Spelt(SpellOf, w)
             B == Sp!SpByte
  <1>0. w \in Seq(Sp!Ids) /\ n \in Nat /\ (\A k \in 1 .. n : w[k] \in Sp!Ids)
        /\ t \in Seq(B) /\ Sp!Control(Sp!BosId)
    BY PiecesAssumption DEF Encodes, SpText
  <1>1. W = [k \in 1 .. n |-> SpellOf[w[k]]]
    BY DEF Spelt
  <1>2. FlattenSeq(W) = f \o t
    BY DEF Encodes, Spells
  <1>3. \A k \in 1 .. n : Sp!Control(w[k]) => k = 1 /\ w[k] = Sp!BosId
    BY DEF Encodes
  <1>4. CASE f # <<>> /\ w[1] = Sp!BosId
    <2>1. 2 \in 1 .. n /\ 1 \in 1 .. n /\ Head(Sp!Str(w[2])) = Sp!Blank
      BY <1>0, <1>4 DEF Encodes
    <2>2. ~Sp!Control(w[2])
      BY <1>3, <2>1
    <2> DEFINE s == Printed(w, 2)
               b1 == <<Sp!Blank>>
    <2>3. s \in Seq(B) /\ SpellOf[w[2]] = b1 \o s
      BY <1>0, <1>4, <2>1, <2>2, PrintsWithoutSpace DEF SpText
    <2>4. Printed(w, 1) = <<>> /\ SpellOf[w[1]] = <<>>
      <3>1. SpellOf[w[1]] = <<>>
        BY <1>0, <1>4, <2>1, SpellIs
      <3> QED
        BY <1>4, <3>1 DEF Printed
    <2>5. ASSUME NEW k \in 1 .. n, k > 2 PROVE Printed(w, k) = SpellOf[w[k]]
      <3>1. w[k - 1] # Sp!BosId
        <4>1. k - 1 \in 1 .. n /\ k - 1 # 1
          BY <1>0, <2>5
        <4> QED
          BY <1>0, <1>3, <4>1
      <3>2. Sp!Control(w[k]) => w[k] = Sp!BosId
        BY <1>3
      <3> QED
        BY <1>0, <3>1, <3>2, PrintsItsText
    <2>6. \A k \in 1 .. n : SpellOf[w[k]] \in Seq(B)
      BY <1>0, SpellIs DEF SpText
    <2>7. b1 \in Seq(B)
      BY PiecesAssumption
    <2>8. \A k \in 1 .. n : Printed(w, k) \in Seq(B)
      <3>1. ASSUME NEW k \in 1 .. n PROVE Printed(w, k) \in Seq(B)
        <4>1. CASE k = 1
          BY <2>4, <2>6, <4>1
        <4>2. CASE k = 2
          BY <2>3, <4>2
        <4>3. CASE k > 2
          BY <2>5, <2>6, <4>3
        <4> QED
          BY <4>1, <4>2, <4>3
      <3> QED
        BY <3>1
    <2>9. \A m \in Nat : \A z \in [1 .. m -> Seq(B)] : z \in Seq(Seq(B)) /\ Len(z) = m
      OBVIOUS
    <2>10. D \in Seq(Seq(B)) /\ Len(D) = n /\ \A k \in 1 .. n : D[k] = Printed(w, k)
      <3>1. D \in [1 .. n -> Seq(B)] /\ \A k \in 1 .. n : D[k] = Printed(w, k)
        BY <2>8
      <3> HIDE DEF D
      <3> QED
        BY <1>0, <2>9, <3>1
    <2>11. W \in Seq(Seq(B)) /\ Len(W) = n /\ \A k \in 1 .. n : W[k] = SpellOf[w[k]]
      <3>1. W \in [1 .. n -> Seq(B)] /\ \A k \in 1 .. n : W[k] = SpellOf[w[k]]
        BY <1>1, <2>6
      <3> HIDE DEF W
      <3> QED
        BY <1>0, <2>9, <3>1
    <2> HIDE DEF D, W, s, b1
    <2> DEFINE restD == SubSeq(D, 3, n)
               restW == SubSeq(W, 3, n)
    <2>12. n >= 2
      BY <1>0, <2>1
    <2>13. FlattenSeq(D) = s \o FlattenSeq(restD) /\ restD \in Seq(Seq(B))
      BY <1>0, <2>4, <2>10, <2>12, <2>1, TwoInFront DEF s
    <2>14. FlattenSeq(W) = (b1 \o s) \o FlattenSeq(restW) /\ restW \in Seq(Seq(B))
      <3>1. W[1] = <<>> /\ W[2] = b1 \o s
        BY <2>1, <2>3, <2>4, <2>11
      <3>2. FlattenSeq(W) = W[2] \o FlattenSeq(restW) /\ restW \in Seq(Seq(B))
        BY <1>0, <2>11, <2>12, <3>1, TwoInFront
      <3> QED
        BY <3>1, <3>2
    <2>15. restD = restW
      <3>1. Len(restD) = n - 2 /\ Len(restW) = n - 2
        BY <1>0, <2>10, <2>11, <2>12
      <3>2. ASSUME NEW k \in 1 .. n - 2 PROVE restD[k] = restW[k]
        <4>1. k + 2 \in 1 .. n /\ k + 2 > 2 /\ 3 + k - 1 = k + 2
          BY <1>0
        <4>2. restD[k] = D[3 + k - 1]
          BY <1>0, <2>10, <2>12
        <4>3. restW[k] = W[3 + k - 1]
          BY <1>0, <2>11, <2>12
        <4> QED
          BY <2>5, <2>10, <2>11, <4>1, <4>2, <4>3
      <3> HIDE DEF restD, restW
      <3> QED
        BY <2>13, <2>14, <3>1, <3>2, SeqEqual
    <2> DEFINE R == FlattenSeq(restW)
    <2>16. R \in Seq(B)
      BY <2>14, FlattenIsSeq
    <2>17. FlattenSeq(D) = s \o R
      BY <2>13, <2>15
    <2>18. f = b1
      BY <1>4 DEF b1
    <2> HIDE DEF restD, restW, R
    <2>19. b1 \o (s \o R) = b1 \o t
      <3>1. (b1 \o s) \o R = b1 \o (s \o R)
        BY <2>3, <2>7, <2>16, Associative
      <3> QED
        BY <1>2, <2>14, <2>18, <3>1 DEF R
    <2>20. s \o R = t
      <3> DEFINE sR == s \o R
      <3>1. sR \in Seq(B)
        BY <2>3, <2>16
      <3> HIDE DEF sR
      <3>2. b1 \o sR = b1 \o t
        BY <2>19 DEF sR
      <3>3. sR = t
        BY <1>0, <2>7, <3>1, <3>2, ConcatSimplifications
      <3> QED
        BY <3>3 DEF sR
    <2>21. <<>> \o t = t
      BY <1>0
    <2> QED
      BY <1>4, <2>17, <2>20, <2>21 DEF D
  <1>5. CASE ~(f # <<>> /\ w[1] = Sp!BosId)
    <2>1. ASSUME NEW k \in 1 .. n PROVE Printed(w, k) = SpellOf[w[k]]
      <3>1. Sp!Control(w[k]) => w[k] = Sp!BosId
        BY <1>3
      <3>2. ASSUME k > 1, w[k - 1] = Sp!BosId PROVE Head(Sp!Str(w[k])) # Sp!Blank
        <4>1. k - 1 \in 1 .. n
          BY <1>0, <3>2
        <4>2. k - 1 = 1
          BY <1>0, <1>3, <3>2, <4>1
        <4>3. f = <<>>
          BY <1>5, <3>2, <4>2
        <4> QED
          BY <4>3 DEF Encodes
      <3> QED
        BY <1>0, <3>1, <3>2, PrintsItsText
    <2>2. D = W
      BY <1>1, <2>1
    <2>3. (IF w # <<>> /\ w[1] # Sp!BosId THEN f ELSE <<>>) = f
      <3>1. f # <<>> => w # <<>>
        BY DEF Encodes
      <3> QED
        BY <1>5, <3>1
    <2> QED
      BY <1>2, <2>2, <2>3
  <1> QED
    BY <1>4, <1>5

-----------------------------------------------------------------------------
(* Encoding by SentencePiece. *)

SpaceInFront == IF sp_text # <<>> /\ Sp!Lookup(<<Sp!Blank>>) # -1 THEN <<Sp!Blank>> ELSE <<>>

\* The tokens encode the text up to where it was read, behind a space if there
\* is a piece for it.
SpInv ==
  type = "sp" =>
    /\ pc \in {"new", "call", "char", "join", "done"}
    /\ sp_text \in SpText /\ sp_i \in 0 .. Len(sp_text)
    /\ pc \in {"new", "call"} => sp_i = 0 /\ ids = <<>>
    /\ pc \in {"char", "join", "done"} => Encodes(ids, SubSeq(sp_text, 1, sp_i), SpaceInFront)

LEMMA BlankIs ==
  ASSUME MapInv, type = "sp", pc # "new"
  PROVE  LET v == Sp!Lookup(<<Sp!Blank>>) IN
         v # -1 => v \in Sp!Ids /\ Spells(<<v>>) = <<Sp!Blank>> /\ ~Sp!Control(v)
                   /\ Head(Sp!Str(v)) = Sp!Blank
  <1> DEFINE v == Sp!Lookup(<<Sp!Blank>>)
  <1> SUFFICES ASSUME v # -1
               PROVE  v \in Sp!Ids /\ Spells(<<v>>) = <<Sp!Blank>> /\ ~Sp!Control(v)
                      /\ Head(Sp!Str(v)) = Sp!Blank
    OBVIOUS
  <1>1. <<Sp!Blank>> \in Sp!Searched
    <2> DEFINE A == {Sp!Str(a) : a \in Sp!Ids}
               B == {Sp!Str(a) \o Sp!Str(d) : a, d \in Sp!Ids}
               C == {<<Sp!Blank>>}
               D == UNION {[1 .. k -> Sp!SpByte] : k \in 1 .. 4}
    <2>1. Sp!Searched = A \cup B \cup C \cup D
      BY DEF Sp!Searched
    <2>2. <<Sp!Blank>> \in C
      OBVIOUS
    <2> HIDE DEF A, B, C, D
    <2> QED
      BY <2>1, <2>2
  <1>2. v \in Sp!Ids /\ Sp!Str(v) = <<Sp!Blank>>
    BY <1>1, LookupIs
  <1>3. Sp!Blank \in Sp!SpByte /\ "<0x" \notin Sp!SpByte
    BY PiecesAssumption
  <1> HIDE DEF v
  <1>4. Sp!Str(v)[1] = Sp!Blank /\ Head(Sp!Str(v)) = Sp!Blank
    BY <1>2
  <1>5. ~IsByte(v) /\ ~Sp!Control(v)
    <2>1. Sp!Str(v)[1] \in Sp!SpByte /\ Sp!Str(v)[1] # "<0x"
      BY <1>3, <1>4
    <2> QED
      BY <1>2, <2>1, KindOf
  <1>6. Spells(<<v>>) = <<Sp!Blank>>
    BY <1>2, <1>5, SpellIs, SpellsOne
  <1> QED
    BY <1>2, <1>4, <1>5, <1>6 DEF v

LEMMA TwoOnes ==
  ASSUME NEW A, NEW x \in A, NEW y \in A
  PROVE  <<x>> \o <<y>> = <<x, y>> /\ <<>> \o <<y>> = <<y>>
  <1> DEFINE u == <<x>>
             v == <<y>>
             w == <<x, y>>
             e == <<>>
  <1>1. u \in Seq(A) /\ Len(u) = 1 /\ u[1] = x
    OBVIOUS
  <1>2. v \in Seq(A) /\ Len(v) = 1 /\ v[1] = y
    OBVIOUS
  <1>3. w \in Seq(A) /\ Len(w) = 2 /\ w[1] = x /\ w[2] = y
    OBVIOUS
  <1>4. e \in Seq(A) /\ Len(e) = 0
    OBVIOUS
  <1> HIDE DEF u, v, w, e
  <1>5. u \o v = w
    <2> DEFINE z == u \o v
    <2>1. /\ z \in Seq(A) /\ Len(z) = Len(u) + Len(v)
          /\ \A k \in 1 .. Len(u) + Len(v) : z[k] = IF k <= Len(u) THEN u[k] ELSE v[k - Len(u)]
      BY <1>1, <1>2, ConcatProperties
    <2> HIDE DEF z
    <2>2. Len(z) = 2 /\ z[1] = x /\ z[2] = y
      BY <1>1, <1>2, <2>1
    <2>3. \A k \in 1 .. Len(z) : z[k] = w[k]
      <3>1. \A k \in 1 .. 2 : k = 1 \/ k = 2
        OBVIOUS
      <3> QED
        BY <1>3, <2>2, <3>1
    <2>4. z = w
      BY <1>3, <2>1, <2>2, <2>3, SeqEqual
    <2> QED
      BY <2>4 DEF z
  <1>6. e \o v = v
    BY <1>2, ConcatEmptySeq DEF e
  <1> QED
    BY <1>5, <1>6 DEF u, v, w, e

\* What there is before the first character.
LEMMA EncodesNothing ==
  ASSUME NEW v, NEW a \in BOOLEAN, NEW space \in BOOLEAN,
         space => v \in Sp!Ids /\ Spells(<<v>>) = <<Sp!Blank>> /\ ~Sp!Control(v)
                  /\ Head(Sp!Str(v)) = Sp!Blank
  PROVE  Encodes((IF a THEN <<Sp!BosId>> ELSE <<>>) \o (IF space THEN <<v>> ELSE <<>>),
                 <<>>, IF space THEN <<Sp!Blank>> ELSE <<>>)
  <1> DEFINE bos == Sp!BosId
             f == <<Sp!Blank>>
  <1>1. bos \in Sp!Ids /\ Spells(<<bos>>) = <<>> /\ Sp!Control(bos) /\ Head(Sp!Str(bos)) # Sp!Blank
    <2>1. bos \in Sp!Ids /\ Sp!Control(bos) /\ Sp!Blank \in Sp!SpByte
      BY PiecesAssumption
    <2> HIDE DEF bos
    <2>2. Spells(<<bos>>) = <<>>
      BY <2>1, SpellIs, SpellsOne
    <2>3. Head(Sp!Str(bos)) \notin Sp!SpByte
      BY <2>1 DEF Sp!Control
    <2> QED
      BY <2>1, <2>2, <2>3
  <1>2. <<>> \in Seq(Sp!Ids) /\ Spells(<<>>) = <<>> /\ Len(<<>>) = 0
    BY SpellsNone
  <1>3. <<>> \o <<>> = <<>> /\ f \o <<>> = f
    OBVIOUS
  <1> HIDE DEF f
  <1>4. Encodes(<<>>, <<>>, <<>>)
    BY <1>2, <1>3 DEF Encodes
  <1>5. Encodes(<<bos>>, <<>>, <<>>)
    <2>1. <<bos>> \in Seq(Sp!Ids) /\ Len(<<bos>>) = 1 /\ <<bos>>[1] = bos
      BY <1>1
    <2> DEFINE w == <<bos>>
    <2> HIDE DEF bos, w
    <2>2. \A k \in 1 .. Len(w) : k = 1 /\ w[k] = bos
      BY <2>1 DEF w
    <2> QED
      BY <1>1, <1>2, <1>3, <2>1, <2>2 DEF Encodes, w, bos
  <1>6. ASSUME space PROVE Encodes(<<v>>, <<>>, f)
    <2>1. <<v>> \in Seq(Sp!Ids) /\ Len(<<v>>) = 1 /\ <<v>>[1] = v /\ <<v>> # <<>>
      BY <1>6
    <2> DEFINE w == <<v>>
    <2>2. v # bos
      BY <1>1, <1>6
    <2>3. \A k \in 1 .. Len(w) : w[k] = v
      BY <2>1
    <2>4. f # <<>> /\ Spells(w) = f \o <<>>
      BY <1>3, <1>6 DEF f
    <2> HIDE DEF w, bos
    <2> QED
      BY <1>2, <1>6, <2>1, <2>2, <2>3, <2>4 DEF Encodes, w, bos
  <1>7. ASSUME space PROVE Encodes(<<bos, v>>, <<>>, f)
    <2> DEFINE w == <<bos, v>>
    <2>1. w \in Seq(Sp!Ids) /\ Len(w) = 2 /\ w[1] = bos /\ w[2] = v /\ w # <<>>
      BY <1>1, <1>6, <1>7
    <2>2. Spells(w) = f
      <3> DEFINE b1 == <<bos>>
                 b2 == <<v>>
      <3>1. w = b1 \o b2 /\ b1 \in Seq(Sp!Ids) /\ b2 \in Seq(Sp!Ids)
        BY <1>1, <1>7
      <3>2. Spells(b1) = <<>> /\ Spells(b2) = f
        BY <1>1, <1>7 DEF f
      <3> HIDE DEF b1, b2, w
      <3>3. Spells(b1 \o b2) = Spells(b1) \o Spells(b2)
        BY <3>1, SpellsConcat
      <3>4. <<>> \o f = f
        BY DEF f
      <3> QED
        BY <3>1, <3>2, <3>3, <3>4
    <2>3. f # <<>> /\ Spells(w) = f \o <<>>
      BY <1>3, <2>2 DEF f
    <2> HIDE DEF w, bos
    <2>4. \A k \in 1 .. Len(w) : k = 1 \/ w[k] = v
      BY <2>1
    <2>5. \A k \in 1 .. Len(w) : Sp!Control(w[k]) => k = 1 /\ w[k] = bos
      BY <1>7, <2>1, <2>4
    <2> QED
      BY <1>2, <1>7, <2>1, <2>3, <2>5 DEF Encodes, bos
  <1> DEFINE x == IF a THEN <<bos>> ELSE <<>>
             y == IF space THEN <<v>> ELSE <<>>
  <1>8. x \o y = IF a THEN IF space THEN <<bos, v>> ELSE <<bos>>
                 ELSE IF space THEN <<v>> ELSE <<>>
    <2>1. bos \in Sp!Ids
      BY <1>1
    <2> HIDE DEF bos
    <2>2. <<bos>> \o <<>> = <<bos>>
      BY <2>1
    <2>3. CASE space
      <3>1. v \in Sp!Ids
        BY <2>3
      <3>2. <<bos>> \o <<v>> = <<bos, v>> /\ <<>> \o <<v>> = <<v>>
        BY <2>1, <3>1, TwoOnes
      <3> QED
        BY <2>3, <3>2
    <2>4. CASE ~space
      BY <1>3, <2>2, <2>4
    <2> QED
      BY <2>3, <2>4
  <1> QED
    BY <1>4, <1>5, <1>6, <1>7, <1>8 DEF f

\* The best pair is one that is a piece.
LEMMA BestPairIs ==
  ASSUME MapInv, type = "sp", pc # "new", ids \in Seq(Sp!Ids), Sp!Joinable # {}
  PROVE  LET k == Sp!BestPair IN
         /\ k \in 1 .. Len(ids) - 1 /\ Sp!Pair(k) \in Sp!Ids
         /\ Sp!Str(Sp!Pair(k)) = Sp!Str(ids[k]) \o Sp!Str(ids[k + 1])
  <1> DEFINE J == Sp!Joinable
             n == Len(ids)
             best == Sp!BestPair
             scores == {Sp!Score(Sp!Pair(k)) : k \in J}
             top == Sp!Max(scores)
             first == {k \in J : Sp!Score(Sp!Pair(k)) = top}
  <1>0. n \in Nat /\ \A k \in 1 .. n : ids[k] \in Sp!Ids
    OBVIOUS
  <1>1. ASSUME NEW k \in J
        PROVE  /\ k \in 1 .. n - 1 /\ Sp!Pair(k) \in Sp!Ids
               /\ Sp!Str(Sp!Pair(k)) = Sp!Str(ids[k]) \o Sp!Str(ids[k + 1])
    <2>1. k \in 1 .. n - 1 /\ Sp!Pair(k) # -1
      BY DEF Sp!Joinable
    <2>2. ids[k] \in Sp!Ids /\ ids[k + 1] \in Sp!Ids
      BY <1>0, <2>1
    <2> DEFINE s == Sp!Str(ids[k]) \o Sp!Str(ids[k + 1])
    <2>3. s \in Sp!Searched
      <3> DEFINE A == {Sp!Str(x) : x \in Sp!Ids}
                 B == {Sp!Str(x) \o Sp!Str(d) : x, d \in Sp!Ids}
                 C == {<<Sp!Blank>>}
                 D == UNION {[1 .. m -> Sp!SpByte] : m \in 1 .. 4}
      <3>1. Sp!Searched = A \cup B \cup C \cup D
        BY DEF Sp!Searched
      <3>2. \A x, d \in Sp!Ids : Sp!Str(x) \o Sp!Str(d) \in B
        OBVIOUS
      <3> HIDE DEF A, B, C, D
      <3> QED
        BY <2>2, <3>1, <3>2
    <2>4. Sp!Pair(k) = Sp!Lookup(s)
      BY DEF Sp!Pair
    <2> HIDE DEF s
    <2>5. Sp!Pair(k) \in Sp!Ids /\ Sp!Str(Sp!Pair(k)) = s
      BY <2>1, <2>3, <2>4, LookupIs
    <2> QED
      BY <2>1, <2>5 DEF s
  <1>2. J \in SUBSET (1 .. n) /\ J # {}
    BY <1>0, <1>1
  <1>3. \A k \in J : Sp!Score(Sp!Pair(k)) \in Int
    BY <1>1, PiecesAssumption
  <1> HIDE DEF J
  <1>4. \E k \in J : \A j \in J : Sp!Score(Sp!Pair(k)) >= Sp!Score(Sp!Pair(j))
    <2> DEFINE f == [k \in J |-> Sp!Score(Sp!Pair(k))]
    <2>1. f \in [J -> Int] /\ \A k \in J : f[k] = Sp!Score(Sp!Pair(k))
      BY <1>3
    <2> HIDE DEF f
    <2>2. \E k \in J : \A j \in J : f[k] >= f[j]
      BY <1>0, <1>2, <2>1, MaxValue
    <2> QED
      BY <2>1, <2>2
  <1>5. top \in scores
    <2>1. \E x \in scores : \A y \in scores : x >= y
      BY <1>4
    <2> HIDE DEF scores
    <2> QED
      BY <2>1 DEF Sp!Max
  <1>6. first \in SUBSET Nat /\ first # {}
    <2>1. first # {}
      BY <1>5
    <2>2. \A k \in first : k \in J
      OBVIOUS
    <2> HIDE DEF first
    <2>3. \A k \in J : k \in Nat
      BY <1>0, <1>2
    <2> QED
      BY <2>1, <2>2, <2>3
  <1>7. best = Sp!Min(first)
    BY DEF Sp!BestPair, J
  <1>8. best \in first
    <2> HIDE DEF first, best
    <2> QED
      BY <1>6, <1>7, SpMin
  <1> QED
    BY <1>1, <1>8

LEMMA SpLoadKeeps ==
  ASSUME SpInv, type = "sp", Sp!LoadPiece
  PROVE  pc' \in {"new", "call"} /\ sp_text' \in SpText /\ sp_i' = 0 /\ ids' = <<>>
  BY DEF SpInv, Sp!LoadPiece

LEMMA SpCallKeeps ==
  ASSUME MapInv, SpInv, type = "sp", Sp!SpCall
  PROVE  pc' = "char" /\ sp_text' \in SpText /\ sp_i' = 0
         /\ Encodes(ids', SubSeq(sp_text', 1, sp_i'), SpaceInFront')
  <1> DEFINE v == Sp!Lookup(<<Sp!Blank>>)
  <1>1. PICK n \in 0 .. MaxSpText : sp_text' \in [1 .. n -> Sp!SpByte]
    BY DEF Sp!SpCall
  <1>2. pc = "call" /\ pc' = "char" /\ sp_i' = sp_i /\ sp_map' = sp_map /\ sp_i = 0
    BY DEF SpInv, Sp!SpCall
  <1>3. sp_text' \in SpText
    <2>1. \A m \in Nat : \A z \in [1 .. m -> Sp!SpByte] : z \in Seq(Sp!SpByte)
      OBVIOUS
    <2>2. n \in Nat
      BY PiecesAssumption
    <2> QED
      BY <1>1, <2>1, <2>2 DEF SpText
  <1> DEFINE space == sp_text' # <<>> /\ v # -1
  <1>4. PICK add \in BOOLEAN :
          ids' = (IF add THEN <<Sp!BosId>> ELSE <<>>) \o (IF space THEN <<v>> ELSE <<>>)
    BY DEF Sp!SpCall
  <1>5. SpaceInFront' = IF space THEN <<Sp!Blank>> ELSE <<>>
    BY <1>2 DEF SpaceInFront, Sp!Lookup
  <1>6. space => v \in Sp!Ids /\ Spells(<<v>>) = <<Sp!Blank>> /\ ~Sp!Control(v)
                  /\ Head(Sp!Str(v)) = Sp!Blank
    BY <1>2, BlankIs
  <1>7. space \in BOOLEAN
    OBVIOUS
  <1> HIDE DEF v, space
  <1>8. Encodes(ids', <<>>, SpaceInFront')
    BY <1>4, <1>5, <1>6, <1>7, EncodesNothing
  <1>9. SubSeq(sp_text', 1, 0) = <<>>
    BY SubSeqEmpty
  <1> QED
    BY <1>2, <1>3, <1>8, <1>9

\* Where a text has been read to.
LEMMA ReadFurther ==
  ASSUME NEW t \in SpText, NEW j \in 0 .. Len(t), NEW n \in 0 .. Len(t) - j
  PROVE  /\ SubSeq(t, 1, j) \in SpText /\ SubSeq(t, j + 1, j + n) \in SpText
         /\ Len(SubSeq(t, 1, j)) = j /\ Len(SubSeq(t, j + 1, j + n)) = n
         /\ SubSeq(t, 1, j) \o SubSeq(t, j + 1, j + n) = SubSeq(t, 1, j + n)
  <1>0. Len(t) \in Nat /\ \A k \in 1 .. Len(t) : t[k] \in Sp!SpByte
    BY DEF SpText
  <1>1. SubSeq(t, 1, j) \in SpText /\ Len(SubSeq(t, 1, j)) = j
    <2>1. \A k \in 1 .. j : t[k] \in Sp!SpByte
      BY <1>0
    <2>2. 1 \in Int /\ j \in Int
      BY <1>0
    <2>3. /\ SubSeq(t, 1, j) \in Seq(Sp!SpByte)
          /\ Len(SubSeq(t, 1, j)) = IF 1 <= j THEN j - 1 + 1 ELSE 0
      BY <2>1, <2>2, SubSeqProperties
    <2> QED
      BY <1>0, <2>3 DEF SpText
  <1>2. SubSeq(t, j + 1, j + n) \in SpText /\ Len(SubSeq(t, j + 1, j + n)) = n
    <2>1. \A k \in j + 1 .. j + n : t[k] \in Sp!SpByte
      BY <1>0
    <2>2. j + 1 \in Int /\ j + n \in Int
      BY <1>0
    <2>3. /\ SubSeq(t, j + 1, j + n) \in Seq(Sp!SpByte)
          /\ Len(SubSeq(t, j + 1, j + n)) = IF j + 1 <= j + n THEN (j + n) - (j + 1) + 1 ELSE 0
      BY <2>1, <2>2, SubSeqProperties
    <2> QED
      BY <1>0, <2>3 DEF SpText
  <1>3. SubSeq(t, 1, j) \o SubSeq(t, j + 1, j + n) = SubSeq(t, 1, j + n)
    <2>1. t \in Seq(Sp!SpByte) /\ 1 \in 1 .. Len(t) + 1 /\ j \in 1 - 1 .. Len(t) /\ j + n \in j .. Len(t)
      BY <1>0 DEF SpText
    <2> QED
      BY <2>1, ConcatAdjacentSubSeq
  <1> QED
    BY <1>1, <1>2, <1>3

LEMMA TakeKeeps ==
  ASSUME MapInv, SpInv, type = "sp", Sp!TakeCharacter
  PROVE  sp_i' \in 0 .. Len(sp_text)
         /\ Encodes(ids', SubSeq(sp_text, 1, sp_i'), SpaceInFront)
  <1> DEFINE n == Len(Sp!Character)
             c == Sp!Character
             t == SubSeq(sp_text, 1, sp_i)
             f == SpaceInFront
  <1>1. /\ pc = "char" /\ sp_i < Len(sp_text) /\ sp_i' = sp_i + n
        /\ ids' = ids \o Taken
    BY DEF Sp!TakeCharacter, Taken
  <1>2. /\ sp_text \in SpText /\ sp_i \in 0 .. Len(sp_text) /\ Len(sp_text) \in Nat
        /\ Encodes(ids, t, f)
    BY <1>1 DEF SpInv, SpText
  <1>3. sp_i \in Nat
    BY <1>2
  <1>4. /\ n \in 1 .. 4 /\ sp_i + n <= Len(sp_text)
        /\ c = SubSeq(sp_text, sp_i + 1, sp_i + n)
        /\ Taken \in Seq(Sp!Ids) /\ Len(Taken) <= n /\ Spells(Taken) = c
        /\ \A k \in 1 .. Len(Taken) :
              /\ ~Sp!Control(Taken[k])
              /\ Sp!Lookup(<<Sp!Blank>>) = -1 => Head(Sp!Str(Taken[k])) # Sp!Blank
    BY <1>1, <1>2, <1>3, TakenSpells
  <1>5. sp_text # <<>>
    BY <1>1, <1>3
  <1>6. f = <<>> => Sp!Lookup(<<Sp!Blank>>) = -1
    BY <1>5 DEF SpaceInFront
  <1>7. f \in SpText
    <2>1. Sp!Blank \in Sp!SpByte
      BY PiecesAssumption
    <2>2. <<Sp!Blank>> \in Seq(Sp!SpByte) /\ <<>> \in Seq(Sp!SpByte)
      BY <2>1
    <2> QED
      BY <2>2 DEF SpaceInFront, SpText
  <1>8. n \in 0 .. Len(sp_text) - sp_i
    BY <1>2, <1>3, <1>4
  <1> HIDE DEF n
  <1> HIDE DEF c
  <1>9. /\ t \in SpText /\ c \in SpText /\ t \o c = SubSeq(sp_text, 1, sp_i + n)
    <2>1. /\ SubSeq(sp_text, 1, sp_i) \in SpText
          /\ SubSeq(sp_text, sp_i + 1, sp_i + n) \in SpText
          /\ SubSeq(sp_text, 1, sp_i) \o SubSeq(sp_text, sp_i + 1, sp_i + n)
               = SubSeq(sp_text, 1, sp_i + n)
      BY <1>2, <1>8, ReadFurther
    <2> QED
      BY <1>4, <2>1
  <1>10. Len(Taken) <= Len(c)
    BY <1>4 DEF n, c
  <1> HIDE DEF t, f
  <1>11. \A k \in 1 .. Len(Taken) : /\ ~Sp!Control(Taken[k])
                                    /\ f = <<>> => Head(Sp!Str(Taken[k])) # Sp!Blank
    BY <1>4, <1>6
  <1>12. Encodes(ids \o Taken, t \o c, f)
    BY <1>2, <1>4, <1>7, <1>9, <1>10, <1>11, EncodesMore
  <1>13. sp_i + n \in 0 .. Len(sp_text)
    BY <1>2, <1>3, <1>4
  <1> QED
    BY <1>1, <1>9, <1>12, <1>13 DEF f

LEMMA JoinKeeps ==
  ASSUME MapInv, SpInv, type = "sp", Sp!Join
  PROVE  Encodes(ids', SubSeq(sp_text, 1, sp_i), SpaceInFront)
  <1> DEFINE t == SubSeq(sp_text, 1, sp_i)
             f == SpaceInFront
             k == Sp!BestPair
             v == Sp!Pair(k)
  <1>1. /\ pc = "join" /\ Sp!Joinable # {}
        /\ ids' = SubSeq(ids, 1, k - 1) \o <<v>> \o SubSeq(ids, k + 2, Len(ids))
    BY DEF Sp!Join
  <1>2. sp_text \in SpText /\ sp_i \in 0 .. Len(sp_text) /\ Encodes(ids, t, f)
    BY <1>1 DEF SpInv
  <1>3. ids \in Seq(Sp!Ids)
    BY <1>2 DEF Encodes
  <1>4. /\ k \in 1 .. Len(ids) - 1 /\ v \in Sp!Ids
        /\ Sp!Str(v) = Sp!Str(ids[k]) \o Sp!Str(ids[k + 1])
    BY <1>1, <1>3, BestPairIs
  <1>5. f \in SpText
    <2>1. Sp!Blank \in Sp!SpByte
      BY PiecesAssumption
    <2>2. <<Sp!Blank>> \in Seq(Sp!SpByte) /\ <<>> \in Seq(Sp!SpByte)
      BY <2>1
    <2> QED
      BY <2>2 DEF SpaceInFront, SpText
  <1>6. t \in SpText
    <2>1. 0 \in 0 .. Len(sp_text) - sp_i
      BY <1>2 DEF SpText
    <2> QED
      BY <1>2, <2>1, ReadFurther
  <1> HIDE DEF k, v, t, f
  <1>7. Encodes(SubSeq(ids, 1, k - 1) \o <<v>> \o SubSeq(ids, k + 2, Len(ids)), t, f)
    BY <1>2, <1>4, <1>5, <1>6, EncodesJoined
  <1> QED
    BY <1>1, <1>7 DEF t, f

LEMMA SpInvariant == TSpec => []SpInv
  <1>1. TInit => SpInv
    <2>1. <<>> \in SpText /\ Len(<<>>) = 0
      BY DEF SpText
    <2> QED
      BY <2>1 DEF TInit, SpInv
  <1>2. MapInv /\ SpInv /\ [TNext]_<<type, pc, b, bpe, sp>> => SpInv'
    <2> SUFFICES ASSUME MapInv, SpInv, [TNext]_<<type, pc, b, bpe, sp>>, type' = "sp"
                 PROVE  SpInv'
      BY DEF SpInv
    <2>1. type = "sp"
      BY DEF TNext
    <2>2. ASSUME sp_map' = sp_map, sp_text' = sp_text
          PROVE  SpaceInFront' = SpaceInFront
      BY <2>2 DEF SpaceInFront, Sp!Lookup
    <2>3. CASE UNCHANGED sp /\ pc' = pc
      <3>1. sp_map' = sp_map /\ sp_text' = sp_text /\ sp_i' = sp_i /\ ids' = ids /\ pc' = pc
        BY <2>3 DEF sp
      <3> QED
        BY <2>1, <2>2, <3>1 DEF SpInv
    <2>4. CASE Sp!LoadPiece
      <3>1. pc' \in {"new", "call"} /\ sp_text' \in SpText /\ sp_i' = 0 /\ ids' = <<>>
        BY <2>1, <2>4, SpLoadKeeps
      <3>2. 0 \in 0 .. Len(sp_text')
        BY <3>1 DEF SpText
      <3> QED
        BY <3>1, <3>2 DEF SpInv
    <2>5. CASE Sp!SpCall
      <3>1. /\ pc' = "char" /\ sp_text' \in SpText /\ sp_i' = 0
            /\ Encodes(ids', SubSeq(sp_text', 1, sp_i'), SpaceInFront')
        BY <2>1, <2>5, SpCallKeeps
      <3>2. 0 \in 0 .. Len(sp_text')
        BY <3>1 DEF SpText
      <3> QED
        BY <3>1, <3>2 DEF SpInv
    <2>6. CASE Sp!TakeCharacter
      <3>1. sp_i' \in 0 .. Len(sp_text) /\ Encodes(ids', SubSeq(sp_text, 1, sp_i'), SpaceInFront)
        BY <2>1, <2>6, TakeKeeps
      <3>2. sp_map' = sp_map /\ sp_text' = sp_text /\ pc' = pc /\ pc = "char"
        BY <2>6 DEF Sp!TakeCharacter
      <3> QED
        BY <2>1, <2>2, <3>1, <3>2 DEF SpInv
    <2>7. CASE Sp!AllTaken \/ Sp!SpReturn
      <3>1. /\ sp_map' = sp_map /\ sp_text' = sp_text /\ sp_i' = sp_i /\ ids' = ids
            /\ pc' \in {"join", "done"} /\ pc \in {"char", "join"}
        BY <2>7 DEF Sp!AllTaken, Sp!SpReturn
      <3> QED
        BY <2>1, <2>2, <3>1 DEF SpInv
    <2>8. CASE Sp!Join
      <3>1. Encodes(ids', SubSeq(sp_text, 1, sp_i), SpaceInFront)
        BY <2>1, <2>8, JoinKeeps
      <3>2. /\ sp_map' = sp_map /\ sp_text' = sp_text /\ sp_i' = sp_i
            /\ pc' = pc /\ pc = "join"
        BY <2>8 DEF Sp!Join
      <3> QED
        BY <2>1, <2>2, <3>1, <3>2 DEF SpInv
    <2>9. (UNCHANGED sp /\ pc' = pc) \/ Sp!SpNext
      BY <2>1 DEF TNext, Ended, vars
    <2> QED
      BY <2>3, <2>4, <2>5, <2>6, <2>7, <2>8, <2>9 DEF Sp!SpNext
  <1> QED
    BY <1>1, <1>2, MapInvariant, PTL DEF TSpec

LEMMA SpTextComesBack == SpInv /\ type = "sp" => Sp!TextComesBack
  <1> SUFFICES ASSUME SpInv, type = "sp", pc \in {"char", "join", "done"}
               PROVE  LET front == IF sp_text # <<>> /\ ids # <<>> /\ ids[1] # Sp!BosId
                                      /\ Sp!Lookup(<<Sp!Blank>>) # -1
                                   THEN <<Sp!Blank>> ELSE <<>>
                      IN  /\ Sp!Decoded = front \o SubSeq(sp_text, 1, sp_i)
                          /\ Len(ids) <= Len(sp_text) + 3
    BY DEF Sp!TextComesBack
  <1> DEFINE t == SubSeq(sp_text, 1, sp_i)
             f == SpaceInFront
             D == [k \in 1 .. Len(ids) |-> Printed(ids, k)]
  <1>1. sp_text \in SpText /\ sp_i \in 0 .. Len(sp_text) /\ Encodes(ids, t, f) /\ Len(sp_text) \in Nat
    BY DEF SpInv, SpText
  <1>2. t \in SpText /\ Len(t) = sp_i
    <2>1. 0 \in 0 .. Len(sp_text) - sp_i
      BY <1>1
    <2> QED
      BY <1>1, <2>1, ReadFurther
  <1>3. f \in {<<>>, <<Sp!Blank>>}
    BY DEF SpaceInFront
  <1>4. ids \in Seq(Sp!Ids) /\ Len(ids) \in Nat /\ Len(ids) <= Len(t) + 2
    BY <1>1 DEF Encodes
  <1>5. Sp!Decoded = FlattenSeq(D)
    <2>1. DOMAIN ids = 1 .. Len(ids)
      BY <1>4
    <2>2. Sp!Decoded = Sp!FlattenSeq(D)
      BY <2>1 DEF Sp!Decoded, Printed
    <2> HIDE DEF D
    <2> QED
      BY <2>2, SpLibrary
  <1> HIDE DEF t, f
  <1>6. FlattenSeq(D) = (IF ids # <<>> /\ ids[1] # Sp!BosId THEN f ELSE <<>>) \o t
    BY <1>1, <1>2, <1>3, EncodesPrints
  <1>7. (IF ids # <<>> /\ ids[1] # Sp!BosId THEN f ELSE <<>>)
           = IF sp_text # <<>> /\ ids # <<>> /\ ids[1] # Sp!BosId /\ Sp!Lookup(<<Sp!Blank>>) # -1
             THEN <<Sp!Blank>> ELSE <<>>
    BY DEF f, SpaceInFront
  <1>8. Len(ids) <= Len(sp_text) + 3
    BY <1>1, <1>2, <1>4
  <1> QED
    BY <1>5, <1>6, <1>7, <1>8 DEF t

-----------------------------------------------------------------------------
(* Bytes as code points. *)

\* How many bytes before this one are not printable.
Unprintable(k) == Cardinality(0 .. k - 1 \ Printable)

LEMMA UnprintableIs ==
  /\ \A k \in Nat : Unprintable(k) \in 0 .. k
  /\ \A j, k \in Nat : j < k /\ j \notin Printable => Unprintable(j) < Unprintable(k)
  <1> DEFINE before(k) == 0 .. k - 1 \ Printable
  <1>1. ASSUME NEW k \in Nat
        PROVE  IsFiniteSet(before(k)) /\ Unprintable(k) \in 0 .. k
    <2>1. IsFiniteSet(0 .. k - 1) /\ Cardinality(0 .. k - 1) = k
      BY CountIs
    <2>2. before(k) \in SUBSET (0 .. k - 1)
      OBVIOUS
    <2> HIDE DEF before
    <2>3. IsFiniteSet(before(k)) /\ Cardinality(before(k)) <= k
      BY <2>1, <2>2, FS_Subset
    <2>4. Cardinality(before(k)) \in Nat
      BY <2>3, FS_CardinalityType
    <2> QED
      BY <2>3, <2>4 DEF Unprintable, before
  <1>2. ASSUME NEW j \in Nat, NEW k \in Nat, j < k, j \notin Printable
        PROVE  Unprintable(j) < Unprintable(k)
    <2>1. before(j) \in SUBSET before(k) /\ j \in before(k) /\ j \notin before(j)
      BY <1>2
    <2>2. Unprintable(j) = Cardinality(before(j)) /\ Unprintable(k) = Cardinality(before(k))
      BY DEF Unprintable
    <2>3. IsFiniteSet(before(k)) /\ Unprintable(j) \in Nat /\ Unprintable(k) \in Nat
      <3>1. IsFiniteSet(before(k)) /\ Unprintable(j) \in 0 .. j /\ Unprintable(k) \in 0 .. k
        BY ONLY <1>1, j \in Nat, k \in Nat
      <3> HIDE DEF before
      <3> QED
        BY <3>1
    <2> HIDE DEF before
    <2>4. before(j) # before(k)
      BY <2>1
    <2>5. /\ Cardinality(before(j)) <= Cardinality(before(k))
          /\ Cardinality(before(j)) = Cardinality(before(k)) => before(k) = before(j)
      BY <2>1, <2>3, FS_Subset
    <2> QED
      BY <2>2, <2>3, <2>4, <2>5
  <1> QED
    BY <1>1, <1>2

\* The code points of the two kinds of bytes.
LEMMA TwoRanges == \A j, u \in 0 .. 255 : j # 256 + u
  <1> SUFFICES ASSUME NEW j \in 0 .. 255, NEW u \in 0 .. 255 PROVE j # 256 + u
    OBVIOUS
  <1>1. j <= 255 /\ 256 + u >= 256 /\ j \in Int /\ 256 + u \in Int
    OBVIOUS
  <1>2. j < 256 + u
    BY <1>1
  <1> QED
    BY <1>2

CodeOf == [j \in 0 .. 255 |-> CodePoint(j)]

\* No two bytes share a code point, and none is outside of the table.
LEMMA CodePointIs ==
  /\ \A j \in 0 .. 255 : CodeOf[j] \in 0 .. 511
  /\ \A j, k \in 0 .. 255 : CodeOf[j] = CodeOf[k] => j = k
  <1> DEFINE U == [j \in 0 .. 255 |-> Unprintable(j)]
             C == CodeOf
  <1>1. \A j \in 0 .. 255 : \/ j \in Printable /\ C[j] = j
                            \/ j \notin Printable /\ C[j] = 256 + U[j]
    BY DEF CodeOf, CodePoint, Unprintable
  <1>2. \A j \in 0 .. 255 : U[j] \in 0 .. 255
    <2> SUFFICES ASSUME NEW j \in 0 .. 255 PROVE U[j] \in 0 .. 255
      OBVIOUS
    <2>1. j \in Nat
      OBVIOUS
    <2>2. U[j] \in 0 .. j
      BY <2>1, UnprintableIs
    <2> HIDE DEF U
    <2> QED
      BY <2>2
  <1>3. \A j, k \in 0 .. 255 : j < k /\ j \notin Printable => U[j] < U[k]
    <2> SUFFICES ASSUME NEW j \in 0 .. 255, NEW k \in 0 .. 255, j < k, j \notin Printable
                 PROVE  U[j] < U[k]
      OBVIOUS
    <2>1. j \in Nat /\ k \in Nat
      OBVIOUS
    <2>2. Unprintable(j) < Unprintable(k)
      BY <2>1, UnprintableIs
    <2>3. U[j] = Unprintable(j) /\ U[k] = Unprintable(k)
      OBVIOUS
    <2> QED
      BY <2>2, <2>3
  <1> HIDE DEF U, C
  <1>4. ASSUME NEW j \in 0 .. 255, NEW k \in 0 .. 255, C[j] = C[k], j < k
        PROVE  FALSE
    <2>1. PICK u \in 0 .. 255 : u = U[j]
      BY <1>2
    <2>2. PICK v \in 0 .. 255 : v = U[k]
      BY <1>2
    <2>3. CASE C[j] = j /\ C[k] = k
      <3>1. j = k
        BY <1>4, <2>3
      <3> QED
        BY <1>4, <3>1
    <2>4. CASE C[j] = j /\ C[k] = 256 + v
      <3>1. j = 256 + v
        BY <1>4, <2>4
      <3> QED
        BY <3>1, TwoRanges
    <2>5. CASE C[j] = 256 + u /\ C[k] = k
      <3>1. k = 256 + u
        BY <1>4, <2>5
      <3> QED
        BY <3>1, TwoRanges
    <2>6. CASE j \notin Printable /\ C[j] = 256 + u /\ C[k] = 256 + v
      <3>1. 256 + u = 256 + v
        BY <1>4, <2>6
      <3>2. u < v
        BY <1>3, <1>4, <2>1, <2>2, <2>6
      <3> QED
        BY <3>1, <3>2
    <2> QED
      BY <1>1, <2>1, <2>2, <2>3, <2>4, <2>5, <2>6
  <1>5. ASSUME NEW j \in 0 .. 255 PROVE C[j] \in 0 .. 511
    <2>1. U[j] \in 0 .. 255
      BY <1>2
    <2>2. CASE C[j] = j
      BY <2>2
    <2>3. CASE C[j] = 256 + U[j]
      BY <2>1, <2>3
    <2> QED
      BY <1>1, <2>2, <2>3
  <1>6. ASSUME NEW j \in 0 .. 255, NEW k \in 0 .. 255, C[j] = C[k]
        PROVE  j = k
    <2>1. j < k \/ k < j \/ j = k
      OBVIOUS
    <2> QED
      BY <1>4, <1>6, <2>1
  <1> QED
    BY <1>5, <1>6 DEF C

LEMMA Utf8Is ==
  ASSUME NEW cp \in 0 .. 511
  PROVE  LET s == Utf8Encode(cp) IN Utf8Decode(s)[1] = cp /\ Utf8Decode(s)[2] = Len(s)
  <1>1. CASE cp < 128
    <2>1. Utf8Encode(cp) = <<cp>>
      BY <1>1 DEF Utf8Encode
    <2> QED
      BY <1>1, <2>1 DEF Utf8Decode
  <1>2. CASE ~(cp < 128)
    <2> DEFINE q == cp \div 64
               r == cp % 64
    <2>1. q \in 2 .. 7 /\ r \in 0 .. 63 /\ q * 64 + r = cp
      BY <1>2
    <2>2. Utf8Encode(cp) = <<192 + q, 128 + r>>
      BY <1>2 DEF Utf8Encode
    <2> HIDE DEF q, r
    <2>3. (192 + q) % 32 = q /\ (128 + r) % 64 = r /\ ~(192 + q < 128)
      BY <2>1
    <2>4. Utf8Decode(<<192 + q, 128 + r>>) = <<((192 + q) % 32) * 64 + ((128 + r) % 64), 2>>
      BY <2>1, <2>3 DEF Utf8Decode
    <2> QED
      BY <2>1, <2>2, <2>3, <2>4
  <1> QED
    BY <1>1, <1>2

ByteInv == type = "bpe" /\ pc = "new" => b \in 0 .. 256

LEMMA ByteInvariant == TSpec => []ByteInv
  <1>1. TInit => ByteInv
    BY DEF TInit, ByteInv
  <1>2. ByteInv /\ [TNext]_<<type, pc, b, bpe, sp>> => ByteInv'
    <2> SUFFICES ASSUME ByteInv, [TNext]_<<type, pc, b, bpe, sp>>, type' = "bpe", pc' = "new"
                 PROVE  b' \in 0 .. 256
      BY DEF ByteInv
    <2>1. type = "bpe"
      BY DEF TNext
    <2>2. CASE BuildByte
      BY <2>1, <2>2 DEF BuildByte, ByteInv
    <2>3. CASE Built
      BY <2>3 DEF Built
    <2>4. CASE UNCHANGED b /\ (Next \/ Ended \/ pc' = pc)
      <3>1. pc = "new"
        BY <2>4 DEF Next, Ended, vars, Call, TakeSpecial, TakePiece, Merge, Emit, Return
      <3> QED
        BY <2>1, <2>4, <3>1 DEF ByteInv
    <2> QED
      BY <2>1, <2>2, <2>3, <2>4 DEF TNext
  <1> QED
    BY <1>1, <1>2, PTL DEF TSpec

LEMMA BytesAreBack == ByteInv => BytesComeBack
  <1> SUFFICES ASSUME ByteInv, type = "bpe", pc = "new", NEW byte \in 0 .. b - 1
               PROVE  LET s == Utf8Encode(CodePoint(byte))
                      IN  Utf8Decode(s)[2] = Len(s) /\ ByteOf(Utf8Decode(s)[1]) = byte
    BY DEF BytesComeBack
  <1> DEFINE cp == CodePoint(byte)
             same == {-1} \cup {j \in 0 .. b - 1 : cp < 512 /\ CodePoint(j) = cp}
  <1>1. b \in 0 .. 256 /\ byte \in 0 .. 255 /\ \A j \in 0 .. b - 1 : j \in 0 .. 255
    BY DEF ByteInv
  <1>2. \A j \in 0 .. b - 1 : CodePoint(j) = CodeOf[j]
    BY <1>1 DEF CodeOf
  <1>3. cp = CodeOf[byte]
    BY <1>2
  <1> HIDE DEF cp
  <1>4. cp \in 0 .. 511
    <2>1. PICK k \in 0 .. 255 : k = byte
      BY <1>1
    <2>2. CodeOf[k] \in 0 .. 511
      BY CodePointIs
    <2> QED
      BY <1>3, <2>1, <2>2
  <1>5. Utf8Decode(Utf8Encode(cp))[1] = cp /\ Utf8Decode(Utf8Encode(cp))[2] = Len(Utf8Encode(cp))
    BY <1>4, Utf8Is
  <1>6. same = {-1, byte}
    <2>1. ASSUME NEW j \in 0 .. b - 1, CodePoint(j) = cp PROVE j = byte
      <3>1. CodeOf[j] = CodeOf[byte]
        BY <1>2, <1>3, <2>1
      <3> QED
        BY <1>1, <3>1, CodePointIs
    <2>2. CodePoint(byte) = cp /\ cp < 512
      BY <1>4 DEF cp
    <2> QED
      BY <2>1, <2>2
  <1>7. ByteOf(cp) = Max(same)
    BY DEF ByteOf
  <1>8. Max({-1, byte}) = byte
    BY <1>1 DEF Max
  <1> QED
    BY <1>5, <1>6, <1>7, <1>8 DEF cp

\* Encoding is undone by decoding, for every vocabulary and every text: no two
\* bytes share a code point of byte-level encoding; and whatever build_sp has in
\* its map and sp_encode has joined so far, what sp_decode prints token by token
\* is the text up to where it was read, behind the space sp_encode put there
\* unless a first token asks to drop it, in no more than slen + 3 tokens
\* (src/tokenizer.c).
THEOREM TextIsDecoded == TSpec => []TextComesBack
  <1>1. ByteInv /\ SpInv => TextComesBack
    BY BytesAreBack, SpTextComesBack DEF TextComesBack
  <1> QED
    BY <1>1, ByteInvariant, SpInvariant, PTL

-----------------------------------------------------------------------------
(* The scanner takes the piece the regular expression would take. *)

LEMMA GreatestIs ==
  ASSUME NEW S \in SUBSET Nat, NEW m \in S, \A y \in S : y <= m
  PROVE  Max(S) = m
  <1>1. \E x \in S : \A y \in S : x >= y
    <2>1. \A y \in S : m >= y
      OBVIOUS
    <2> QED
      BY <2>1
  <1>2. Max(S) \in S /\ \A y \in S : Max(S) >= y
    BY <1>1 DEF Max
  <1>3. Max(S) \in Nat /\ m \in Nat /\ Max(S) >= m /\ Max(S) <= m
    BY <1>2
  <1> QED
    BY <1>3

LEMMA FirstIs ==
  ASSUME NEW S \in SUBSET Nat, NEW m \in S, \A y \in S : m <= y
  PROVE  Min(S) = m
  <1>1. Min(S) \in S /\ Min(S) <= m
    BY MinIs
  <1>2. Min(S) \in Nat /\ m \in Nat /\ m <= Min(S)
    BY <1>1
  <1> QED
    BY <1>1, <1>2

\* A run is as long as it can be.
LEMMA RunSpans ==
  ASSUME NEW A, NEW s \in Seq(A), NEW j \in 1 .. Len(s) + 1, NEW S
  PROVE  /\ Run(s, j, S) \in 0 .. Len(s) - j + 1
         /\ \A p \in j .. j + Run(s, j, S) - 1 : s[p] \in S
         /\ j + Run(s, j, S) <= Len(s) => s[j + Run(s, j, S)] \notin S
  <1> DEFINE others == {p \in j .. Len(s) : s[p] \notin S}
  <1>0. Len(s) \in Nat /\ j \in Nat
    OBVIOUS
  <1>1. CASE others = {}
    <2>1. Run(s, j, S) = Len(s) - j + 1
      BY <1>1 DEF Run
    <2>2. \A p \in j .. Len(s) : s[p] \in S
      BY <1>1
    <2>3. j + (Len(s) - j + 1) - 1 = Len(s) /\ ~(j + (Len(s) - j + 1) <= Len(s))
      BY <1>0
    <2> QED
      BY <2>1, <2>2, <2>3, RunIs
  <1>2. CASE others # {}
    <2>1. others \in SUBSET Nat
      BY <1>0
    <2>2. Min(others) \in others /\ \A p \in others : Min(others) <= p
      <3> HIDE DEF others
      <3> QED
        BY <1>2, <2>1, MinIs
    <2>3. Run(s, j, S) = Min(others) - j
      BY <1>2 DEF Run
    <2>4. Min(others) \in j .. Len(s) /\ s[Min(others)] \notin S
      BY <2>2
    <2>5. j + (Min(others) - j) = Min(others) /\ j + (Min(others) - j) - 1 = Min(others) - 1
      BY <1>0, <2>4
    <2>6. ASSUME NEW p \in j .. Min(others) - 1 PROVE s[p] \in S
      <3>1. p \in j .. Len(s) /\ ~(Min(others) <= p)
        BY <1>0, <2>4
      <3>2. p \notin others
        <4> HIDE DEF others
        <4> QED
          BY <2>2, <3>1
      <3> QED
        BY <3>1, <3>2
    <2> HIDE DEF others
    <2> QED
      BY <2>3, <2>4, <2>5, <2>6, RunIs
  <1> QED
    BY <1>1, <1>2

LEMMA PrefixIs ==
  ASSUME NEW s \in Seq(Byte), NEW n \in 1 .. Len(s)
  PROVE  /\ SubSeq(s, 1, n) \in Seq(Byte) /\ Len(SubSeq(s, 1, n)) = n
         /\ \A k \in 1 .. n : SubSeq(s, 1, n)[k] = s[k]
  <1>0. Len(s) \in Nat /\ \A k \in 1 .. Len(s) : s[k] \in Byte
    OBVIOUS
  <1>1. \A k \in 1 .. n : s[k] \in Byte
    BY <1>0
  <1>2. /\ SubSeq(s, 1, n) \in Seq(Byte)
        /\ Len(SubSeq(s, 1, n)) = IF 1 <= n THEN n - 1 + 1 ELSE 0
        /\ \A k \in 1 .. n - 1 + 1 : SubSeq(s, 1, n)[k] = s[1 + k - 1]
    BY <1>0, <1>1, SubSeqProperties
  <1>3. n - 1 + 1 = n /\ 1 <= n /\ \A k \in 1 .. n : 1 + k - 1 = k
    BY <1>0
  <1> QED
    BY <1>2, <1>3

\* A stretch of a prefix is of a class when every byte of it is.
LEMMA AllOf ==
  ASSUME NEW s \in Seq(Byte), NEW n \in 1 .. Len(s), NEW a \in 1 .. n + 1, NEW e \in a - 1 .. n, NEW S
  PROVE  All(SubSeq(SubSeq(s, 1, n), a, e), S) <=> \A p \in a .. e : s[p] \in S
  <1> DEFINE w == SubSeq(s, 1, n)
             v == SubSeq(w, a, e)
  <1>0. Len(s) \in Nat /\ n \in Nat /\ a \in Nat /\ e \in Nat
    OBVIOUS
  <1>1. w \in Seq(Byte) /\ Len(w) = n /\ \A k \in 1 .. n : w[k] = s[k]
    BY PrefixIs
  <1> HIDE DEF w
  <1>2. \A k \in a .. e : w[k] \in Byte /\ w[k] = s[k]
    BY <1>0, <1>1
  <1>3. /\ v \in Seq(Byte) /\ Len(v) = IF a <= e THEN e - a + 1 ELSE 0
        /\ \A k \in 1 .. e - a + 1 : v[k] = w[a + k - 1]
    BY <1>0, <1>2, SubSeqProperties
  <1>4. Len(v) = e - a + 1 /\ DOMAIN v = 1 .. e - a + 1
    <2>1. Len(v) = e - a + 1
      <3> HIDE DEF v
      <3> QED
        BY <1>0, <1>3
    <2> HIDE DEF v
    <2> QED
      BY <1>3, <2>1
  <1> HIDE DEF v
  <1>5. ASSUME NEW k \in 1 .. e - a + 1 PROVE v[k] = s[a + k - 1] /\ a + k - 1 \in a .. e
    <2>1. a + k - 1 \in a .. e
      BY <1>0
    <2> QED
      BY <1>2, <1>3, <2>1
  <1>6. ASSUME NEW p \in a .. e PROVE p - a + 1 \in 1 .. e - a + 1 /\ a + (p - a + 1) - 1 = p
    BY <1>0
  <1>7. ASSUME All(v, S), NEW p \in a .. e PROVE s[p] \in S
    <2>1. v[p - a + 1] \in S /\ v[p - a + 1] = s[a + (p - a + 1) - 1]
      BY <1>4, <1>5, <1>6, <1>7 DEF All
    <2> QED
      BY <1>6, <2>1
  <1>8. ASSUME \A p \in a .. e : s[p] \in S PROVE All(v, S)
    <2>1. \A k \in 1 .. e - a + 1 : v[k] \in S
      BY <1>5, <1>8
    <2> QED
      BY <1>4, <2>1 DEF All
  <1>9. All(v, S) <=> \A p \in a .. e : s[p] \in S
    BY <1>7, <1>8
  <1> QED
    BY <1>9 DEF v, w

\* A stretch from j on is of class S exactly when it stays within the run.
LEMMA WithinRun ==
  ASSUME NEW s \in Seq(Byte), NEW j \in 1 .. Len(s) + 1, NEW e \in j - 1 .. Len(s), NEW S
  PROVE  (\A p \in j .. e : s[p] \in S) <=> e <= j + Run(s, j, S) - 1
  <1> DEFINE r == Run(s, j, S)
  <1>0. Len(s) \in Nat /\ j \in Nat /\ e \in Int
    OBVIOUS
  <1>1. /\ r \in 0 .. Len(s) - j + 1
        /\ \A p \in j .. j + r - 1 : s[p] \in S
        /\ j + r <= Len(s) => s[j + r] \notin S
    BY RunSpans
  <1> HIDE DEF r
  <1>2. ASSUME \A p \in j .. e : s[p] \in S, ~(e <= j + r - 1) PROVE FALSE
    <2>1. j + r \in j .. e /\ j + r <= Len(s)
      BY <1>0, <1>1, <1>2
    <2> QED
      BY <1>1, <1>2, <2>1
  <1>3. ASSUME e <= j + r - 1, NEW p \in j .. e PROVE s[p] \in S
    <2>1. p \in j .. j + r - 1
      BY <1>0, <1>1, <1>3
    <2> QED
      BY <1>1, <2>1
  <1>4. (\A p \in j .. e : s[p] \in S) <=> e <= j + r - 1
    BY <1>2, <1>3
  <1> QED
    BY <1>4 DEF r

LEMMA Alternatives ==
  ASSUME NEW w, NEW rest
  PROVE  /\ Matches(1, w, rest) <=> \E c \in Contractions : w = <<Quote>> \o c
         /\ Matches(2, w, rest) <=>
               \/ All(w, Letters)
               \/ Head(w) \in Blanks \cup Marks /\ Tail(w) # <<>> /\ All(Tail(w), Letters)
         /\ Matches(3, w, rest) <=> Len(w) = 1 /\ All(w, Digits)
         /\ Matches(4, w, rest) <=>
               \E a \in 0 .. 1, e \in 1 .. Len(w) :
                  /\ a < e
                  /\ All(SubSeq(w, 1, a), {Space})
                  /\ All(SubSeq(w, a + 1, e), Marks)
                  /\ All(SubSeq(w, e + 1, Len(w)), Newlines)
         /\ Matches(5, w, rest) <=> All(w, Spaces) /\ Last(w) \in Newlines
         /\ Matches(6, w, rest) <=> All(w, Spaces) /\ (rest = <<>> \/ Head(rest) \in Spaces)
         /\ Matches(7, w, rest) <=> All(w, Spaces)
  <1>1. Matches(1, w, rest) <=> \E c \in Contractions : w = <<Quote>> \o c
    BY DEF Matches
  <1>2. Matches(2, w, rest) <=>
           \/ All(w, Letters)
           \/ Head(w) \in Blanks \cup Marks /\ Tail(w) # <<>> /\ All(Tail(w), Letters)
    BY DEF Matches
  <1>3. Matches(3, w, rest) <=> Len(w) = 1 /\ All(w, Digits)
    BY DEF Matches
  <1>4. Matches(4, w, rest) <=>
           \E a \in 0 .. 1, e \in 1 .. Len(w) :
              /\ a < e
              /\ All(SubSeq(w, 1, a), {Space})
              /\ All(SubSeq(w, a + 1, e), Marks)
              /\ All(SubSeq(w, e + 1, Len(w)), Newlines)
    BY DEF Matches
  <1>5. Matches(5, w, rest) <=> All(w, Spaces) /\ Last(w) \in Newlines
    BY DEF Matches
  <1>6. Matches(6, w, rest) <=> All(w, Spaces) /\ (rest = <<>> \/ Head(rest) \in Spaces)
    BY DEF Matches
  <1>7. Matches(7, w, rest) <=> All(w, Spaces)
    BY DEF Matches
  <1> QED
    BY <1>1, <1>2, <1>3, <1>4, <1>5, <1>6, <1>7

\* What the k-th alternative takes is m bytes, or none if m is 0.
Longest(k, s, m) ==
  IF m > 0 THEN MatchLengths(k, s) # {} /\ Max(MatchLengths(k, s)) = m
           ELSE MatchLengths(k, s) = {}

LEMMA LongestIs ==
  ASSUME NEW s \in Seq(Byte), NEW k, NEW m \in MatchLengths(k, s),
         \A n \in MatchLengths(k, s) : n <= m
  PROVE  Longest(k, s, m)
  <1>1. MatchLengths(k, s) \in SUBSET Nat /\ m \in 1 .. Len(s)
    BY DEF MatchLengths
  <1>2. Max(MatchLengths(k, s)) = m
    <2> DEFINE S == MatchLengths(k, s)
    <2> HIDE DEF S
    <2>1. S \in SUBSET Nat /\ m \in S /\ \A n \in S : n <= m
      BY <1>1 DEF S
    <2>2. Max(S) = m
      BY <2>1, GreatestIs
    <2> QED
      BY <2>2 DEF S
  <1>3. m > 0
    BY <1>1
  <1> QED
    BY <1>2, <1>3 DEF Longest

LEMMA FollowsIs ==
  ASSUME NEW s \in Seq(Byte), s # <<>>, NEW c \in Contractions
  PROVE  IsPrefix(c, Tail(s)) <=>
            Len(c) <= Len(s) - 1 /\ \A k \in 1 .. Len(c) : c[k] = s[k + 1]
  <1> DEFINE t == Tail(s)
  <1>0. c \in Seq(Letters) /\ Len(c) \in Nat /\ Len(c) >= 1 /\ Len(s) \in Nat
    BY ClassesAssumption
  <1>1. t \in Seq(Byte) /\ Len(t) = Len(s) - 1 /\ \A k \in 1 .. Len(t) : t[k] = s[k + 1]
    BY HeadTailProperties
  <1>2. SubSeq(c, 1, Len(c)) = c
    BY <1>0, SubSeqFull
  <1> HIDE DEF t
  <1>3. CASE Len(c) <= Len(s) - 1
    <2> DEFINE u == SubSeq(t, 1, Len(c))
    <2>1. Len(c) \in 1 .. Len(t)
      BY <1>0, <1>1, <1>3
    <2>2. u \in Seq(Byte) /\ Len(u) = Len(c) /\ \A k \in 1 .. Len(c) : u[k] = t[k]
      BY <1>1, <2>1, PrefixIs
    <2>3. \A k \in 1 .. Len(c) : u[k] = s[k + 1]
      BY <1>0, <1>1, <2>1, <2>2
    <2> HIDE DEF u
    <2>4. c = u <=> \A k \in 1 .. Len(c) : c[k] = u[k]
      BY <1>0, <2>2, SeqEqual
    <2>5. IsPrefix(c, t) <=> c = u
      BY <1>1, <1>2, <1>3 DEF IsPrefix, u
    <2> QED
      BY <1>3, <2>3, <2>4, <2>5 DEF t
  <1>4. CASE ~(Len(c) <= Len(s) - 1)
    BY <1>1, <1>4 DEF IsPrefix, t
  <1> QED
    BY <1>3, <1>4

LEMMA QuotedIs ==
  ASSUME NEW s \in Seq(Byte), s # <<>>, NEW n \in 1 .. Len(s), NEW c \in Contractions
  PROVE  SubSeq(s, 1, n) = <<Quote>> \o c <=>
            n = 1 + Len(c) /\ s[1] = Quote /\ IsPrefix(c, Tail(s))
  <1> DEFINE v == <<Quote>> \o c
             w == SubSeq(s, 1, n)
             m == Len(c)
  <1>0. m \in Nat /\ Len(s) \in Nat /\ n \in Nat /\ 1 <= n /\ n <= Len(s)
    BY ClassesAssumption
  <1>1. v \in Seq(Byte) /\ Len(v) = 1 + m /\ v[1] = Quote /\ \A k \in 1 .. m : v[k + 1] = c[k]
    <2>1. c \in Seq(Byte) /\ <<Quote>> \in Seq(Byte) /\ Len(<<Quote>>) = 1 /\ <<Quote>>[1] = Quote
      <3>1. c \in Seq(Letters) /\ Quote \in Byte /\ Letters \subseteq Byte
        BY ClassesAssumption DEF Byte, Spaces
      <3> QED
        BY <3>1
    <2>2. /\ v \in Seq(Byte) /\ Len(v) = Len(<<Quote>>) + m
          /\ \A k \in 1 .. Len(<<Quote>>) + m :
                v[k] = IF k <= Len(<<Quote>>) THEN <<Quote>>[k] ELSE c[k - Len(<<Quote>>)]
      BY <2>1, ConcatProperties
    <2>3. \A k \in 1 .. 1 + m : v[k] = IF k <= 1 THEN Quote ELSE c[k - 1]
      BY <2>1, <2>2, <1>0
    <2> HIDE DEF v, m
    <2>4. \A k \in 1 .. m : k + 1 \in 1 .. 1 + m /\ ~(k + 1 <= 1) /\ (k + 1) - 1 = k
      BY <1>0
    <2>5. 1 \in 1 .. 1 + m
      BY <1>0
    <2> QED
      BY <2>1, <2>2, <2>3, <2>4, <2>5
  <1>2. w \in Seq(Byte) /\ Len(w) = n /\ \A k \in 1 .. n : w[k] = s[k]
    BY PrefixIs
  <1>3. IsPrefix(c, Tail(s)) <=> m <= Len(s) - 1 /\ \A k \in 1 .. m : c[k] = s[k + 1]
    BY FollowsIs
  <1> HIDE DEF v, w, m
  <1>4. ASSUME w = v PROVE n = 1 + m /\ s[1] = Quote /\ IsPrefix(c, Tail(s))
    <2>1. n = 1 + m
      BY <1>1, <1>2, <1>4
    <2>2. 1 \in 1 .. n /\ \A k \in 1 .. m : k + 1 \in 1 .. n
      BY <1>0, <2>1
    <2>3. \A k \in 1 .. m : c[k] = s[k + 1]
      BY <1>1, <1>2, <1>4, <2>2
    <2>4. s[1] = Quote
      BY <1>1, <1>2, <1>4, <2>2
    <2>5. m <= Len(s) - 1
      BY <1>0, <2>1
    <2> QED
      BY <1>3, <2>1, <2>3, <2>4, <2>5
  <1>5. ASSUME n = 1 + m, s[1] = Quote, IsPrefix(c, Tail(s)) PROVE w = v
    <2>1. \A k \in 1 .. n : w[k] = v[k]
      <3> SUFFICES ASSUME NEW k \in 1 .. n PROVE w[k] = v[k]
        OBVIOUS
      <3>1. CASE k = 1
        BY <1>1, <1>2, <1>5, <3>1
      <3>2. CASE k # 1
        <4>1. k - 1 \in 1 .. m /\ (k - 1) + 1 = k
          BY <1>0, <1>5, <3>2
        <4>2. v[k] = c[k - 1] /\ c[k - 1] = s[k]
          BY <1>1, <1>3, <1>5, <4>1
        <4> QED
          BY <1>2, <4>2
      <3> QED
        BY <3>1, <3>2
    <2> QED
      BY <1>1, <1>2, <1>5, <2>1, SeqEqual
  <1>6. w = v <=> n = 1 + m /\ s[1] = Quote /\ IsPrefix(c, Tail(s))
    BY <1>4, <1>5
  <1> QED
    BY <1>6 DEF v, w, m

\* At most one contraction follows a quote.
LEMMA OneFollows ==
  ASSUME NEW s \in Seq(Byte), s # <<>>, NEW c \in Contractions, NEW d \in Contractions,
         IsPrefix(c, Tail(s)), IsPrefix(d, Tail(s)), Len(c) <= Len(d)
  PROVE  c = d
  <1>0. c \in Seq(Letters) /\ d \in Seq(Letters) /\ Len(c) \in Nat /\ Len(d) \in Nat /\ Len(c) >= 1
    <2>1. c \in Seq(Letters) /\ Len(c) \in 1 .. 2
      BY ClassesAssumption
    <2>2. d \in Seq(Letters) /\ Len(d) \in 1 .. 2
      BY ClassesAssumption
    <2>3. Len(c) \in Nat /\ Len(c) >= 1
      BY <2>1
    <2>4. Len(d) \in Nat
      BY <2>2
    <2> QED
      BY <2>1, <2>2, <2>3, <2>4
  <1>1. \A k \in 1 .. Len(c) : c[k] = s[k + 1]
    BY FollowsIs
  <1>2. \A k \in 1 .. Len(d) : d[k] = s[k + 1]
    BY FollowsIs
  <1>3. \A k \in 1 .. Len(c) : c[k] = d[k] /\ d[k] \in Letters
    BY <1>0, <1>1, <1>2
  <1>4. SubSeq(c, 1, Len(c)) = c
    BY <1>0, SubSeqFull
  <1>5. /\ SubSeq(d, 1, Len(c)) \in Seq(Letters)
        /\ Len(SubSeq(d, 1, Len(c))) = IF 1 <= Len(c) THEN Len(c) - 1 + 1 ELSE 0
        /\ \A k \in 1 .. Len(c) - 1 + 1 : SubSeq(d, 1, Len(c))[k] = d[1 + k - 1]
    BY <1>0, <1>3, SubSeqProperties
  <1> DEFINE v == SubSeq(d, 1, Len(c))
  <1>6. v \in Seq(Letters) /\ Len(v) = Len(c) /\ \A k \in 1 .. Len(c) : v[k] = d[k]
    <2> HIDE DEF v
    <2>1. Len(c) - 1 + 1 = Len(c) /\ \A k \in 1 .. Len(c) : 1 + k - 1 = k
      BY <1>0
    <2>2. /\ v \in Seq(Letters)
          /\ Len(v) = IF 1 <= Len(c) THEN Len(c) - 1 + 1 ELSE 0
          /\ \A k \in 1 .. Len(c) - 1 + 1 : v[k] = d[1 + k - 1]
      BY <1>5 DEF v
    <2> QED
      BY <1>0, <2>1, <2>2
  <1> HIDE DEF v
  <1>7. c = v
    BY <1>0, <1>3, <1>6, SeqEqual
  <1>8. IsPrefix(c, d)
    BY <1>4, <1>7 DEF IsPrefix, v
  <1> QED
    BY <1>8, ClassesAssumption

LEMMA ContractionLongest ==
  ASSUME NEW s \in Seq(Byte), s # <<>>
  PROVE  Longest(1, s, Contraction(s))
  <1> DEFINE found == {c \in Contractions : s[1] = Quote /\ IsPrefix(c, Tail(s))}
             M == MatchLengths(1, s)
  <1>0. Len(s) \in Nat \ {0}
    OBVIOUS
  <1>1. \A n \in 1 .. Len(s) : n \in M <=> \E c \in Contractions : SubSeq(s, 1, n) = <<Quote>> \o c
    BY Alternatives DEF MatchLengths
  <1>2. \A n \in 1 .. Len(s) : n \in M <=> \E c \in found : n = 1 + Len(c)
    <2> SUFFICES ASSUME NEW n \in 1 .. Len(s)
                 PROVE  n \in M <=> \E c \in found : n = 1 + Len(c)
      OBVIOUS
    <2>1. \A c \in Contractions :
            SubSeq(s, 1, n) = <<Quote>> \o c <=> n = 1 + Len(c) /\ s[1] = Quote /\ IsPrefix(c, Tail(s))
      BY QuotedIs
    <2> HIDE DEF M
    <2> QED
      BY <1>1, <2>1
  <1>3. M \subseteq 1 .. Len(s)
    BY DEF MatchLengths
  <1>4. CASE found = {}
    <2>1. Contraction(s) = 0
      BY <1>4 DEF Contraction
    <2>2. M = {}
      <3> HIDE DEF found, M
      <3> QED
        BY <1>2, <1>3, <1>4
    <2> QED
      BY <2>1, <2>2 DEF Longest
  <1>5. CASE found # {}
    <2> DEFINE c == CHOOSE x \in found : TRUE
    <2>1. c \in found /\ Contraction(s) = 1 + Len(c)
      BY <1>5 DEF Contraction
    <2> HIDE DEF c
    <2>2. c \in Contractions /\ Len(c) \in Nat /\ IsPrefix(c, Tail(s))
      BY <2>1, ClassesAssumption
    <2>3. Len(c) <= Len(s) - 1
      BY <2>2, FollowsIs
    <2>4. 1 + Len(c) \in M
      <3>1. 1 + Len(c) \in 1 .. Len(s)
        BY <1>0, <2>2, <2>3
      <3> HIDE DEF found, M
      <3> QED
        BY <1>2, <2>1, <3>1
    <2>5. ASSUME NEW n \in M PROVE n <= 1 + Len(c)
      <3>1. PICK e \in found : n = 1 + Len(e)
        <4> HIDE DEF found, M
        <4> QED
          BY <1>2, <1>3, <2>5
      <3>2. e \in Contractions /\ Len(e) \in Nat /\ IsPrefix(e, Tail(s))
        BY <3>1, ClassesAssumption
      <3>3. Len(e) <= Len(c) \/ Len(c) <= Len(e)
        BY <2>2, <3>2
      <3>4. e = c
        BY <2>2, <3>2, <3>3, OneFollows
      <3> QED
        BY <2>2, <3>1, <3>4
    <2> QED
      BY <2>1, <2>4, <2>5, LongestIs
  <1> QED
    BY <1>4, <1>5

\* A prefix, its first byte and the rest of it.
LEMMA WholeAndTail ==
  ASSUME NEW s \in Seq(Byte), NEW n \in 1 .. Len(s), NEW S
  PROVE  LET w == SubSeq(s, 1, n) IN
         /\ All(w, S) <=> \A p \in 1 .. n : s[p] \in S
         /\ All(Tail(w), S) <=> \A p \in 2 .. n : s[p] \in S
         /\ Head(w) = s[1] /\ Last(w) = s[n] /\ (Tail(w) # <<>> <=> n >= 2)
  <1> DEFINE w == SubSeq(s, 1, n)
             t == Tail(w)
  <1>0. n \in Nat /\ n >= 1 /\ 1 \in 1 .. n /\ n \in 1 .. n
    OBVIOUS
  <1>1. w \in Seq(Byte) /\ Len(w) = n /\ \A k \in 1 .. n : w[k] = s[k]
    BY PrefixIs
  <1> HIDE DEF w
  <1>2. DOMAIN w = 1 .. n /\ w # <<>>
    BY <1>0, <1>1
  <1>3. All(w, S) <=> \A p \in 1 .. n : s[p] \in S
    BY <1>1, <1>2 DEF All
  <1>4. Head(w) = s[1] /\ Last(w) = s[n]
    BY <1>0, <1>1, <1>2 DEF Last
  <1>5. t \in Seq(Byte) /\ Len(t) = n - 1 /\ \A k \in 1 .. n - 1 : t[k] = s[k + 1]
    <2>1. t \in Seq(Byte) /\ Len(t) = n - 1 /\ \A k \in 1 .. Len(t) : t[k] = w[k + 1]
      BY <1>1, <1>2, HeadTailProperties
    <2> HIDE DEF t
    <2>2. \A k \in 1 .. n - 1 : k + 1 \in 1 .. n
      BY <1>0
    <2> QED
      BY <1>1, <2>1, <2>2
  <1> HIDE DEF t
  <1>6. DOMAIN t = 1 .. n - 1 /\ (t # <<>> <=> n >= 2)
    BY <1>0, <1>5
  <1>7. ASSUME All(t, S), NEW p \in 2 .. n PROVE s[p] \in S
    <2>1. p - 1 \in 1 .. n - 1 /\ (p - 1) + 1 = p
      BY <1>0
    <2>2. t[p - 1] \in S
      BY <1>6, <1>7, <2>1 DEF All
    <2> QED
      BY <1>5, <2>1, <2>2
  <1>8. ASSUME \A p \in 2 .. n : s[p] \in S PROVE All(t, S)
    <2>1. \A k \in 1 .. n - 1 : k + 1 \in 2 .. n
      BY <1>0
    <2>2. \A k \in 1 .. n - 1 : t[k] \in S
      BY <1>5, <1>8, <2>1
    <2> QED
      BY <1>6, <2>2 DEF All
  <1>9. /\ All(w, S) <=> \A p \in 1 .. n : s[p] \in S
        /\ All(t, S) <=> \A p \in 2 .. n : s[p] \in S
        /\ Head(w) = s[1] /\ Last(w) = s[n] /\ (t # <<>> <=> n >= 2)
    BY <1>3, <1>4, <1>6, <1>7, <1>8
  <1> QED
    BY <1>9 DEF w, t

\* Every byte is of one class.
LEMMA OneClass ==
  /\ \A x \in Letters : x \notin Blanks \cup Marks /\ x \notin Digits /\ x \notin Spaces
  /\ \A x \in Marks : x \notin Letters /\ x \notin Digits /\ x \notin Spaces /\ x # Space
                      /\ x \notin Newlines
  /\ \A x \in Digits : x \notin Letters /\ x \notin Marks /\ x \notin Spaces
  /\ \A x \in Spaces : x \notin Letters /\ x \notin Marks /\ x \notin Digits
  /\ \A x \in Newlines : x \notin Marks /\ x # Space
  /\ Space \in Spaces /\ Newlines \subseteq Spaces
  BY ClassesAssumption DEF Spaces

LEMMA WordLongest ==
  ASSUME NEW s \in Seq(Byte), s # <<>>
  PROVE  Longest(2, s, Word(s))
  <1> DEFINE d == IF s[1] \in Blanks \cup Marks /\ Len(s) >= 2 /\ s[2] \in Letters THEN 1 ELSE 0
             M == MatchLengths(2, s)
             r == Run(s, d + 1, Letters)
  <1>0. Len(s) \in Nat /\ Len(s) >= 1 /\ s[1] \in Byte
    OBVIOUS
  <1>1. d \in 0 .. 1 /\ d + 1 \in 1 .. Len(s) + 1 /\ d + 1 \in 1 .. Len(s) /\ (d = 1 => Len(s) >= 2)
    BY <1>0
  <1>2. Word(s) = IF s[d + 1] \in Letters THEN d + r ELSE 0
    BY DEF Word
  <1>3. /\ d = 1 => s[1] \in Blanks \cup Marks /\ s[1] \notin Letters /\ s[2] \in Letters
        /\ d = 0 => s[1] \in Letters \/ ~(s[1] \in Blanks \cup Marks /\ Len(s) >= 2 /\ s[2] \in Letters)
    BY OneClass
  <1>4. s[1] \in Letters => d = 0
    BY OneClass
  <1> HIDE DEF d
  <1>5. \A n \in 1 .. Len(s) : n \in M <=>
          \/ \A p \in 1 .. n : s[p] \in Letters
          \/ s[1] \in Blanks \cup Marks /\ n >= 2 /\ \A p \in 2 .. n : s[p] \in Letters
    <2> SUFFICES ASSUME NEW n \in 1 .. Len(s)
                 PROVE  n \in M <=>
                          \/ \A p \in 1 .. n : s[p] \in Letters
                          \/ s[1] \in Blanks \cup Marks /\ n >= 2 /\ \A p \in 2 .. n : s[p] \in Letters
      OBVIOUS
    <2> DEFINE w == SubSeq(s, 1, n)
    <2>1. n \in M <=> \/ All(w, Letters)
                      \/ Head(w) \in Blanks \cup Marks /\ Tail(w) # <<>> /\ All(Tail(w), Letters)
      BY Alternatives DEF MatchLengths
    <2>2. /\ All(w, Letters) <=> \A p \in 1 .. n : s[p] \in Letters
          /\ All(Tail(w), Letters) <=> \A p \in 2 .. n : s[p] \in Letters
          /\ Head(w) = s[1] /\ (Tail(w) # <<>> <=> n >= 2)
      BY WholeAndTail
    <2> HIDE DEF w, M
    <2> QED
      BY <2>1, <2>2
  <1>6. M \subseteq 1 .. Len(s)
    BY DEF MatchLengths
  <1>7. CASE s[d + 1] \in Letters
    <2>1. /\ r \in 0 .. Len(s) - (d + 1) + 1
          /\ \A p \in d + 1 .. (d + 1) + r - 1 : s[p] \in Letters
      BY <1>1, RunSpans
    <2>2. d + r <= Len(s) /\ (d + 1) + r - 1 = d + r /\ r \in Nat
      BY <1>0, <1>1, <2>1
    <2>3. r >= 1
      <3>1. \A p \in d + 1 .. d + 1 : s[p] \in Letters
        BY <1>1, <1>7
      <3>2. d + 1 \in (d + 1) - 1 .. Len(s)
        BY <1>0, <1>1
      <3>3. (\A p \in d + 1 .. d + 1 : s[p] \in Letters) <=> d + 1 <= (d + 1) + r - 1
        BY <1>1, <3>2, WithinRun
      <3> HIDE DEF r
      <3> QED
        BY <1>1, <2>2, <3>1, <3>3
    <2>4. d + r \in M
      <3> HIDE DEF r, M
      <3>1. d + r \in 1 .. Len(s)
        BY <1>0, <1>1, <2>2, <2>3
      <3>2. CASE d = 0
        <4>1. \A p \in 1 .. d + r : s[p] \in Letters
          BY <1>1, <2>1, <2>2, <3>2
        <4> QED
          BY <1>5, <3>1, <4>1
      <3>3. CASE d = 1
        <4>1. s[1] \in Blanks \cup Marks
          BY <1>3, <3>3
        <4>2. d + r >= 2
          BY <2>2, <2>3, <3>3
        <4>3. \A p \in 2 .. d + r : s[p] \in Letters
          BY <1>1, <2>1, <2>2, <3>3
        <4> QED
          BY <1>5, <3>1, <4>1, <4>2, <4>3
      <3> QED
        BY <1>1, <3>2, <3>3
    <2>5. ASSUME NEW n \in M PROVE n <= d + r
      <3>0. n \in 1 .. Len(s) /\ n \in Nat
        BY <1>0, <1>6
      <3>1. \A p \in d + 1 .. n : s[p] \in Letters
        <4>1. CASE \A p \in 1 .. n : s[p] \in Letters
          BY <1>1, <3>0, <4>1
        <4>2. CASE s[1] \in Blanks \cup Marks /\ n >= 2 /\ \A p \in 2 .. n : s[p] \in Letters
          <5>1. s[1] \notin Letters
            BY <4>2, OneClass
          <5>2. d = 1
            BY <1>1, <1>7, <5>1
          <5> QED
            BY <4>2, <5>2
        <4> HIDE DEF M
        <4> QED
          BY <1>5, <2>5, <3>0, <4>1, <4>2
      <3>2. n \in (d + 1) - 1 .. Len(s)
        BY <1>1, <3>0
      <3>3. (\A p \in d + 1 .. n : s[p] \in Letters) <=> n <= (d + 1) + r - 1
        BY <1>1, <3>2, WithinRun
      <3> HIDE DEF r, M
      <3> QED
        BY <2>2, <3>1, <3>3
    <2>6. Word(s) = d + r
      BY <1>2, <1>7
    <2>7. Longest(2, s, d + r)
      <3> HIDE DEF r
      <3> QED
        BY <2>4, <2>5, LongestIs
    <2> QED
      BY <2>6, <2>7
  <1>8. CASE s[d + 1] \notin Letters
    <2>1. d = 0 /\ s[1] \notin Letters
      BY <1>1, <1>3, <1>8
    <2>2. ASSUME NEW n \in M PROVE FALSE
      <3>0. n \in 1 .. Len(s) /\ n \in Nat /\ n >= 1
        BY <1>0, <1>6
      <3>1. CASE \A p \in 1 .. n : s[p] \in Letters
        BY <2>1, <3>0, <3>1
      <3>2. CASE s[1] \in Blanks \cup Marks /\ n >= 2 /\ \A p \in 2 .. n : s[p] \in Letters
        <4>1. s[2] \in Letters /\ Len(s) >= 2
          BY <1>0, <3>0, <3>2
        <4> QED
          BY <1>3, <2>1, <3>2, <4>1
      <3> HIDE DEF M
      <3> QED
        BY <1>5, <2>2, <3>0, <3>1, <3>2
    <2>3. M = {}
      BY <2>2
    <2>4. Word(s) = 0
      BY <1>2, <1>8
    <2> QED
      BY <2>3, <2>4 DEF Longest
  <1> QED
    BY <1>7, <1>8

LEMMA DigitLongest ==
  ASSUME NEW s \in Seq(Byte), s # <<>>
  PROVE  Longest(3, s, Digit(s))
  <1> DEFINE M == MatchLengths(3, s)
  <1>0. Len(s) \in Nat /\ Len(s) >= 1 /\ 1 \in 1 .. Len(s)
    OBVIOUS
  <1>1. \A n \in 1 .. Len(s) : n \in M <=> n = 1 /\ s[1] \in Digits
    <2> SUFFICES ASSUME NEW n \in 1 .. Len(s) PROVE n \in M <=> n = 1 /\ s[1] \in Digits
      OBVIOUS
    <2> DEFINE w == SubSeq(s, 1, n)
    <2>1. n \in M <=> Len(w) = 1 /\ All(w, Digits)
      BY Alternatives DEF MatchLengths
    <2>2. Len(w) = n /\ (All(w, Digits) <=> \A p \in 1 .. n : s[p] \in Digits)
      BY PrefixIs, WholeAndTail
    <2> HIDE DEF w, M
    <2> QED
      BY <2>1, <2>2
  <1>2. M \subseteq 1 .. Len(s)
    BY DEF MatchLengths
  <1>3. CASE s[1] \in Digits
    <2>1. 1 \in M /\ \A n \in M : n <= 1
      <3> HIDE DEF M
      <3> QED
        BY <1>0, <1>1, <1>2, <1>3
    <2>2. Digit(s) = 1
      BY <1>3 DEF Digit
    <2> QED
      BY <2>1, <2>2, LongestIs
  <1>4. CASE s[1] \notin Digits
    <2>1. M = {}
      <3> HIDE DEF M
      <3> QED
        BY <1>1, <1>2, <1>4
    <2>2. Digit(s) = 0
      BY <1>4 DEF Digit
    <2> QED
      BY <2>1, <2>2 DEF Longest
  <1> QED
    BY <1>3, <1>4

LEMMA PunctuationMatches ==
  ASSUME NEW s \in Seq(Byte), s # <<>>, NEW n \in 1 .. Len(s)
  PROVE  n \in MatchLengths(4, s) <=>
           \E a \in 0 .. 1, e \in 1 .. n :
              /\ a < e /\ (a = 1 => s[1] = Space)
              /\ \A p \in a + 1 .. e : s[p] \in Marks
              /\ \A p \in e + 1 .. n : s[p] \in Newlines
  <1> DEFINE w == SubSeq(s, 1, n)
             M == MatchLengths(4, s)
  <1>0. Len(w) = n /\ n \in Nat /\ n >= 1 /\ Len(s) \in Nat
    BY PrefixIs
  <1>1. n \in M <=>
           \E a \in 0 .. 1, e \in 1 .. Len(w) :
              /\ a < e
              /\ All(SubSeq(w, 1, a), {Space})
              /\ All(SubSeq(w, a + 1, e), Marks)
              /\ All(SubSeq(w, e + 1, Len(w)), Newlines)
    BY Alternatives DEF MatchLengths
  <1>2. ASSUME NEW a \in 0 .. 1, NEW e \in 1 .. n, a < e
        PROVE  /\ All(SubSeq(w, 1, a), {Space}) <=> (a = 1 => s[1] = Space)
               /\ All(SubSeq(w, a + 1, e), Marks) <=> \A p \in a + 1 .. e : s[p] \in Marks
               /\ All(SubSeq(w, e + 1, n), Newlines) <=> \A p \in e + 1 .. n : s[p] \in Newlines
    <2>1. /\ 1 \in 1 .. n + 1 /\ a \in 1 - 1 .. n
          /\ a + 1 \in 1 .. n + 1 /\ e \in (a + 1) - 1 .. n
          /\ e + 1 \in 1 .. n + 1 /\ n \in (e + 1) - 1 .. n
      BY <1>0, <1>2
    <2>2. All(SubSeq(w, 1, a), {Space}) <=> \A p \in 1 .. a : s[p] \in {Space}
      BY <2>1, AllOf
    <2>3. All(SubSeq(w, a + 1, e), Marks) <=> \A p \in a + 1 .. e : s[p] \in Marks
      BY <2>1, AllOf
    <2>4. All(SubSeq(w, e + 1, n), Newlines) <=> \A p \in e + 1 .. n : s[p] \in Newlines
      BY <2>1, AllOf
    <2>5. (\A p \in 1 .. a : s[p] \in {Space}) <=> (a = 1 => s[1] = Space)
      <3>1. CASE a = 0
        BY <3>1
      <3>2. CASE a = 1
        <4>1. \A p \in 1 .. 1 : p = 1
          OBVIOUS
        <4>2. 1 \in 1 .. 1
          OBVIOUS
        <4> QED
          BY <3>2, <4>1, <4>2
      <3> QED
        BY <3>1, <3>2
    <2> HIDE DEF w
    <2> QED
      BY <2>2, <2>3, <2>4, <2>5
  <1> HIDE DEF w, M
  <1>3. n \in M <=>
           \E a \in 0 .. 1, e \in 1 .. n :
              /\ a < e /\ (a = 1 => s[1] = Space)
              /\ \A p \in a + 1 .. e : s[p] \in Marks
              /\ \A p \in e + 1 .. n : s[p] \in Newlines
    BY <1>0, <1>1, <1>2
  <1> QED
    BY <1>3 DEF M

LEMMA PunctuationLongest ==
  ASSUME NEW s \in Seq(Byte), s # <<>>
  PROVE  Longest(4, s, Punctuation(s))
  <1> DEFINE d == IF s[1] = Space THEN 1 ELSE 0
             r == Run(s, d + 1, Marks)
             j == d + r
             q == Run(s, j + 1, Newlines)
             M == MatchLengths(4, s)
  <1>0. Len(s) \in Nat /\ Len(s) >= 1
    OBVIOUS
  <1>1. d \in 0 .. 1 /\ d + 1 \in 1 .. Len(s) + 1 /\ (d = 1 <=> s[1] = Space)
    BY <1>0
  <1>2. Punctuation(s) = IF d < Len(s) /\ s[d + 1] \in Marks THEN j + q ELSE 0
    BY DEF Punctuation
  <1> HIDE DEF d
  <1>3. /\ r \in 0 .. Len(s) - (d + 1) + 1
        /\ \A p \in d + 1 .. (d + 1) + r - 1 : s[p] \in Marks
    BY <1>1, RunSpans
  <1> HIDE DEF r
  <1>4. j \in 0 .. Len(s) /\ j + 1 \in 1 .. Len(s) + 1 /\ j >= d /\ (d + 1) + r - 1 = j
    BY <1>0, <1>1, <1>3
  <1>5. \A p \in d + 1 .. j : s[p] \in Marks
    BY <1>3, <1>4
  <1>6. /\ q \in 0 .. Len(s) - (j + 1) + 1
        /\ \A p \in j + 1 .. (j + 1) + q - 1 : s[p] \in Newlines
    <2> HIDE DEF j
    <2> QED
      BY <1>4, RunSpans
  <1>7. M \subseteq 1 .. Len(s)
    BY DEF MatchLengths
  <1>8. ASSUME NEW e \in (d + 1) - 1 .. Len(s), \A p \in d + 1 .. e : s[p] \in Marks
        PROVE  e <= j
    <2>1. e <= (d + 1) + r - 1
      BY <1>1, <1>8, WithinRun DEF r
    <2> QED
      BY <1>4, <2>1
  <1>9. ASSUME NEW n \in j .. Len(s), \A p \in j + 1 .. n : s[p] \in Newlines
        PROVE  n <= j + q
    <2>1. n \in (j + 1) - 1 .. Len(s)
      BY <1>4
    <2> HIDE DEF j
    <2>2. n <= (j + 1) + q - 1
      BY <1>4, <1>9, <2>1, WithinRun
    <2> HIDE DEF q
    <2> QED
      BY <1>4, <1>6, <2>2
  <1> HIDE DEF j, q
  <1>10. ASSUME NEW n \in M
         PROVE  \E e \in d + 1 .. n : /\ \A p \in d + 1 .. e : s[p] \in Marks
                                     /\ \A p \in e + 1 .. n : s[p] \in Newlines
    <2>0. n \in 1 .. Len(s)
      BY <1>7
    <2>1. PICK a \in 0 .. 1, e \in 1 .. n :
              /\ a < e /\ (a = 1 => s[1] = Space)
              /\ \A p \in a + 1 .. e : s[p] \in Marks
              /\ \A p \in e + 1 .. n : s[p] \in Newlines
      BY <2>0, PunctuationMatches DEF M
    <2>2. a = d
      <3>1. CASE a = 0
        <4>1. s[1] \in Marks
          BY <2>1, <3>1
        <4>2. s[1] # Space
          BY <4>1, OneClass
        <4> QED
          BY <1>1, <3>1, <4>2
      <3>2. CASE a = 1
        BY <1>1, <2>1, <3>2
      <3> QED
        BY <3>1, <3>2
    <2>3. e \in d + 1 .. n
      BY <1>1, <2>1, <2>2
    <2> QED
      BY <2>1, <2>2, <2>3
  <1>11. CASE d < Len(s) /\ s[d + 1] \in Marks
    <2>1. j >= d + 1
      <3>1. d + 1 \in (d + 1) - 1 .. Len(s) /\ \A p \in d + 1 .. d + 1 : s[p] \in Marks
        BY <1>0, <1>1, <1>11
      <3> QED
        BY <1>8, <3>1
    <2>2. j + q \in M
      <3>1. j + q \in 1 .. Len(s) /\ j \in 1 .. j + q /\ d \in 0 .. 1 /\ d < j
        BY <1>0, <1>1, <1>4, <1>6, <2>1
      <3>2. \A p \in j + 1 .. j + q : s[p] \in Newlines
        <4>1. (j + 1) + q - 1 = j + q
          BY <1>4, <1>6
        <4> QED
          BY <1>6, <4>1
      <3>3. d = 1 => s[1] = Space
        BY <1>1
      <3>4. \E a \in 0 .. 1, e \in 1 .. j + q :
              /\ a < e /\ (a = 1 => s[1] = Space)
              /\ \A p \in a + 1 .. e : s[p] \in Marks
              /\ \A p \in e + 1 .. j + q : s[p] \in Newlines
        BY <1>5, <3>1, <3>2, <3>3
      <3> QED
        BY <3>1, <3>4, PunctuationMatches DEF M
    <2>3. ASSUME NEW n \in M PROVE n <= j + q
      <3>0. n \in 1 .. Len(s) /\ n \in Nat /\ j \in Nat /\ q \in Nat /\ d \in Nat
        BY <1>0, <1>1, <1>4, <1>6, <1>7
      <3>1. PICK e \in d + 1 .. n : /\ \A p \in d + 1 .. e : s[p] \in Marks
                                   /\ \A p \in e + 1 .. n : s[p] \in Newlines
        BY <1>10, <2>3
      <3>2. e <= j
        <4>1. e \in (d + 1) - 1 .. Len(s)
          BY <3>0
        <4> QED
          BY <1>8, <3>1, <4>1
      <3>3. CASE e = j
        <4>1. n \in j .. Len(s) /\ \A p \in j + 1 .. n : s[p] \in Newlines
          BY <3>0, <3>1, <3>3
        <4> QED
          BY <1>9, <4>1
      <3>4. CASE e # j
        <4>1. e + 1 \in d + 1 .. j
          BY <3>0, <3>2, <3>4
        <4>2. s[e + 1] \in Marks
          BY <1>5, <4>1
        <4>3. s[e + 1] \notin Newlines
          BY <4>2, OneClass
        <4>4. ~(e + 1 <= n)
          <5>1. ASSUME e + 1 <= n PROVE FALSE
            <6>1. e + 1 \in e + 1 .. n
              BY <3>0, <5>1
            <6> QED
              BY <3>1, <4>3, <6>1
          <5> QED
            BY <5>1
        <4> QED
          BY <3>0, <3>2, <4>4
      <3> QED
        BY <3>3, <3>4
    <2>4. Punctuation(s) = j + q
      BY <1>2, <1>11 DEF j, q, r
    <2> QED
      BY <2>2, <2>3, <2>4, LongestIs DEF M
  <1>12. CASE ~(d < Len(s) /\ s[d + 1] \in Marks)
    <2>1. ASSUME NEW n \in M PROVE FALSE
      <3>0. n \in 1 .. Len(s) /\ n \in Nat /\ d \in Nat
        BY <1>0, <1>1, <1>7
      <3>1. PICK e \in d + 1 .. n : \A p \in d + 1 .. e : s[p] \in Marks
        BY <1>10, <2>1
      <3>2. d + 1 \in d + 1 .. e /\ d < Len(s)
        BY <1>0, <3>0, <3>1
      <3>3. s[d + 1] \in Marks
        BY <3>1, <3>2
      <3> QED
        BY <1>12, <3>2, <3>3
    <2>2. M = {}
      BY <2>1
    <2>3. Punctuation(s) = 0
      BY <1>2, <1>12 DEF j, q, r
    <2> QED
      BY <2>2, <2>3 DEF Longest, M
  <1> QED
    BY <1>11, <1>12

LEMMA SpaceMatches ==
  ASSUME NEW s \in Seq(Byte), s # <<>>, NEW n \in 1 .. Len(s)
  PROVE  LET j == Run(s, 1, Spaces) IN
         /\ j \in 0 .. Len(s)
         /\ n \in MatchLengths(5, s) <=> n <= j /\ s[n] \in Newlines
         /\ n \in MatchLengths(6, s) <=> n <= j /\ (n = Len(s) \/ n <= j - 1)
         /\ n \in MatchLengths(7, s) <=> n <= j
  <1> DEFINE w == SubSeq(s, 1, n)
             v == SubSeq(s, n + 1, Len(s))
             j == Run(s, 1, Spaces)
             N == Len(s)
  <1>0. N \in Nat /\ N >= 1 /\ n \in Nat /\ 1 \in 1 .. N + 1 /\ n \in 1 - 1 .. N
        /\ \A k \in 1 .. N : s[k] \in Byte
    OBVIOUS
  <1>1. /\ j \in 0 .. N - 1 + 1
        /\ \A p \in 1 .. 1 + j - 1 : s[p] \in Spaces
        /\ 1 + j <= N => s[1 + j] \notin Spaces
    BY <1>0, RunSpans
  <1>2. (\A p \in 1 .. n : s[p] \in Spaces) <=> n <= 1 + j - 1
    BY <1>0, WithinRun
  <1> HIDE DEF j
  <1>3. j \in 0 .. N /\ 1 + j - 1 = j /\ N - 1 + 1 = N
    BY <1>0, <1>1
  <1>4. (All(w, Spaces) <=> n <= j) /\ Last(w) = s[n]
    <2>1. (All(w, Spaces) <=> \A p \in 1 .. n : s[p] \in Spaces) /\ Last(w) = s[n]
      BY WholeAndTail
    <2> HIDE DEF w
    <2> QED
      BY <1>2, <1>3, <2>1
  <1>5. (v = <<>> <=> n = N) /\ (n < N => Head(v) = s[n + 1])
    <2>1. CASE n = N
      <3>1. v = <<>>
        BY <1>0, <2>1, SubSeqEmpty
      <3> QED
        BY <1>0, <2>1, <3>1
    <2>2. CASE n < N
      <3>0. n + 1 \in Int /\ \A k \in n + 1 .. N : s[k] \in Byte
        BY <1>0
      <3>1. /\ v \in Seq(Byte)
            /\ Len(v) = IF n + 1 <= N THEN N - (n + 1) + 1 ELSE 0
            /\ \A k \in 1 .. N - (n + 1) + 1 : v[k] = s[(n + 1) + k - 1]
        BY <1>0, <3>0, SubSeqProperties
      <3> HIDE DEF v, N
      <3>2. Len(v) = N - n /\ v # <<>> /\ 1 \in 1 .. N - (n + 1) + 1
        BY <1>0, <2>2, <3>1
      <3>3. v[1] = s[n + 1]
        BY <1>0, <3>1, <3>2
      <3> QED
        BY <1>0, <2>2, <3>1, <3>2, <3>3
    <2> QED
      BY <1>0, <2>1, <2>2
  <1>6. n \in MatchLengths(5, s) <=> All(w, Spaces) /\ Last(w) \in Newlines
    BY Alternatives DEF MatchLengths
  <1>7. n \in MatchLengths(6, s) <=> All(w, Spaces) /\ (v = <<>> \/ Head(v) \in Spaces)
    BY Alternatives DEF MatchLengths
  <1>8. n \in MatchLengths(7, s) <=> All(w, Spaces)
    BY Alternatives DEF MatchLengths
  <1> HIDE DEF w, v, N
  <1>9. ASSUME n <= j PROVE (v = <<>> \/ Head(v) \in Spaces) <=> (n = N \/ n <= j - 1)
    <2>1. CASE n = N
      BY <1>5, <2>1
    <2>2. CASE n # N /\ n <= j - 1
      <3>1. n < N /\ n + 1 \in 1 .. 1 + j - 1
        BY <1>0, <1>3, <2>2
      <3> QED
        BY <1>1, <1>5, <2>2, <3>1
    <2>3. CASE n # N /\ ~(n <= j - 1)
      <3>1. n = j /\ n < N /\ n + 1 = 1 + j /\ 1 + j <= N
        BY <1>0, <1>3, <1>9, <2>3
      <3> QED
        BY <1>1, <1>5, <2>3, <3>1
    <2> QED
      BY <2>1, <2>2, <2>3
  <1>10. /\ j \in 0 .. N
         /\ n \in MatchLengths(5, s) <=> n <= j /\ s[n] \in Newlines
         /\ n \in MatchLengths(6, s) <=> n <= j /\ (n = N \/ n <= j - 1)
         /\ n \in MatchLengths(7, s) <=> n <= j
    BY <1>3, <1>4, <1>6, <1>7, <1>8, <1>9
  <1> QED
    BY <1>10 DEF j, N

\* White space is one of the last three alternatives, in their order.
LEMMA WhiteSpaceLongest ==
  ASSUME NEW s \in Seq(Byte), s # <<>>
  PROVE  \E l, m, n \in Nat :
            /\ Longest(5, s, l) /\ Longest(6, s, m) /\ Longest(7, s, n)
            /\ WhiteSpace(s) = IF l > 0 THEN l ELSE IF m > 0 THEN m ELSE n
  <1> DEFINE j == Run(s, 1, Spaces)
             newlines == {k \in 1 .. j : s[k] \in Newlines}
             l == IF newlines # {} THEN Max(newlines) ELSE 0
             m == IF j = Len(s) THEN j ELSE IF j <= 1 THEN 0 ELSE j - 1
             A == MatchLengths(5, s)
             B == MatchLengths(6, s)
             C == MatchLengths(7, s)
  <1>0. Len(s) \in Nat /\ Len(s) >= 1
    OBVIOUS
  <1>1. /\ \A n \in 1 .. Len(s) : n \in A <=> n <= j /\ s[n] \in Newlines
        /\ \A n \in 1 .. Len(s) : n \in B <=> n <= j /\ (n = Len(s) \/ n <= j - 1)
        /\ \A n \in 1 .. Len(s) : n \in C <=> n <= j
    <2> SUFFICES ASSUME NEW n \in 1 .. Len(s)
                 PROVE  /\ n \in A <=> n <= j /\ s[n] \in Newlines
                        /\ n \in B <=> n <= j /\ (n = Len(s) \/ n <= j - 1)
                        /\ n \in C <=> n <= j
      OBVIOUS
    <2> QED
      BY SpaceMatches
  <1>2. A \subseteq 1 .. Len(s) /\ B \subseteq 1 .. Len(s) /\ C \subseteq 1 .. Len(s)
    BY DEF MatchLengths
  <1>3. j \in 0 .. Len(s)
    <2>1. 1 \in 1 .. Len(s)
      BY <1>0
    <2> QED
      BY <2>1, SpaceMatches
  <1>4. WhiteSpace(s) = IF newlines # {} THEN Max(newlines)
                        ELSE IF j = Len(s) \/ j <= 1 THEN j ELSE j - 1
    BY DEF WhiteSpace
  <1> HIDE DEF j, A, B, C
  <1>5. A = newlines
    <2>1. \A n \in 1 .. j : n \in 1 .. Len(s)
      BY <1>0, <1>3
    <2>2. \A n \in A : n \in 1 .. j /\ s[n] \in Newlines
      BY <1>0, <1>1, <1>2, <1>3
    <2>3. \A n \in newlines : n \in A
      BY <1>0, <1>1, <1>3, <2>1
    <2> QED
      BY <2>2, <2>3
  <1>6. Longest(5, s, l) /\ l \in Nat
    <2>1. CASE A = {}
      <3>1. l = 0
        BY <1>5, <2>1
      <3> QED
        BY <2>1, <3>1 DEF Longest, A
    <2>2. CASE A # {}
      <3>1. l = Max(A)
        BY <1>5, <2>2
      <3>2. Max(A) \in A
        <4>1. A \in SUBSET (0 .. Len(s))
          BY <1>0, <1>2
        <4> QED
          BY <1>0, <2>2, <4>1, MaxIs
      <3> HIDE DEF l, m, newlines
      <3>3. \A k \in 1 .. Len(s) : k \in Nat /\ k > 0
        BY <1>0
      <3>4. Max(A) \in 1 .. Len(s)
        BY <1>2, <3>2
      <3>5. l \in Nat /\ l > 0
        BY <3>1, <3>3, <3>4
      <3> QED
        BY <2>2, <3>1, <3>5 DEF Longest, A
    <2> QED
      BY <2>1, <2>2
  <1>7. Longest(6, s, m) /\ m \in Nat
    <2>1. CASE m > 0
      <3>1. m \in 1 .. Len(s) /\ m <= j /\ (m = Len(s) \/ m <= j - 1)
        BY <1>0, <1>3, <2>1
      <3>2. m \in B
        BY <1>1, <3>1
      <3>3. \A n \in B : n <= m
        BY <1>0, <1>1, <1>2, <1>3
      <3> HIDE DEF m
      <3>4. Longest(6, s, m)
        BY <3>2, <3>3, LongestIs DEF B
      <3> QED
        BY <1>0, <3>1, <3>4
    <2>2. CASE ~(m > 0)
      <3>1. m = 0 /\ j <= 1 /\ j # Len(s)
        BY <1>0, <1>3, <2>2
      <3>2. ASSUME NEW n \in B PROVE FALSE
        <4>1. n \in 1 .. Len(s) /\ n <= j /\ (n = Len(s) \/ n <= j - 1)
          BY <1>1, <1>2
        <4> HIDE DEF m
        <4> QED
          BY <1>0, <1>3, <3>1, <4>1
      <3>3. B = {}
        BY <3>2
      <3> HIDE DEF m
      <3> QED
        BY <3>1, <3>3 DEF Longest, B
    <2> QED
      BY <2>1, <2>2
  <1>8. Longest(7, s, j) /\ j \in Nat
    <2>1. CASE j > 0
      <3>1. j \in 1 .. Len(s)
        BY <1>0, <1>3, <2>1
      <3>2. j \in C /\ \A n \in C : n <= j
        BY <1>0, <1>1, <1>2, <1>3, <3>1
      <3> QED
        BY <1>0, <1>3, <3>2, LongestIs DEF C
    <2>2. CASE j = 0
      <3>1. ASSUME NEW n \in C PROVE FALSE
        <4>1. n \in 1 .. Len(s) /\ n <= j
          BY <1>1, <1>2
        <4> QED
          BY <1>0, <2>2, <4>1
      <3>2. C = {}
        BY <3>1
      <3> QED
        BY <2>2, <3>2 DEF Longest, C
    <2> QED
      BY <1>0, <1>3, <2>1, <2>2
  <1>9. WhiteSpace(s) = IF l > 0 THEN l ELSE IF m > 0 THEN m ELSE j
    <2>1. CASE newlines # {}
      <3>1. l > 0 /\ WhiteSpace(s) = l
        <4>1. l = Max(newlines) /\ Max(newlines) \in A
          <5>1. A \in SUBSET (0 .. Len(s))
            BY <1>0, <1>2
          <5>2. Max(A) \in A
            BY <1>0, <1>5, <2>1, <5>1, MaxIs
          <5> QED
            BY <1>5, <2>1, <5>2
        <4>2. WhiteSpace(s) = Max(newlines)
          BY <1>4, <2>1
        <4> HIDE DEF l, m, newlines
        <4>3. \A k \in 1 .. Len(s) : k > 0
          BY <1>0
        <4>4. l \in 1 .. Len(s)
          BY <1>2, <4>1
        <4> QED
          BY <4>1, <4>2, <4>3, <4>4
      <3> HIDE DEF l, m
      <3> QED
        BY <3>1
    <2>2. CASE newlines = {}
      <3>1. l = 0 /\ WhiteSpace(s) = IF j = Len(s) \/ j <= 1 THEN j ELSE j - 1
        BY <1>4, <2>2
      <3> HIDE DEF l, newlines
      <3> QED
        BY <1>0, <1>3, <3>1
    <2> QED
      BY <2>1, <2>2
  <1> HIDE DEF l, m
  <1> QED
    BY <1>6, <1>7, <1>8, <1>9

LEMMA NextPieceIs ==
  ASSUME NEW s \in Seq(Byte), s # <<>>
  PROVE  NextPiece(s) = IF Contraction(s) > 0 THEN Contraction(s)
                        ELSE IF Word(s) > 0 THEN Word(s)
                        ELSE IF Digit(s) > 0 THEN Digit(s)
                        ELSE IF Punctuation(s) > 0 THEN Punctuation(s)
                        ELSE IF WhiteSpace(s) > 0 THEN WhiteSpace(s) ELSE 1
  <1> DEFINE L == <<Contraction(s), Word(s), Digit(s), Punctuation(s), WhiteSpace(s), 1>>
             P == {k \in 1 .. 6 : L[k] > 0}
  <1>1. NextPiece(s) = L[Min(P)]
    <2>1. DOMAIN L = 1 .. 6
      OBVIOUS
    <2> QED
      BY <2>1 DEF NextPiece
  <1>2. /\ L[1] = Contraction(s) /\ L[2] = Word(s) /\ L[3] = Digit(s)
        /\ L[4] = Punctuation(s) /\ L[5] = WhiteSpace(s) /\ L[6] = 1
    OBVIOUS
  <1> HIDE DEF L
  <1>3. ASSUME NEW k \in 1 .. 6, L[k] > 0, \A h \in 1 .. k - 1 : ~(L[h] > 0)
        PROVE  NextPiece(s) = L[k]
    <2>1. P \in SUBSET Nat /\ k \in P /\ \A h \in P : k <= h
      BY <1>3
    <2>2. Min(P) = k
      <3> HIDE DEF P
      <3> QED
        BY <2>1, FirstIs
    <2> QED
      BY <1>1, <2>2
  <1>4. CASE L[1] > 0
    <2>1. NextPiece(s) = L[1]
      BY <1>3, <1>4
    <2> QED
      BY <1>2, <1>4, <2>1
  <1>5. CASE ~(L[1] > 0) /\ L[2] > 0
    <2>1. \A h \in 1 .. 2 - 1 : h = 1
      OBVIOUS
    <2>2. NextPiece(s) = L[2]
      BY <1>3, <1>5, <2>1
    <2> QED
      BY <1>2, <1>5, <2>2
  <1>6. CASE ~(L[1] > 0) /\ ~(L[2] > 0) /\ L[3] > 0
    <2>1. \A h \in 1 .. 3 - 1 : h = 1 \/ h = 2
      OBVIOUS
    <2>2. NextPiece(s) = L[3]
      BY <1>3, <1>6, <2>1
    <2> QED
      BY <1>2, <1>6, <2>2
  <1>7. CASE ~(L[1] > 0) /\ ~(L[2] > 0) /\ ~(L[3] > 0) /\ L[4] > 0
    <2>1. \A h \in 1 .. 4 - 1 : h = 1 \/ h = 2 \/ h = 3
      OBVIOUS
    <2>2. NextPiece(s) = L[4]
      BY <1>3, <1>7, <2>1
    <2> QED
      BY <1>2, <1>7, <2>2
  <1>8. CASE ~(L[1] > 0) /\ ~(L[2] > 0) /\ ~(L[3] > 0) /\ ~(L[4] > 0) /\ L[5] > 0
    <2>1. \A h \in 1 .. 5 - 1 : h = 1 \/ h = 2 \/ h = 3 \/ h = 4
      OBVIOUS
    <2>2. NextPiece(s) = L[5]
      BY <1>3, <1>8, <2>1
    <2> QED
      BY <1>2, <1>8, <2>2
  <1>9. CASE ~(L[1] > 0) /\ ~(L[2] > 0) /\ ~(L[3] > 0) /\ ~(L[4] > 0) /\ ~(L[5] > 0)
    <2>1. \A h \in 1 .. 6 - 1 : h = 1 \/ h = 2 \/ h = 3 \/ h = 4 \/ h = 5
      OBVIOUS
    <2>2. L[6] > 0
      BY <1>2
    <2>3. NextPiece(s) = L[6]
      BY <1>3, <1>9, <2>1, <2>2
    <2> QED
      BY <1>2, <1>9, <2>3
  <1> QED
    BY <1>4, <1>5, <1>6, <1>7, <1>8, <1>9

\* The first alternative that matches, as long as it can be.
LEMMA FirstMatchIs ==
  ASSUME NEW s, NEW k \in 1 .. 7, NEW m \in Nat \ {0}, Longest(k, s, m),
         \A h \in 1 .. k - 1 : MatchLengths(h, s) = {}
  PROVE  PreferredLength(s) = m
  <1> DEFINE K == {a \in 1 .. 7 : MatchLengths(a, s) # {}}
  <1>1. MatchLengths(k, s) # {} /\ Max(MatchLengths(k, s)) = m
    BY DEF Longest
  <1>2. K \in SUBSET Nat /\ k \in K /\ \A a \in K : k <= a
    BY <1>1
  <1>3. Min(K) = k
    <2> HIDE DEF K
    <2> QED
      BY <1>2, FirstIs
  <1> QED
    BY <1>1, <1>3 DEF PreferredLength

\* Whatever its class, the first byte is a match of some alternative.
LEMMA SomeMatch ==
  ASSUME NEW s \in Seq(Byte), s # <<>>
  PROVE  \E k \in 1 .. 7 : MatchLengths(k, s) # {}
  <1> DEFINE w == SubSeq(s, 1, 1)
  <1>0. 1 \in 1 .. Len(s) /\ s[1] \in Byte /\ \A p \in 1 .. 1 : p = 1
    OBVIOUS
  <1>1. CASE s[1] \in Letters
    <2>1. All(w, Letters)
      BY <1>0, <1>1, WholeAndTail
    <2>2. 1 \in MatchLengths(2, s)
      BY <1>0, <2>1, Alternatives DEF MatchLengths
    <2> QED
      BY <2>2
  <1>2. CASE s[1] \in Digits
    <2>1. All(w, Digits) /\ Len(w) = 1
      BY <1>0, <1>2, WholeAndTail, PrefixIs
    <2>2. 1 \in MatchLengths(3, s)
      BY <1>0, <2>1, Alternatives DEF MatchLengths
    <2> QED
      BY <2>2
  <1>3. CASE s[1] \in Marks
    <2>1. \E a \in 0 .. 1, e \in 1 .. 1 :
              /\ a < e /\ (a = 1 => s[1] = Space)
              /\ \A p \in a + 1 .. e : s[p] \in Marks
              /\ \A p \in e + 1 .. 1 : s[p] \in Newlines
      <3>1. \A p \in 0 + 1 .. 1 : s[p] \in Marks
        BY <1>3
      <3>2. \A p \in 1 + 1 .. 1 : s[p] \in Newlines
        OBVIOUS
      <3> QED
        BY <3>1, <3>2
    <2>2. 1 \in MatchLengths(4, s)
      BY <1>0, <2>1, PunctuationMatches
    <2> QED
      BY <2>2
  <1>4. CASE s[1] \in Spaces
    <2>1. All(w, Spaces)
      BY <1>0, <1>4, WholeAndTail
    <2>2. 1 \in MatchLengths(7, s)
      BY <1>0, <2>1, Alternatives DEF MatchLengths
    <2> QED
      BY <2>2
  <1> QED
    BY <1>0, <1>1, <1>2, <1>3, <1>4 DEF Byte

\* Of every text, the scanner takes what the expression takes.
LEMMA PieceIsPreferred ==
  ASSUME NEW s \in Seq(Byte), s # <<>>
  PROVE  NextPiece(s) = PreferredLength(s)
  <1> DEFINE c == Contraction(s)
             w == Word(s)
             d == Digit(s)
             p == Punctuation(s)
             M(k) == MatchLengths(k, s)
  <1>1. PICK l \in Nat, m \in Nat, n \in Nat :
            /\ Longest(5, s, l) /\ Longest(6, s, m) /\ Longest(7, s, n)
            /\ WhiteSpace(s) = IF l > 0 THEN l ELSE IF m > 0 THEN m ELSE n
    BY WhiteSpaceLongest
  <1>2. Longest(1, s, c) /\ Longest(2, s, w) /\ Longest(3, s, d) /\ Longest(4, s, p)
    BY ContractionLongest, WordLongest, DigitLongest, PunctuationLongest
  <1>3. c \in Nat /\ w \in Nat /\ d \in Nat /\ p \in Nat
    <2>1. c \in 0 .. Len(s) /\ w \in 0 .. Len(s) /\ p \in 0 .. Len(s) /\ d \in 0 .. 1
      BY ContractionFits, WordFits, PunctuationFits DEF Digit
    <2> QED
      BY <2>1
  <1>4. NextPiece(s) = IF c > 0 THEN c ELSE IF w > 0 THEN w ELSE IF d > 0 THEN d
                       ELSE IF p > 0 THEN p
                       ELSE IF WhiteSpace(s) > 0 THEN WhiteSpace(s) ELSE 1
    BY NextPieceIs
  <1> HIDE DEF c, w, d, p
  <1>5. /\ ~(c > 0) => M(1) = {}
        /\ ~(w > 0) => M(2) = {}
        /\ ~(d > 0) => M(3) = {}
        /\ ~(p > 0) => M(4) = {}
        /\ ~(l > 0) => M(5) = {}
        /\ ~(m > 0) => M(6) = {}
        /\ ~(n > 0) => M(7) = {}
    BY <1>1, <1>2 DEF Longest
  <1>6. ASSUME NEW k \in 1 .. 7, NEW v \in Nat, v > 0, Longest(k, s, v), \A h \in 1 .. k - 1 : M(h) = {}
        PROVE  PreferredLength(s) = v
    BY <1>6, FirstMatchIs
  <1>7. CASE c > 0
    <2>1. PreferredLength(s) = c
      BY <1>2, <1>3, <1>6, <1>7
    <2> QED
      BY <1>4, <1>7, <2>1
  <1>8. CASE ~(c > 0) /\ w > 0
    <2>1. \A h \in 1 .. 2 - 1 : h = 1
      OBVIOUS
    <2>2. PreferredLength(s) = w
      BY <1>2, <1>3, <1>5, <1>6, <1>8, <2>1
    <2> QED
      BY <1>4, <1>8, <2>2
  <1>9. CASE ~(c > 0) /\ ~(w > 0) /\ d > 0
    <2>1. \A h \in 1 .. 3 - 1 : h = 1 \/ h = 2
      OBVIOUS
    <2>2. PreferredLength(s) = d
      BY <1>2, <1>3, <1>5, <1>6, <1>9, <2>1
    <2> QED
      BY <1>4, <1>9, <2>2
  <1>10. CASE ~(c > 0) /\ ~(w > 0) /\ ~(d > 0) /\ p > 0
    <2>1. \A h \in 1 .. 4 - 1 : h = 1 \/ h = 2 \/ h = 3
      OBVIOUS
    <2>2. PreferredLength(s) = p
      BY <1>2, <1>3, <1>5, <1>6, <1>10, <2>1
    <2> QED
      BY <1>4, <1>10, <2>2
  <1>11. CASE ~(c > 0) /\ ~(w > 0) /\ ~(d > 0) /\ ~(p > 0)
    <2>1. NextPiece(s) = IF WhiteSpace(s) > 0 THEN WhiteSpace(s) ELSE 1
      BY <1>4, <1>11
    <2>2. M(1) = {} /\ M(2) = {} /\ M(3) = {} /\ M(4) = {}
      BY <1>5, <1>11
    <2>3. CASE l > 0
      <3>1. \A h \in 1 .. 5 - 1 : h = 1 \/ h = 2 \/ h = 3 \/ h = 4
        OBVIOUS
      <3>2. PreferredLength(s) = l
        BY <1>1, <1>6, <2>2, <2>3, <3>1
      <3> QED
        BY <1>1, <2>1, <2>3, <3>2
    <2>4. CASE ~(l > 0) /\ m > 0
      <3>1. \A h \in 1 .. 6 - 1 : h = 1 \/ h = 2 \/ h = 3 \/ h = 4 \/ h = 5
        OBVIOUS
      <3>2. PreferredLength(s) = m
        BY <1>1, <1>5, <1>6, <2>2, <2>4, <3>1
      <3> QED
        BY <1>1, <2>1, <2>4, <3>2
    <2>5. CASE ~(l > 0) /\ ~(m > 0) /\ n > 0
      <3>1. \A h \in 1 .. 7 - 1 : h = 1 \/ h = 2 \/ h = 3 \/ h = 4 \/ h = 5 \/ h = 6
        OBVIOUS
      <3>2. PreferredLength(s) = n
        BY <1>1, <1>5, <1>6, <2>2, <2>5, <3>1
      <3> QED
        BY <1>1, <2>1, <2>5, <3>2
    <2>6. CASE ~(l > 0) /\ ~(m > 0) /\ ~(n > 0)
      <3>1. \A h \in 1 .. 7 : h = 1 \/ h = 2 \/ h = 3 \/ h = 4 \/ h = 5 \/ h = 6 \/ h = 7
        OBVIOUS
      <3>2. \A h \in 1 .. 7 : M(h) = {}
        <4> HIDE DEF M
        <4> QED
          BY <1>5, <2>2, <2>6, <3>1
      <3> QED
        BY <3>2, SomeMatch
    <2> QED
      BY <2>3, <2>4, <2>5, <2>6
  <1> QED
    BY <1>7, <1>8, <1>9, <1>10, <1>11

\* The piece at hand is what the scanner took of the rest.
ScannedPiece ==
  pc = "merge" => type = "bpe" /\ Rest # <<>> /\ Len(Last(pieces).str) = NextPiece(Rest)

LEMMA ScannedInvariant == TSpec => []ScannedPiece
  <1>1. TInit => ScannedPiece
    BY DEF TInit, ScannedPiece
  <1>2. BpeInv /\ ScannedPiece /\ [TNext]_<<type, pc, b, bpe, sp>> => ScannedPiece'
    <2> SUFFICES ASSUME BpeInv, ScannedPiece, [TNext]_<<type, pc, b, bpe, sp>>, pc' = "merge"
                 PROVE  type' = "bpe" /\ Rest' # <<>> /\ Len(Last(pieces').str) = NextPiece(Rest')
      BY DEF ScannedPiece
    <2>1. type' = type
      BY DEF TNext
    <2>2. CASE pc = "merge" /\ UNCHANGED <<text, i, pieces>>
      BY <2>1, <2>2 DEF ScannedPiece, Rest
    <2>3. CASE type = "bpe" /\ TakePiece
      <3> DEFINE piece == SubSeq(Rest, 1, NextPiece(Rest))
      <3>1. i < Len(text) /\ text' = text /\ i' = i /\ pieces' = Append(pieces, Ordinary(piece))
        BY <2>3 DEF TakePiece
      <3>2. text \in Seq(Byte) /\ i \in 0 .. Len(text) /\ pieces \in Seq(TextPart) /\ Len(text) \in Nat
        BY DEF BpeInv, BpeTypes
      <3>3. Rest \in Seq(Byte) /\ Len(Rest) = Len(text) - i
        <4>1. 0 \in 0 .. Len(text) - i
          BY <3>2
        <4> QED
          BY <3>2, <4>1, FrontOfRest DEF Rest
      <3>4. Rest # <<>>
        BY <3>1, <3>2, <3>3
      <3>5. piece \in Seq(Byte) /\ Len(piece) = NextPiece(Rest)
        BY <3>3, <3>4, PieceFits, PrefixIs
      <3>6. Ordinary(piece) \in TextPart /\ Ordinary(piece).str = piece
        BY <3>5 DEF Ordinary, TextPart
      <3>7. Last(pieces').str = piece
        <4> HIDE DEF piece
        <4> QED
          BY <3>1, <3>2, <3>6, FrontOfAppend
      <3>8. Rest' = Rest
        BY <3>1 DEF Rest
      <3> QED
        BY <2>1, <2>3, <3>4, <3>5, <3>7, <3>8
    <2>4. CASE type = "sp" /\ UNCHANGED bpe /\ Sp!SpNext
      <3>1. pc = "merge" /\ UNCHANGED <<text, i, pieces>>
        BY <2>4 DEF bpe, Sp!SpNext, Sp!LoadPiece, Sp!SpCall, Sp!TakeCharacter, Sp!AllTaken, Sp!Join, Sp!SpReturn
      <3> QED
        BY <2>2, <3>1
    <2>5. CASE type = "bpe" /\ Next
      BY <2>2, <2>3, <2>5 DEF Next, Call, TakeSpecial, Merge, Emit, Return, Ended, vars
    <2>6. CASE UNCHANGED <<pc, bpe>>
      BY <2>2, <2>6 DEF bpe
    <2> QED
      BY <2>4, <2>5, <2>6 DEF TNext, BuildByte, Built, Ended, vars, bpe
  <1> QED
    BY <1>1, <1>2, BpeInvariant, PTL DEF TSpec

\* At every place of every text, whatever the classes of bytes hold and whatever
\* the contractions are, the piece next_piece takes (tokenizer.c:258-309) is the
\* one the regular expression of its comments takes.
THEOREM PiecesAreTheExpressions == TSpec => []PiecesFollowExpression
  <1>1. BpeInv /\ ScannedPiece => PiecesFollowExpression
    <2> SUFFICES ASSUME BpeInv, ScannedPiece, pc = "merge"
                 PROVE  Len(Last(pieces).str) = PreferredLength(Rest)
      BY DEF PiecesFollowExpression
    <2>1. Rest \in Seq(Byte)
      <3>1. text \in Seq(Byte) /\ i \in 0 .. Len(text) /\ Len(text) \in Nat
        BY DEF BpeInv, BpeTypes
      <3>2. 0 \in 0 .. Len(text) - i
        BY <3>1
      <3> QED
        BY <3>1, <3>2, FrontOfRest DEF Rest
    <2>2. Rest # <<>> /\ Len(Last(pieces).str) = NextPiece(Rest)
      BY DEF ScannedPiece
    <2> QED
      BY <2>1, <2>2, PieceIsPreferred
  <1> QED
    BY <1>1, BpeInvariant, ScannedInvariant, PTL

-----------------------------------------------------------------------------
(* Special texts behind boundaries. *)

\* Where a piece ends: only there a mark follows a letter, a digit or a newline.
Open == Letters \cup Digits \cup Newlines

LEMMA ClassesApart ==
  /\ Letters \cap Marks = {} /\ Open \cap Marks = {} /\ Spaces \cap Marks = {}
  /\ Open \cap (Blanks \cup Marks) = {} /\ Space \notin Open
  <1>1. Letters \cap Marks = {} /\ Digits \cap Marks = {}
    BY ClassesAssumption
  <1>2. Blanks \cap Marks = {} /\ Newlines \cap Marks = {}
    BY ClassesAssumption
  <1>3. Letters \cap Blanks = {} /\ Digits \cap Blanks = {} /\ Newlines \cap Blanks = {}
    BY ClassesAssumption
  <1>4. Space \in Blanks
    BY ClassesAssumption
  <1> QED
    BY <1>1, <1>2, <1>3, <1>4 DEF Open, Spaces

\* Inside of a piece no mark follows a letter, a digit or a newline.
LEMMA NoMarkInside ==
  ASSUME NEW s \in Seq(Byte), s # <<>>, NEW k \in 1 .. NextPiece(s) - 1, s[k] \in Open
  PROVE  s[k + 1] \notin Marks
  <1>0. /\ Len(s) \in Nat \ {0} /\ NextPiece(s) \in 1 .. Len(s)
        /\ \A j \in 1 .. Len(s) : s[j] \in Byte
    BY PieceFits
  <1>1. k \in Nat /\ k + 1 \in 1 .. Len(s) /\ k \in 1 .. Len(s) /\ k >= 1
    BY <1>0
  <1>2. CASE Contraction(s) > 0
    <2>1. PICK c \in Contractions : s[1] = Quote /\ IsPrefix(c, Tail(s)) /\ Contraction(s) = 1 + Len(c)
      <3> DEFINE found == {c \in Contractions : s[1] = Quote /\ IsPrefix(c, Tail(s))}
      <3>1. found # {}
        BY <1>2 DEF Contraction
      <3>2. (CHOOSE c \in found : TRUE) \in found
        BY <3>1
      <3>3. Contraction(s) = 1 + Len(CHOOSE c \in found : TRUE)
        BY <3>1 DEF Contraction
      <3> HIDE DEF found
      <3>4. PICK c \in found : Contraction(s) = 1 + Len(c)
        BY <3>2, <3>3
      <3> QED
        BY <3>4 DEF found
    <2>2. NextPiece(s) = 1 + Len(c) /\ c \in Seq(Letters) /\ Len(c) \in Nat
      BY <1>2, <2>1, NextPieceIs, ClassesAssumption
    <2>3. k \in 1 .. Len(c)
      BY <1>1, <2>2
    <2>4. Len(c) <= Len(Tail(s)) /\ SubSeq(c, 1, Len(c)) = SubSeq(Tail(s), 1, Len(c))
      BY <2>1 DEF IsPrefix
    <2>5. Tail(s) \in Seq(Byte) /\ Tail(s)[k] = s[k + 1] /\ Len(Tail(s)) = Len(s) - 1
      BY <1>0, <2>2, <2>3, <2>4
    <2>6. SubSeq(c, 1, Len(c)) = c
      BY <2>2, SubSeqFull
    <2>7. SubSeq(Tail(s), 1, Len(c))[k] = Tail(s)[k]
      <3>1. Len(c) \in 1 .. Len(Tail(s))
        BY <2>2, <2>3, <2>4
      <3> QED
        BY <2>3, <2>5, <3>1, PrefixIs
    <2>8. c[k] \in Letters /\ c[k] = s[k + 1]
      BY <2>2, <2>3, <2>4, <2>5, <2>6, <2>7
    <2> QED
      BY <2>8, ClassesApart
  <1>3. CASE ~(Contraction(s) > 0) /\ Word(s) > 0
    <2> DEFINE h == IF s[1] \in Blanks \cup Marks /\ Len(s) >= 2 /\ s[2] \in Letters THEN 1 ELSE 0
    <2>1. NextPiece(s) = Word(s)
      BY <1>3, NextPieceIs
    <2>2. s[h + 1] \in Letters /\ Word(s) = h + Run(s, h + 1, Letters)
      BY <1>3 DEF Word
    <2>3. h \in {0, 1} /\ h + 1 \in 1 .. Len(s) + 1 /\ (h = 1 => s[1] \in Blanks \cup Marks)
      BY <1>0
    <2> HIDE DEF h
    <2>4. /\ Run(s, h + 1, Letters) \in 0 .. Len(s) - (h + 1) + 1
          /\ \A q \in h + 1 .. (h + 1) + Run(s, h + 1, Letters) - 1 : s[q] \in Letters
      BY <2>3, RunSpans
    <2>5. k + 1 \in h + 1 .. (h + 1) + Run(s, h + 1, Letters) - 1
      BY <1>0, <1>1, <2>1, <2>2, <2>3, <2>4
    <2> QED
      BY <2>4, <2>5, ClassesApart
  <1>4. CASE ~(Contraction(s) > 0) /\ ~(Word(s) > 0) /\ Digit(s) > 0
    <2>1. NextPiece(s) = Digit(s) /\ Digit(s) \in {0, 1}
      BY <1>4, NextPieceIs DEF Digit
    <2> QED
      BY <1>0, <1>1, <2>1
  <1>5. CASE ~(Contraction(s) > 0) /\ ~(Word(s) > 0) /\ ~(Digit(s) > 0) /\ Punctuation(s) > 0
    <2> DEFINE h == IF s[1] = Space THEN 1 ELSE 0
               r == Run(s, h + 1, Marks)
               t == Run(s, h + r + 1, Newlines)
    <2>1. NextPiece(s) = Punctuation(s)
      BY <1>5, NextPieceIs
    <2>2. h < Len(s) /\ Punctuation(s) = h + r + t
      BY <1>5 DEF Punctuation
    <2>3. h \in {0, 1} /\ h + 1 \in 1 .. Len(s) + 1 /\ (h = 1 => s[1] = Space)
      BY <1>0
    <2> HIDE DEF h
    <2>4. /\ r \in 0 .. Len(s) - (h + 1) + 1
          /\ \A q \in h + 1 .. (h + 1) + r - 1 : s[q] \in Marks
      BY <2>3, RunSpans
    <2> HIDE DEF r
    <2>5. h + r + 1 \in 1 .. Len(s) + 1
      BY <1>0, <2>3, <2>4
    <2>6. /\ t \in 0 .. Len(s) - (h + r + 1) + 1
          /\ \A q \in h + r + 1 .. (h + r + 1) + t - 1 : s[q] \in Newlines
      BY <2>5, RunSpans
    <2> HIDE DEF t
    <2>7. k >= h + r + 1
      <3>1. CASE k = 1 /\ h = 1
        BY <2>3, <3>1, ClassesApart
      <3>2. CASE k \in h + 1 .. (h + 1) + r - 1
        BY <2>4, <3>2, ClassesApart
      <3> QED
        BY <1>0, <1>1, <2>3, <2>4, <3>1, <3>2
    <2>8. k + 1 \in h + r + 1 .. (h + r + 1) + t - 1
      BY <1>0, <1>1, <2>1, <2>2, <2>3, <2>4, <2>6, <2>7
    <2>9. s[k + 1] \in Open
      BY <2>6, <2>8 DEF Open
    <2> QED
      BY <2>9, ClassesApart
  <1>6. CASE /\ ~(Contraction(s) > 0) /\ ~(Word(s) > 0) /\ ~(Digit(s) > 0) /\ ~(Punctuation(s) > 0)
             /\ WhiteSpace(s) > 0
    <2> DEFINE j == Run(s, 1, Spaces)
    <2>1. NextPiece(s) = WhiteSpace(s)
      BY <1>6, NextPieceIs
    <2>2. /\ j \in 0 .. Len(s) - 1 + 1
          /\ \A q \in 1 .. 1 + j - 1 : s[q] \in Spaces
      BY <1>0, RunSpans
    <2>3. WhiteSpace(s) <= j
      <3> DEFINE newlines == {q \in 1 .. j : s[q] \in Newlines}
      <3>1. CASE newlines # {}
        <4>1. WhiteSpace(s) = Max(newlines)
          BY <3>1 DEF WhiteSpace
        <4>2. newlines \in SUBSET (0 .. j) /\ j \in Nat
          BY <2>2
        <4> HIDE DEF newlines, j
        <4>3. Max(newlines) \in 0 .. j
          BY <3>1, <4>2, MaxIs
        <4> QED
          BY <4>1, <4>2, <4>3
      <3>2. CASE newlines = {}
        <4>1. WhiteSpace(s) = IF j = Len(s) \/ j <= 1 THEN j ELSE j - 1
          BY <3>2 DEF WhiteSpace
        <4> HIDE DEF newlines, j
        <4> QED
          BY <1>0, <2>2, <4>1
      <3> QED
        BY <3>1, <3>2
    <2> HIDE DEF j
    <2>4. k + 1 \in 1 .. 1 + j - 1
      BY <1>0, <1>1, <2>1, <2>2, <2>3
    <2> QED
      BY <2>2, <2>4, ClassesApart
  <1>7. CASE /\ ~(Contraction(s) > 0) /\ ~(Word(s) > 0) /\ ~(Digit(s) > 0) /\ ~(Punctuation(s) > 0)
             /\ ~(WhiteSpace(s) > 0)
    <2>1. NextPiece(s) = 1
      BY <1>7, NextPieceIs
    <2> QED
      BY <1>1, <2>1
  <1> QED
    BY <1>2, <1>3, <1>4, <1>5, <1>6, <1>7

\* The special s was taken among ps, at position p of the text they make.
StandsAt(ps, s, p) ==
  \E k \in DOMAIN ps : ps[k] = Special(s) /\ Len(FlattenSeq(Strings(SubSeq(ps, 1, k - 1)))) = p - 1

\* Where pieces end.
Ends(ps) == Len(FlattenSeq(Strings(ps)))

LEMMA EndsMore ==
  ASSUME NEW ps \in Seq(TextPart), NEW q \in TextPart
  PROVE  /\ Append(ps, q) \in Seq(TextPart)
         /\ Ends(ps) \in Nat /\ Ends(Append(ps, q)) = Ends(ps) + Len(q.str)
  <1>1. FlattenSeq(Strings(Append(ps, q))) = FlattenSeq(Strings(ps)) \o q.str
    BY OneMorePiece
  <1>2. Strings(ps) \in Seq(Seq(Byte))
    BY PiecesAre
  <1>3. FlattenSeq(Strings(ps)) \in Seq(Byte) /\ q.str \in Seq(Byte)
    BY <1>2, FlattenIsSeq DEF TextPart
  <1> QED
    BY <1>1, <1>3 DEF Ends

\* The first n of pieces.
LEMMA FirstPieces ==
  ASSUME NEW ps \in Seq(TextPart), NEW q \in TextPart, NEW n \in 0 .. Len(ps)
  PROVE  /\ SubSeq(ps, 1, n) \in Seq(TextPart)
         /\ SubSeq(Append(ps, q), 1, n) = SubSeq(ps, 1, n)
         /\ SubSeq(ps, 1, Len(ps)) = ps
         /\ n < Len(ps) => SubSeq(ps, 1, n + 1) = Append(SubSeq(ps, 1, n), ps[n + 1])
  <1> DEFINE qs == Append(ps, q)
             f == SubSeq(ps, 1, n)
             g == SubSeq(qs, 1, n)
             h == SubSeq(ps, 1, n + 1)
  <1>0. /\ Len(ps) \in Nat /\ n \in Nat /\ \A k \in 1 .. Len(ps) : ps[k] \in TextPart
        /\ qs \in Seq(TextPart) /\ \A k \in 1 .. Len(ps) : qs[k] = ps[k]
    BY AppendProperties
  <1> HIDE DEF qs
  <1>1. f \in Seq(TextPart) /\ Len(f) = n /\ \A k \in 1 .. n : f[k] = ps[k]
    <2>1. \A k \in 1 .. n : ps[k] \in TextPart
      BY <1>0
    <2>2. /\ f \in Seq(TextPart) /\ Len(f) = IF 1 <= n THEN n - 1 + 1 ELSE 0
          /\ \A k \in 1 .. n - 1 + 1 : f[k] = ps[1 + k - 1]
      BY <2>1, SubSeqProperties
    <2> QED
      BY <1>0, <2>2
  <1>2. g \in Seq(TextPart) /\ Len(g) = n /\ \A k \in 1 .. n : g[k] = qs[k]
    <2>1. \A k \in 1 .. n : qs[k] \in TextPart
      BY <1>0
    <2>2. /\ g \in Seq(TextPart) /\ Len(g) = IF 1 <= n THEN n - 1 + 1 ELSE 0
          /\ \A k \in 1 .. n - 1 + 1 : g[k] = qs[1 + k - 1]
      BY <2>1, SubSeqProperties
    <2> QED
      BY <1>0, <2>2
  <1>3. g = f
    <2>1. \A k \in 1 .. n : g[k] = f[k]
      BY <1>0, <1>1, <1>2
    <2> HIDE DEF f, g
    <2> QED
      BY <1>1, <1>2, <2>1, SeqEqual
  <1>4. SubSeq(ps, 1, Len(ps)) = ps
    BY SubSeqFull
  <1>5. ASSUME n < Len(ps) PROVE h = Append(f, ps[n + 1])
    <2> DEFINE a == Append(f, ps[n + 1])
    <2>1. n + 1 \in 1 .. Len(ps) /\ ps[n + 1] \in TextPart
      BY <1>0, <1>5
    <2>2. h \in Seq(TextPart) /\ Len(h) = n + 1 /\ \A k \in 1 .. n + 1 : h[k] = ps[k]
      <3>1. \A k \in 1 .. n + 1 : ps[k] \in TextPart
        BY <1>0, <2>1
      <3>2. /\ h \in Seq(TextPart) /\ Len(h) = IF 1 <= n + 1 THEN (n + 1) - 1 + 1 ELSE 0
            /\ \A k \in 1 .. (n + 1) - 1 + 1 : h[k] = ps[1 + k - 1]
        BY <3>1, SubSeqProperties
      <3> HIDE DEF h
      <3>3. (n + 1) - 1 + 1 = n + 1 /\ 1 <= n + 1 /\ \A k \in 1 .. n + 1 : 1 + k - 1 = k
        BY <1>0
      <3> QED
        BY <3>2, <3>3
    <2> HIDE DEF f
    <2>3. a \in Seq(TextPart) /\ Len(a) = n + 1 /\ a[n + 1] = ps[n + 1] /\ \A k \in 1 .. n : a[k] = f[k]
      BY <1>1, <2>1, AppendProperties
    <2> HIDE DEF a, h
    <2>4. \A k \in 1 .. n + 1 : h[k] = a[k]
      <3> SUFFICES ASSUME NEW k \in 1 .. n + 1 PROVE h[k] = a[k]
        OBVIOUS
      <3>1. k \in 1 .. n \/ k = n + 1
        BY <1>0
      <3> QED
        BY <1>1, <2>2, <2>3, <3>1
    <2>5. h = a
      BY <2>2, <2>3, <2>4, SeqEqual
    <2> QED
      BY <2>5 DEF a
  <1> QED
    BY <1>1, <1>3, <1>4, <1>5 DEF f, g, h, qs

LEMMA TakenMore ==
  ASSUME NEW ps \in Seq(TextPart), NEW q \in TextPart, NEW s, NEW p \in Int
  PROVE  StandsAt(Append(ps, q), s, p) <=> StandsAt(ps, s, p) \/ (q = Special(s) /\ p = Ends(ps) + 1)
  <1> DEFINE qs == Append(ps, q)
             n == Len(ps)
             At(rs, k) == rs[k] = Special(s) /\ Len(FlattenSeq(Strings(SubSeq(rs, 1, k - 1)))) = p - 1
  <1>0. /\ n \in Nat /\ qs \in Seq(TextPart) /\ Len(qs) = n + 1 /\ qs[n + 1] = q
        /\ \A k \in 1 .. n : qs[k] = ps[k]
    BY AppendProperties
  <1>1. ASSUME NEW k \in 1 .. n PROVE At(qs, k) <=> At(ps, k)
    <2>1. k - 1 \in 0 .. n
      BY <1>0
    <2>2. SubSeq(qs, 1, k - 1) = SubSeq(ps, 1, k - 1)
      BY <2>1, FirstPieces
    <2> QED
      BY <1>0, <2>2
  <1>2. At(qs, n + 1) <=> q = Special(s) /\ p = Ends(ps) + 1
    <2>1. (n + 1) - 1 = n /\ n \in 0 .. n
      BY <1>0
    <2>2. SubSeq(qs, 1, n) = ps
      BY <2>1, FirstPieces
    <2>3. SubSeq(qs, 1, (n + 1) - 1) = ps
      BY <2>1, <2>2
    <2>4. Ends(ps) \in Nat
      BY EndsMore
    <2>5. Len(FlattenSeq(Strings(SubSeq(qs, 1, (n + 1) - 1)))) = Ends(ps)
      BY <2>3 DEF Ends
    <2>6. Ends(ps) = p - 1 <=> p = Ends(ps) + 1
      BY <2>4
    <2> HIDE DEF qs
    <2> QED
      BY <1>0, <2>5, <2>6
  <1>3. DOMAIN ps = 1 .. n /\ DOMAIN qs = 1 .. n + 1
    BY <1>0
  <1>4. StandsAt(ps, s, p) <=> \E k \in 1 .. n : At(ps, k)
    BY <1>3 DEF StandsAt
  <1>5. StandsAt(qs, s, p) <=> \E k \in 1 .. n + 1 : At(qs, k)
    BY <1>3 DEF StandsAt
  <1>6. \A k : k \in 1 .. n + 1 <=> k \in 1 .. n \/ k = n + 1
    BY <1>0
  <1> HIDE DEF At, qs
  <1>7. (\E k \in 1 .. n + 1 : At(qs, k)) <=> (\E k \in 1 .. n : At(qs, k)) \/ At(qs, n + 1)
    BY <1>6
  <1>8. (\E k \in 1 .. n : At(qs, k)) <=> \E k \in 1 .. n : At(ps, k)
    BY <1>1
  <1>9. StandsAt(qs, s, p) <=> StandsAt(ps, s, p) \/ (q = Special(s) /\ p = Ends(ps) + 1)
    BY <1>2, <1>4, <1>5, <1>7, <1>8
  <1> QED
    BY <1>9 DEF qs

\* What was taken ends where pieces end, or before.
LEMMA TakenFits ==
  ASSUME NEW ps \in Seq(TextPart), NEW s \in Seq(Byte), NEW p \in Int, StandsAt(ps, s, p)
  PROVE  p >= 1 /\ p + Len(s) <= Ends(ps) + 1
  <1> DEFINE n == Len(ps)
             E(k) == Ends(SubSeq(ps, 1, k))
  <1>0. n \in Nat /\ DOMAIN ps = 1 .. n /\ \A k \in 1 .. n : ps[k] \in TextPart
    OBVIOUS
  <1>1. \A k \in 0 .. n : SubSeq(ps, 1, k) \in Seq(TextPart) /\ E(k) \in Nat
    <2> SUFFICES ASSUME NEW k \in 0 .. n PROVE SubSeq(ps, 1, k) \in Seq(TextPart) /\ E(k) \in Nat
      OBVIOUS
    <2>1. Bos \in TextPart
      BY DEF Bos, Special, TextPart
    <2>2. SubSeq(ps, 1, k) \in Seq(TextPart)
      BY <2>1, FirstPieces
    <2> QED
      BY <2>1, <2>2, EndsMore
  <1>2. ASSUME NEW k \in 0 .. n - 1 PROVE E(k + 1) = E(k) + Len(ps[k + 1].str)
    <2>1. k \in 0 .. n /\ k < n /\ k + 1 \in 1 .. n
      BY <1>0
    <2>2. ps[k + 1] \in TextPart
      BY <1>0, <2>1
    <2>3. SubSeq(ps, 1, k + 1) = Append(SubSeq(ps, 1, k), ps[k + 1]) /\ SubSeq(ps, 1, k) \in Seq(TextPart)
      BY <2>1, <2>2, FirstPieces
    <2> QED
      BY <2>2, <2>3, EndsMore
  <1>3. E(n) = Ends(ps)
    <2>1. SubSeq(ps, 1, n) = ps
      BY SubSeqFull
    <2> QED
      BY <2>1
  <1>4. \A k \in 1 .. n : ps[k].str \in Seq(Byte) /\ Len(ps[k].str) \in Nat
    <2>1. \A q \in TextPart : q.str \in Seq(Byte) /\ Len(q.str) \in Nat
      BY DEF TextPart
    <2> QED
      BY <1>0, <2>1
  <1>5. PICK k \in 1 .. n : ps[k] = Special(s) /\ E(k - 1) = p - 1
    BY <1>0 DEF StandsAt, Ends
  <1> HIDE DEF E
  <1>6. k - 1 \in 0 .. n - 1 /\ (k - 1) + 1 = k /\ k \in 0 .. n
    BY <1>0
  <1>7. E(k) = (p - 1) + Len(s)
    <2>1. E((k - 1) + 1) = E(k - 1) + Len(ps[(k - 1) + 1].str)
      BY <1>2, <1>6
    <2>2. ps[k].str = s
      BY <1>5 DEF Special
    <2> QED
      BY <1>5, <1>6, <2>1, <2>2
  <1>8. E(k) <= E(n)
    <2> DEFINE S == {j \in Nat : k + j <= n => E(k) <= E(k + j)}
    <2>1. 0 \in S
      <3>1. E(k + 0) = E(k) /\ E(k) \in Nat
        BY <1>1, <1>6
      <3> QED
        BY <3>1
    <2>2. ASSUME NEW j \in S PROVE j + 1 \in S
      <3>1. j \in Nat /\ (k + j <= n => E(k) <= E(k + j))
        BY <2>2
      <3>2. CASE k + (j + 1) <= n
        <4>1. k + j \in 0 .. n - 1 /\ (k + j) + 1 = k + (j + 1) /\ k + j <= n /\ k + j \in 0 .. n
              /\ k + (j + 1) \in 1 .. n
          BY <1>0, <1>6, <3>1, <3>2
        <4>2. E((k + j) + 1) = E(k + j) + Len(ps[(k + j) + 1].str)
          BY <1>2, <4>1
        <4>3. Len(ps[k + (j + 1)].str) \in Nat /\ E(k + j) \in Nat /\ E(k) \in Nat
          BY <1>1, <1>4, <1>6, <4>1
        <4>4. E(k) <= E(k + (j + 1))
          BY <3>1, <4>1, <4>2, <4>3
        <4> QED
          BY <3>1, <4>4
      <3> QED
        BY <3>1, <3>2
    <2> HIDE DEF S
    <2>3. S = Nat
      <3>1. S \in SUBSET Nat
        BY DEF S
      <3> QED
        BY <2>1, <2>2, <3>1, SetInduction
    <2>4. n - k \in S /\ k + (n - k) = n
      BY <1>0, <1>6, <2>3
    <2> QED
      BY <1>0, <2>4 DEF S
  <1>9. E(k - 1) \in Nat /\ E(n) \in Nat /\ Len(s) \in Nat
    <2>1. k - 1 \in 0 .. n /\ n \in 0 .. n
      BY <1>0, <1>6
    <2> QED
      BY <1>1, <2>1
  <1> QED
    BY <1>3, <1>5, <1>7, <1>8, <1>9

LEMMA SpecialsAre ==
  ASSUME NEW m \in DOMAIN Specials
  PROVE  /\ Specials[m] \in Seq(Byte) /\ Len(Specials[m]) \in Nat \ {0}
         /\ Specials[m] = <<>> => FALSE
         /\ Specials[m][1] \in Marks /\ m \in Nat
  <1>1. Specials[m] \in Seq(Byte) \ {<<>>} /\ m \in Nat
    BY VocabularyAssumption
  <1>2. Len(Specials[m]) \in Nat /\ Len(Specials[m]) # 0
    BY <1>1
  <1> QED
    BY <1>1, <1>2, SpecialsAssumption

\* Of two texts that begin a third the shorter begins the longer.
LEMMA PrefixesNest ==
  ASSUME NEW r \in Seq(Byte), NEW s \in Seq(Byte), NEW t \in Seq(Byte),
         IsPrefix(s, r), IsPrefix(t, r), Len(s) >= 1, Len(s) <= Len(t)
  PROVE  IsPrefix(s, t)
  <1>1. /\ Len(s) \in Nat /\ Len(t) \in Nat /\ Len(r) \in Nat
        /\ Len(s) <= Len(r) /\ SubSeq(s, 1, Len(s)) = SubSeq(r, 1, Len(s))
        /\ Len(t) <= Len(r) /\ SubSeq(t, 1, Len(t)) = SubSeq(r, 1, Len(t))
    BY DEF IsPrefix
  <1>2. Len(s) \in 1 .. Len(r) /\ Len(t) \in 1 .. Len(r) /\ Len(s) \in 1 .. Len(t)
    BY <1>1
  <1>3. /\ SubSeq(r, 1, Len(s)) \in Seq(Byte) /\ Len(SubSeq(r, 1, Len(s))) = Len(s)
        /\ \A k \in 1 .. Len(s) : SubSeq(r, 1, Len(s))[k] = r[k]
    BY <1>2, PrefixIs
  <1>4. \A k \in 1 .. Len(t) : SubSeq(r, 1, Len(t))[k] = r[k]
    BY <1>2, PrefixIs
  <1>5. /\ SubSeq(t, 1, Len(s)) \in Seq(Byte) /\ Len(SubSeq(t, 1, Len(s))) = Len(s)
        /\ \A k \in 1 .. Len(s) : SubSeq(t, 1, Len(s))[k] = t[k]
    BY <1>2, PrefixIs
  <1>6. SubSeq(t, 1, Len(t)) = t
    BY SubSeqFull
  <1>7. \A k \in 1 .. Len(s) : SubSeq(t, 1, Len(s))[k] = SubSeq(r, 1, Len(s))[k]
    <2> SUFFICES ASSUME NEW k \in 1 .. Len(s)
                 PROVE  SubSeq(t, 1, Len(s))[k] = SubSeq(r, 1, Len(s))[k]
      OBVIOUS
    <2>1. k \in 1 .. Len(t)
      BY <1>1
    <2> QED
      BY <1>1, <1>3, <1>4, <1>5, <1>6, <2>1
  <1>8. SubSeq(t, 1, Len(s)) = SubSeq(r, 1, Len(s))
    BY <1>3, <1>5, <1>7, SeqEqual
  <1> QED
    BY <1>1, <1>8 DEF IsPrefix

\* What is left of the text.
LEMMA RestIs ==
  ASSUME text \in Seq(Byte), i \in 0 .. Len(text)
  PROVE  /\ Rest \in Seq(Byte) /\ Len(Rest) = Len(text) - i /\ Len(text) \in Nat
         /\ \A k \in 1 .. Len(text) - i : Rest[k] = text[i + k]
  <1>0. Len(text) \in Nat /\ i \in Nat /\ \A k \in 1 .. Len(text) : text[k] \in Byte
    OBVIOUS
  <1>1. \A k \in i + 1 .. Len(text) : text[k] \in Byte
    BY <1>0
  <1>2. /\ Rest \in Seq(Byte)
        /\ Len(Rest) = IF i + 1 <= Len(text) THEN Len(text) - (i + 1) + 1 ELSE 0
        /\ \A k \in 1 .. Len(text) - (i + 1) + 1 : Rest[k] = text[(i + 1) + k - 1]
    BY <1>0, <1>1, SubSeqProperties DEF Rest
  <1>3. Len(text) - (i + 1) + 1 = Len(text) - i /\ \A k \in Int : (i + 1) + k - 1 = i + k
    BY <1>0
  <1>4. Len(Rest) = Len(text) - i
    BY <1>0, <1>2
  <1>5. ASSUME NEW k \in 1 .. Len(text) - i PROVE Rest[k] = text[i + k]
    <2>1. k \in Int /\ Rest[k] = text[(i + 1) + k - 1]
      BY <1>2, <1>3
    <2> QED
      BY <1>3, <2>1
  <1> QED
    BY <1>0, <1>2, <1>4, <1>5

\* s is at the head of the rest exactly when it occurs there.
LEMMA OccursHere ==
  ASSUME text \in Seq(Byte), i \in 0 .. Len(text), NEW s \in Seq(Byte)
  PROVE  /\ OccursAt(s, i + 1) <=> IsPrefix(s, Rest)
         /\ IsPrefix(s, Rest) => /\ i + Len(s) <= Len(text)
                                 /\ \A k \in 1 .. Len(s) : text[i + k] = s[k]
  <1> DEFINE n == Len(s)
  <1>0. /\ Rest \in Seq(Byte) /\ Len(Rest) = Len(text) - i /\ Len(text) \in Nat /\ n \in Nat
        /\ \A k \in 1 .. Len(text) - i : Rest[k] = text[i + k]
    BY RestIs
  <1>1. SubSeq(s, 1, n) = s
    BY SubSeqFull
  <1>2. (i + 1) + n - 1 = i + n
    BY <1>0
  <1>3. ASSUME n <= Len(text) - i PROVE SubSeq(Rest, 1, n) = SubSeq(text, i + 1, i + n)
    <2>1. n \in 0 .. Len(text) - i
      BY <1>0, <1>3
    <2> QED
      BY <2>1, FrontOfRest DEF Rest
  <1>4. OccursAt(s, i + 1) <=> i + n <= Len(text) /\ SubSeq(text, i + 1, i + n) = s
    BY <1>2 DEF OccursAt
  <1>5. IsPrefix(s, Rest) <=> n <= Len(text) - i /\ s = SubSeq(Rest, 1, n)
    BY <1>0, <1>1 DEF IsPrefix
  <1>6. n <= Len(text) - i <=> i + n <= Len(text)
    BY <1>0
  <1>7. ASSUME IsPrefix(s, Rest), NEW k \in 1 .. n PROVE text[i + k] = s[k]
    <2>1. n \in 1 .. Len(Rest) /\ k \in 1 .. Len(text) - i
      BY <1>0, <1>5, <1>7
    <2>2. SubSeq(Rest, 1, n)[k] = Rest[k]
      BY <1>0, <2>1, PrefixIs
    <2> QED
      BY <1>0, <1>5, <1>7, <2>1, <2>2
  <1> HIDE DEF n
  <1>8. OccursAt(s, i + 1) <=> IsPrefix(s, Rest)
    BY <1>3, <1>4, <1>5, <1>6
  <1>9. IsPrefix(s, Rest) => i + n <= Len(text) /\ \A k \in 1 .. n : text[i + k] = s[k]
    BY <1>5, <1>6, <1>7
  <1> QED
    BY <1>8, <1>9 DEF n

\* What occurs somewhere has its first byte there.
LEMMA OccursFirst ==
  ASSUME text \in Seq(Byte), NEW s \in Seq(Byte), Len(s) >= 1, NEW p \in 1 .. Len(text), OccursAt(s, p)
  PROVE  text[p] = s[1]
  <1> DEFINE u == SubSeq(text, p, p + Len(s) - 1)
  <1>0. Len(s) \in Nat /\ Len(text) \in Nat /\ p \in Nat /\ \A k \in 1 .. Len(text) : text[k] \in Byte
    OBVIOUS
  <1>1. u = s /\ p + Len(s) - 1 <= Len(text)
    BY DEF OccursAt
  <1>2. \A k \in p .. p + Len(s) - 1 : text[k] \in Byte
    BY <1>0, <1>1
  <1>3. p + Len(s) - 1 \in Int
    BY <1>0
  <1>4. \A k \in 1 .. (p + Len(s) - 1) - p + 1 : u[k] = text[p + k - 1]
    BY <1>0, <1>2, <1>3, SubSeqProperties
  <1>5. 1 \in 1 .. (p + Len(s) - 1) - p + 1 /\ p + 1 - 1 = p
    BY <1>0
  <1> HIDE DEF u
  <1> QED
    BY <1>1, <1>4, <1>5

\* Every special text behind a boundary was taken, up to j.
Behind(ps, p) ==
  \/ p = 1
  \/ text[p - 1] \in Open
  \/ \E n \in DOMAIN Specials : StandsAt(ps, Specials[n], p - Len(Specials[n]))

AllTaken(ps, j) ==
  \A m \in DOMAIN Specials, p \in 1 .. j :
     OccursAt(Specials[m], p) /\ Behind(ps, p) => StandsAt(ps, Specials[m], p)

LEMMA SpecialTaken ==
  ASSUME text \in Seq(Byte), i \in 0 .. Len(text),
         NEW ps \in Seq(TextPart), Ends(ps) = i, AllTaken(ps, i),
         NEW m \in DOMAIN Specials, IsPrefix(Specials[m], Rest)
  PROVE  AllTaken(Append(ps, Special(Specials[m])), i + Len(Specials[m]))
  <1> DEFINE s == Specials[m]
             q == Special(s)
             qs == Append(ps, q)
  <1>0. /\ i \in Nat /\ Len(text) \in Nat /\ s \in Seq(Byte) /\ Len(s) \in Nat \ {0}
        /\ q \in TextPart
    BY SpecialsAre DEF Special, TextPart
  <1>1. i + Len(s) <= Len(text) /\ \A k \in 1 .. Len(s) : text[i + k] = s[k]
    BY <1>0, OccursHere
  <1>2. \A t : \A p \in Int : StandsAt(qs, t, p) <=> StandsAt(ps, t, p) \/ (q = Special(t) /\ p = i + 1)
    BY <1>0, TakenMore
  <1> SUFFICES ASSUME NEW a \in DOMAIN Specials, NEW p \in 1 .. i + Len(s),
                      OccursAt(Specials[a], p), Behind(qs, p)
               PROVE  StandsAt(qs, Specials[a], p)
    BY DEF AllTaken
  <1>3. p \in Int /\ Specials[a] \in Seq(Byte) /\ Len(Specials[a]) \in Nat \ {0} /\ p \in 1 .. Len(text)
    BY <1>0, <1>1, SpecialsAre
  <1> HIDE DEF qs
  <1>4. CASE p <= i
    <2>1. Behind(ps, p)
      <3>1. ASSUME NEW n \in DOMAIN Specials, StandsAt(qs, Specials[n], p - Len(Specials[n]))
            PROVE  StandsAt(ps, Specials[n], p - Len(Specials[n]))
        <4>1. Len(Specials[n]) \in Nat
          BY SpecialsAre
        <4>2. p - Len(Specials[n]) \in Int /\ p - Len(Specials[n]) # i + 1
          BY <1>0, <1>3, <1>4, <4>1
        <4> QED
          BY <1>2, <3>1, <4>2
      <3> QED
        BY <3>1 DEF Behind
    <2>2. p \in 1 .. i
      BY <1>3, <1>4
    <2>3. StandsAt(ps, Specials[a], p)
      BY <2>1, <2>2 DEF AllTaken
    <2> QED
      BY <1>2, <1>3, <2>3
  <1>5. CASE p = i + 1
    <2>1. IsPrefix(Specials[a], Rest)
      BY <1>3, <1>5, OccursHere
    <2>2. Rest \in Seq(Byte)
      BY RestIs
    <2>3. Specials[a] = s
      <3>1. CASE Len(s) <= Len(Specials[a])
        <4>1. IsPrefix(s, Specials[a])
          BY <1>0, <1>3, <2>1, <2>2, <3>1, PrefixesNest
        <4> QED
          BY <4>1, SpecialsAssumption
      <3>2. CASE Len(Specials[a]) <= Len(s)
        <4>1. IsPrefix(Specials[a], s)
          BY <1>0, <1>3, <2>1, <2>2, <3>2, PrefixesNest
        <4> QED
          BY <4>1, SpecialsAssumption
      <3> QED
        BY <1>0, <1>3, <3>1, <3>2
    <2> QED
      BY <1>2, <1>3, <1>5, <2>3
  <1>6. CASE p > i + 1
    <2>1. p - i \in 2 .. Len(s) /\ p - i \in 1 .. Len(s) /\ i + (p - i) = p
      BY <1>0, <1>3, <1>6
    <2>2. text[p] = s[p - i]
      BY <1>1, <2>1
    <2>3. text[p] = Specials[a][1]
      BY <1>3, OccursFirst
    <2>4. s[p - i] # Specials[a][1]
      BY <2>1, SpecialsAssumption
    <2> QED
      BY <2>2, <2>3, <2>4
  <1> QED
    BY <1>0, <1>3, <1>4, <1>5, <1>6

LEMMA PieceTaken ==
  ASSUME text \in Seq(Byte), i \in 0 .. Len(text), i < Len(text),
         NEW ps \in Seq(TextPart), Ends(ps) = i, AllTaken(ps, i), MatchSpecial(Rest) = {},
         NEW q \in TextPart, ~q.special, Len(q.str) = NextPiece(Rest)
  PROVE  AllTaken(Append(ps, q), i + Len(q.str))
  <1> DEFINE n == NextPiece(Rest)
             qs == Append(ps, q)
  <1>0. /\ Rest \in Seq(Byte) /\ Len(Rest) = Len(text) - i /\ Len(text) \in Nat
        /\ \A k \in 1 .. Len(text) - i : Rest[k] = text[i + k]
    BY RestIs
  <1>1. Rest # <<>> /\ n \in 1 .. Len(Rest)
    <2>1. Rest # <<>>
      BY <1>0
    <2> QED
      BY <1>0, <2>1, PieceFits
  <1>2. \A t : \A p \in Int : StandsAt(qs, t, p) <=> StandsAt(ps, t, p)
    <2>1. \A t : q # Special(t)
      BY DEF Special
    <2> QED
      BY <2>1, TakenMore
  <1> SUFFICES ASSUME NEW a \in DOMAIN Specials, NEW p \in 1 .. i + n,
                      OccursAt(Specials[a], p), Behind(qs, p)
               PROVE  StandsAt(qs, Specials[a], p)
    BY DEF AllTaken
  <1>3. /\ p \in Int /\ Specials[a] \in Seq(Byte) /\ Len(Specials[a]) \in Nat \ {0}
        /\ Specials[a][1] \in Marks /\ n \in Nat /\ i \in Nat
    BY <1>1, SpecialsAre
  <1>4. Behind(ps, p)
    <2>1. ASSUME NEW m \in DOMAIN Specials, StandsAt(qs, Specials[m], p - Len(Specials[m]))
          PROVE  StandsAt(ps, Specials[m], p - Len(Specials[m]))
      <3>1. p - Len(Specials[m]) \in Int
        BY <1>3, SpecialsAre
      <3> QED
        BY <1>2, <2>1, <3>1
    <2> QED
      BY <2>1 DEF Behind
  <1> HIDE DEF n, qs
  <1>5. CASE p <= i
    <2>1. p \in 1 .. i
      BY <1>3, <1>5
    <2>2. StandsAt(ps, Specials[a], p)
      BY <1>4, <2>1 DEF AllTaken
    <2> QED
      BY <1>2, <1>3, <2>2
  <1>6. CASE p = i + 1
    <2>1. IsPrefix(Specials[a], Rest)
      BY <1>3, <1>6, OccursHere
    <2> QED
      BY <2>1 DEF MatchSpecial
  <1>7. CASE p > i + 1
    <2>1. p - 1 - i \in 1 .. n - 1 /\ i + (p - 1 - i) = p - 1 /\ (p - 1 - i) + 1 = p - i
      BY <1>3, <1>7
    <2>2. /\ p - 1 - i \in 1 .. Len(text) - i /\ p - i \in 1 .. Len(text) - i /\ i + (p - i) = p
          /\ p \in 1 .. Len(text)
      BY <1>0, <1>1, <1>3, <1>7
    <2>3. Rest[p - 1 - i] = text[p - 1] /\ Rest[p - i] = text[p]
      BY <1>0, <2>1, <2>2
    <2>4. text[p] \in Marks
      <3>1. Len(Specials[a]) >= 1
        BY <1>3
      <3>2. text[p] = Specials[a][1]
        BY <1>3, <2>2, <3>1, OccursFirst
      <3> QED
        BY <1>3, <3>2
    <2>5. CASE text[p - 1] \in Open
      <3>1. Rest[(p - 1 - i) + 1] \notin Marks
        BY <1>0, <1>1, <2>1, <2>3, <2>5, NoMarkInside DEF n
      <3> QED
        BY <2>1, <2>3, <2>4, <3>1
    <2>6. ASSUME NEW m \in DOMAIN Specials, StandsAt(ps, Specials[m], p - Len(Specials[m])) PROVE FALSE
      <3>1. Specials[m] \in Seq(Byte) /\ Len(Specials[m]) \in Nat /\ p - Len(Specials[m]) \in Int
        BY <1>3, SpecialsAre
      <3>2. (p - Len(Specials[m])) + Len(Specials[m]) <= i + 1
        BY <2>6, <3>1, TakenFits
      <3> QED
        BY <1>3, <1>7, <3>1, <3>2
    <2>7. p # 1
      BY <1>3, <1>7
    <2> QED
      BY <1>4, <2>5, <2>6, <2>7 DEF Behind
  <1> QED
    BY <1>3, <1>5, <1>6, <1>7

\* What is inductive: all was taken up to i; a piece begins with no special text.
BoundaryInv ==
  /\ AllTaken(Scanned, i)
  /\ pc = "merge" => i < Len(text) /\ MatchSpecial(Rest) = {}
  /\ pc = "done" => i = Len(text)
  /\ type = "sp" => text = <<>>

\* Where pieces end is where the text was scanned to.
LEMMA ScannedTo ==
  ASSUME BpeInv
  PROVE  Scanned \in Seq(TextPart) /\ Ends(Scanned) = i
  <1>1. text \in Seq(Byte) /\ i \in 0 .. Len(text) /\ pieces \in Seq(TextPart) /\ Len(text) \in Nat
    BY DEF BpeInv, BpeTypes
  <1>2. Ends(Scanned) = i
    <2>1. FlattenSeq(Strings(Scanned)) = SubSeq(text, 1, i)
      BY DEF BpeInv, NothingIsLost
    <2>2. Len(SubSeq(text, 1, i)) = i
      <3>1. \A k \in 1 .. i : text[k] \in Byte
        BY <1>1
      <3>2. Len(SubSeq(text, 1, i)) = IF 1 <= i THEN i - 1 + 1 ELSE 0
        BY <1>1, <3>1, SubSeqProperties
      <3> QED
        BY <1>1, <3>2
    <2> QED
      BY <2>1, <2>2 DEF Ends
  <1>3. Scanned \in Seq(TextPart)
    <2>1. CASE pc = "merge" /\ pieces # <<>>
      BY <1>1, <2>1, FrontAndLast DEF Scanned
    <2>2. CASE pc = "merge" /\ pieces = <<>>
      <3>1. Front(pieces) = <<>>
        BY <2>2 DEF Front
      <3>2. <<>> \in Seq(TextPart)
        OBVIOUS
      <3> QED
        BY <2>2, <3>1, <3>2 DEF Scanned
    <2>3. CASE pc # "merge"
      BY <1>1, <2>3 DEF Scanned
    <2> QED
      BY <2>1, <2>2, <2>3
  <1> QED
    BY <1>2, <1>3

\* Nothing of the text was scanned yet.
LEMMA NothingTaken ==
  ASSUME NEW ps PROVE AllTaken(ps, 0)
  BY DEF AllTaken

LEMMA BoundaryInvariant == TSpec => []BoundaryInv
  <1>1. TInit => BoundaryInv
    BY NothingTaken DEF TInit, BoundaryInv
  <1>2. BpeInv /\ ScannedPiece /\ BoundaryInv /\ [TNext]_<<type, pc, b, bpe, sp>> => BoundaryInv'
    <2> SUFFICES ASSUME BpeInv, ScannedPiece, BoundaryInv, [TNext]_<<type, pc, b, bpe, sp>>
                 PROVE  BoundaryInv'
      OBVIOUS
    <2>0. /\ text \in Seq(Byte) /\ i \in 0 .. Len(text) /\ pieces \in Seq(TextPart)
          /\ Len(text) \in Nat /\ type' = type
      BY DEF BpeInv, BpeTypes, TNext
    <2>1. ASSUME text' = text, NEW ps, NEW j, AllTaken(ps, j), Scanned' = ps, i' = j
          PROVE  AllTaken(Scanned, i)'
      BY <2>1 DEF AllTaken, OccursAt, Behind
    <2>2. CASE type = "bpe" /\ Next
      <3>1. CASE Call
        <4>1. i' = 0 /\ pc' = "scan"
          BY <2>2, <3>1 DEF Call, BpeInv
        <4>2. AllTaken(Scanned, i)'
          BY <4>1 DEF AllTaken
        <4> QED
          BY <2>0, <2>2, <4>1, <4>2 DEF BoundaryInv
      <3>2. CASE TakeSpecial
        <4> DEFINE m == Min(MatchSpecial(Rest))
        <4>1. /\ pieces' = Append(pieces, Special(Specials[m])) /\ i' = i + Len(Specials[m])
              /\ text' = text /\ pc = "scan" /\ pc' = "scan"
          BY <3>2 DEF TakeSpecial
        <4>2. m \in DOMAIN Specials /\ IsPrefix(Specials[m], Rest)
          <5>1. MatchSpecial(Rest) \in SUBSET Nat /\ MatchSpecial(Rest) # {}
            BY <3>2, VocabularyAssumption DEF MatchSpecial, TakeSpecial
          <5>2. m \in MatchSpecial(Rest)
            BY <5>1, MinIs
          <5> HIDE DEF m
          <5> QED
            BY <5>2 DEF MatchSpecial
        <4> HIDE DEF m
        <4>3. Scanned = pieces /\ Scanned' = pieces'
          BY <4>1 DEF Scanned
        <4>4. Ends(pieces) = i /\ AllTaken(pieces, i)
          BY <4>3, ScannedTo DEF BoundaryInv
        <4>5. AllTaken(pieces', i')
          BY <2>0, <4>1, <4>2, <4>4, SpecialTaken
        <4>6. AllTaken(Scanned, i)'
          BY <2>1, <4>1, <4>3, <4>5
        <4> QED
          BY <2>0, <2>2, <4>1, <4>6 DEF BoundaryInv
      <3>3. CASE TakePiece
        <4> DEFINE piece == SubSeq(Rest, 1, NextPiece(Rest))
        <4>1. /\ pieces' = Append(pieces, Ordinary(piece)) /\ i' = i /\ text' = text
              /\ pc = "scan" /\ pc' = "merge" /\ i < Len(text) /\ MatchSpecial(Rest) = {}
          BY <3>3 DEF TakePiece
        <4>2. Rest \in Seq(Byte) /\ Rest # <<>> /\ Rest' = Rest
          <5>1. Rest \in Seq(Byte) /\ Len(Rest) = Len(text) - i
            BY <2>0, RestIs
          <5> QED
            BY <2>0, <4>1, <5>1 DEF Rest
        <4>3. Ordinary(piece) \in TextPart
          <5>1. piece \in Seq(Byte)
            BY <4>2, PieceFits, PrefixIs
          <5> HIDE DEF piece
          <5> QED
            BY <5>1 DEF Ordinary, TextPart
        <4> HIDE DEF piece
        <4>4. Scanned = pieces /\ Scanned' = pieces
          <5>1. Front(pieces') = pieces
            BY <2>0, <4>1, <4>3, FrontOfAppend
          <5> QED
            BY <4>1, <5>1 DEF Scanned
        <4>5. AllTaken(Scanned, i)'
          BY <2>1, <4>1, <4>4 DEF BoundaryInv
        <4>6. MatchSpecial(Rest)' = {}
          BY <4>1, <4>2 DEF MatchSpecial
        <4> QED
          BY <2>0, <2>2, <4>1, <4>5, <4>6 DEF BoundaryInv
      <3>4. CASE Merge
        <4>1. UNCHANGED <<pc, text, i, pieces>>
          BY <3>4 DEF Merge
        <4>2. Scanned' = Scanned /\ Rest' = Rest
          BY <4>1 DEF Scanned, Rest
        <4>3. AllTaken(Scanned, i)'
          BY <2>1, <4>1, <4>2 DEF BoundaryInv
        <4>4. MatchSpecial(Rest)' = MatchSpecial(Rest)
          BY <4>2 DEF MatchSpecial
        <4> QED
          BY <2>0, <4>1, <4>3, <4>4 DEF BoundaryInv
      <3>5. CASE Emit
        <4> DEFINE q == Last(pieces)
        <4>1. i' = i + Len(q.str) /\ pc = "merge" /\ pc' = "scan" /\ text' = text /\ pieces' = pieces
          BY <3>5 DEF Emit
        <4>2. pieces # <<>> /\ ~q.special
          BY <2>2, <4>1 DEF BpeInv, PieceAtHand
        <4>3. q \in TextPart /\ Front(pieces) \in Seq(TextPart) /\ pieces = Append(Front(pieces), q)
          BY <2>0, <4>2, FrontAndLast
        <4>4. Scanned = Front(pieces) /\ Scanned' = pieces
          BY <4>1 DEF Scanned
        <4>5. Len(q.str) = NextPiece(Rest)
          BY <4>1 DEF ScannedPiece
        <4>6. i < Len(text) /\ MatchSpecial(Rest) = {} /\ Ends(Front(pieces)) = i /\ AllTaken(Front(pieces), i)
          BY <4>1, <4>4, ScannedTo DEF BoundaryInv
        <4> HIDE DEF q
        <4>7. AllTaken(Append(Front(pieces), q), i + Len(q.str))
          BY <2>0, <4>2, <4>3, <4>5, <4>6, PieceTaken
        <4>8. AllTaken(pieces, i + Len(q.str))
          BY <4>3, <4>7
        <4>9. AllTaken(Scanned, i)'
          BY <2>1, <4>1, <4>4, <4>8
        <4> QED
          BY <2>0, <2>2, <4>1, <4>9 DEF BoundaryInv
      <3>6. CASE Return
        <4>1. UNCHANGED <<text, i, pieces>> /\ pc = "scan" /\ pc' = "done" /\ i = Len(text)
          BY <3>6 DEF Return
        <4>2. Scanned' = Scanned
          BY <4>1 DEF Scanned
        <4>3. AllTaken(Scanned, i)'
          BY <2>1, <4>1, <4>2 DEF BoundaryInv
        <4> QED
          BY <2>0, <2>2, <4>1, <4>3 DEF BoundaryInv
      <3>7. CASE Ended
        <4>1. UNCHANGED <<pc, text, i, pieces>>
          BY <3>7 DEF Ended, vars
        <4>2. Scanned' = Scanned /\ Rest' = Rest
          BY <4>1 DEF Scanned, Rest
        <4>3. AllTaken(Scanned, i)'
          BY <2>1, <4>1, <4>2 DEF BoundaryInv
        <4>4. MatchSpecial(Rest)' = MatchSpecial(Rest)
          BY <4>2 DEF MatchSpecial
        <4> QED
          BY <2>0, <4>1, <4>3, <4>4 DEF BoundaryInv
      <3> QED
        BY <2>2, <3>1, <3>2, <3>3, <3>4, <3>5, <3>6, <3>7 DEF Next
    <2>3. CASE i = 0 /\ UNCHANGED <<text, i>> /\ pc' # "merge" /\ (pc' = "done" => text = <<>>)
      <3>1. AllTaken(Scanned, i)' /\ (text = <<>> => i' = Len(text'))
        BY <2>3 DEF AllTaken
      <3> QED
        BY <2>0, <2>3, <3>1 DEF BoundaryInv
    <2>4. CASE type = "sp" /\ UNCHANGED bpe /\ Sp!SpNext
      <3>1. i = 0 /\ UNCHANGED <<text, i>> /\ text = <<>>
        BY <2>4 DEF bpe, BpeInv, BoundaryInv
      <3>2. pc' # "merge"
        BY <2>4 DEF Sp!SpNext, Sp!LoadPiece, Sp!SpCall, Sp!TakeCharacter, Sp!AllTaken, Sp!Join, Sp!SpReturn
      <3> QED
        BY <2>3, <3>1, <3>2
    <2>5. CASE type = "bpe" /\ (BuildByte \/ Built)
      <3>1. i = 0 /\ UNCHANGED <<text, i>> /\ pc' \in {"new", "call"}
        BY <2>5 DEF BuildByte, Built, bpe, BpeInv
      <3> QED
        BY <2>3, <3>1
    <2>6. CASE UNCHANGED <<pc, bpe>>
      <3>1. UNCHANGED <<pc, text, i, pieces>>
        BY <2>6 DEF bpe
      <3>2. Scanned' = Scanned /\ Rest' = Rest
        BY <3>1 DEF Scanned, Rest
      <3>3. AllTaken(Scanned, i)'
        BY <2>1, <3>1, <3>2 DEF BoundaryInv
      <3>4. MatchSpecial(Rest)' = MatchSpecial(Rest)
        BY <3>2 DEF MatchSpecial
      <3> QED
        BY <2>0, <3>1, <3>3, <3>4 DEF BoundaryInv
    <2>7. UNCHANGED <<type, pc, b, bpe, sp>> \/ (Ended /\ UNCHANGED <<b, sp>>) => UNCHANGED <<pc, bpe>>
      BY DEF Ended, vars, bpe
    <2> QED
      BY <2>2, <2>4, <2>5, <2>6, <2>7 DEF TNext
  <1> QED
    BY <1>1, <1>2, BpeInvariant, ScannedInvariant, PTL DEF TSpec

\* Whatever the text and the special texts, as long as each of these begins with a
\* mark that is nowhere else in them: where the text begins, behind another special
\* and behind a letter, a digit or a newline, bpe_encode (tokenizer.c:354-386)
\* takes a special text as its token, because no piece reaches over such a place.
THEOREM SpecialsAreTaken == TSpec => []SpecialsBehindBoundaries
  <1>1. BoundaryInv => SpecialsBehindBoundaries
    <2> SUFFICES ASSUME BoundaryInv, pc = "done"
                 PROVE  \A m \in DOMAIN Specials, p \in 1 .. Len(text) :
                          /\ OccursAt(Specials[m], p)
                          /\ \/ p = 1
                             \/ text[p - 1] \in Letters \cup Digits \cup Newlines
                             \/ \E n \in DOMAIN Specials : TakenAt(Specials[n], p - Len(Specials[n]))
                          => TakenAt(Specials[m], p)
      BY DEF SpecialsBehindBoundaries
    <2>1. i = Len(text) /\ Scanned = pieces
      BY DEF BoundaryInv, Scanned
    <2>2. AllTaken(pieces, Len(text))
      BY <2>1 DEF BoundaryInv
    <2>3. \A s, p : TakenAt(s, p) <=> StandsAt(pieces, s, p)
      BY DEF TakenAt, StandsAt
    <2> QED
      BY <2>2, <2>3 DEF AllTaken, Behind, Open
  <1> QED
    BY <1>1, BoundaryInvariant, PTL

-----------------------------------------------------------------------------
(* Merging one pair at a time ends as merging all of its occurrences does. *)

Words == Seq(Seq(Byte))

LEMMA TwoTexts ==
  ASSUME NEW x \in Seq(Byte), NEW y \in Seq(Byte)
  PROVE  /\ x \o y \in Seq(Byte) /\ Len(x) \in Nat /\ Len(y) \in Nat
         /\ Len(x \o y) = Len(x) + Len(y)
  OBVIOUS

LEMMA MergesAre ==
  ASSUME NEW r \in DOMAIN Merges
  PROVE  /\ r \in Nat \ {0} /\ \A j \in 1 .. r : j \in DOMAIN Merges
         /\ Merges[r] = <<Merges[r][1], Merges[r][2]>>
         /\ Merges[r][1] \in Seq(Byte) /\ Merges[r][2] \in Seq(Byte)
         /\ Product(r) \in Seq(Byte)
         /\ Len(Merges[r][1]) \in Nat /\ Len(Merges[r][2]) \in Nat
         /\ Len(Product(r)) = Len(Merges[r][1]) + Len(Merges[r][2])
  <1>1. DOMAIN Merges = 1 .. Len(Merges) /\ Len(Merges) \in Nat
    BY VocabularyAssumption
  <1>2. Merges[r] \in Seq(Byte) \X Seq(Byte)
    BY VocabularyAssumption
  <1>3. /\ Merges[r] = <<Merges[r][1], Merges[r][2]>>
        /\ Merges[r][1] \in Seq(Byte) /\ Merges[r][2] \in Seq(Byte)
    BY <1>2
  <1>4. /\ Product(r) \in Seq(Byte)
        /\ Len(Merges[r][1]) \in Nat /\ Len(Merges[r][2]) \in Nat
        /\ Len(Product(r)) = Len(Merges[r][1]) + Len(Merges[r][2])
    BY <1>3, TwoTexts DEF Product
  <1>5. r \in Nat \ {0} /\ \A j \in 1 .. r : j \in DOMAIN Merges
    BY <1>1
  <1> QED
    BY <1>3, <1>4, <1>5

LEMMA SidesOf ==
  ASSUME NEW r \in DOMAIN Merges, NEW side \in 1 .. 2
  PROVE  \/ Len(Merges[r][side]) = 1
         \/ \E j \in 1 .. r - 1 : j \in DOMAIN Merges /\ Merges[r][side] = Product(j)
  <1>1. Merges[r][side] \in {<<x>> : x \in Byte} \cup {Product(j) : j \in 1 .. r - 1}
    BY VocabularyAssumption
  <1>2. CASE Merges[r][side] \in {<<x>> : x \in Byte}
    <2>1. PICK x \in Byte : Merges[r][side] = <<x>>
      BY <1>2
    <2>2. Len(<<x>>) = 1
      OBVIOUS
    <2> QED
      BY <2>1, <2>2
  <1>3. CASE Merges[r][side] \in {Product(j) : j \in 1 .. r - 1}
    <2>1. PICK j \in 1 .. r - 1 : Merges[r][side] = Product(j)
      BY <1>3
    <2>2. r \in Nat /\ \A k \in 1 .. r : k \in DOMAIN Merges
      BY MergesAre
    <2>3. j \in DOMAIN Merges
      BY <2>2
    <2> QED
      BY <2>1, <2>3
  <1> QED
    BY <1>1, <1>2, <1>3

\* A side of a merge has a byte, so that what it makes has two.
LEMMA SidesAreLong ==
  ASSUME NEW r \in DOMAIN Merges
  PROVE  /\ Len(Merges[r][1]) >= 1 /\ Len(Merges[r][2]) >= 1
         /\ Len(Product(r)) >= 2
  <1> DEFINE Long(k) == Len(Merges[k][1]) >= 1 /\ Len(Merges[k][2]) >= 1
             S == {n \in Nat : \A k \in DOMAIN Merges : k <= n => Long(k)}
  <1>1. 0 \in S
    <2>1. \A k \in DOMAIN Merges : k \in Nat \ {0}
      BY MergesAre
    <2> HIDE DEF Long
    <2> QED
      BY <2>1
  <1>2. ASSUME NEW n \in S PROVE n + 1 \in S
    <2>1. n \in Nat /\ \A k \in DOMAIN Merges : k <= n => Long(k)
      OBVIOUS
    <2>2. ASSUME NEW k \in DOMAIN Merges, k <= n + 1, NEW side \in 1 .. 2
          PROVE  Len(Merges[k][side]) >= 1
      <3>1. k \in Nat
        BY MergesAre
      <3>2. CASE Len(Merges[k][side]) = 1
        BY <3>2
      <3>3. ASSUME NEW j \in 1 .. k - 1, j \in DOMAIN Merges, Merges[k][side] = Product(j)
            PROVE  Len(Merges[k][side]) >= 1
        <4>1. j <= n
          BY <2>1, <2>2, <3>1
        <4>2. Long(j)
          <5> HIDE DEF Long
          <5> QED
            BY <2>1, <3>3, <4>1
        <4>3. /\ Len(Product(j)) = Len(Merges[j][1]) + Len(Merges[j][2])
              /\ Len(Merges[j][1]) \in Nat /\ Len(Merges[j][2]) \in Nat
          BY <3>3, MergesAre
        <4>4. \A x, y \in Nat : x >= 1 /\ y >= 1 => x + y >= 1
          OBVIOUS
        <4>5. Len(Product(j)) >= 1
          BY <4>2, <4>3, <4>4
        <4> QED
          BY <3>3, <4>5
      <3> QED
        BY <3>2, <3>3, SidesOf
    <2>3. \A k \in DOMAIN Merges : k <= n + 1 => Long(k)
      BY <2>2
    <2> HIDE DEF Long
    <2> QED
      BY <2>1, <2>3
  <1>3. S = Nat
    <2>1. S \in SUBSET Nat
      OBVIOUS
    <2> HIDE DEF S
    <2> QED
      BY <1>1, <1>2, <2>1, SetInduction
  <1>4. Long(r)
    <2>1. r \in Nat
      BY MergesAre
    <2>2. r \in S
      BY <1>3, <2>1
    <2> HIDE DEF Long
    <2> QED
      BY <2>1, <2>2
  <1>5. /\ Len(Product(r)) = Len(Merges[r][1]) + Len(Merges[r][2])
        /\ Len(Merges[r][1]) \in Nat /\ Len(Merges[r][2]) \in Nat
    BY MergesAre
  <1>6. \A x, y \in Nat : x >= 1 /\ y >= 1 => x + y >= 2
    OBVIOUS
  <1>7. Len(Product(r)) >= 2
    BY <1>4, <1>5, <1>6
  <1> QED
    BY <1>4, <1>7

\* What a merge makes is a side of later merges only.
LEMMA ProductsComeLater ==
  ASSUME NEW r \in DOMAIN Merges, NEW q \in DOMAIN Merges, NEW side \in 1 .. 2,
         Merges[q][side] = Product(r)
  PROVE  q > r
  <1>1. Len(Product(r)) >= 2 /\ r \in Nat /\ q \in Nat
    BY SidesAreLong, MergesAre
  <1>2. Len(Merges[q][side]) # 1
    <2>1. Len(Merges[q][side]) >= 2
      BY <1>1
    <2>2. ~(1 >= 2)
      OBVIOUS
    <2> QED
      BY <2>1, <2>2
  <1>3. PICK j \in 1 .. q - 1 : j \in DOMAIN Merges /\ Merges[q][side] = Product(j)
    BY <1>2, SidesOf
  <1>4. j = r
    BY <1>3, VocabularyAssumption
  <1> QED
    BY <1>1, <1>3, <1>4

\* JoinAll reads a word from left to right.
Joins(f, w, r) ==
  \A k \in 1 .. Len(w) + 1 : f[k] = IF k > Len(w) THEN <<>>
                                    ELSE IF k < Len(w) /\ r \in RanksAt(w, k)
                                         THEN <<Product(r)>> \o f[k + 2]
                                         ELSE <<w[k]>> \o f[k + 1]

LEMMA JoinsExists ==
  ASSUME NEW w \in Words, NEW r
  PROVE  \E f : Joins(f, w, r) /\ JoinAll(w, r) = f[1]
  <1> DEFINE n == Len(w)
             D == 1 .. n + 1
             At(k) == k < n /\ r \in RanksAt(w, k)
             size == [k \in D |-> n + 1 - k]
             stop == {n + 1}
             end == [k \in D |-> <<>>]
             after == [k \in D |-> IF At(k) THEN k + 2 ELSE IF k <= n THEN k + 1 ELSE k]
             symbol == [k \in D |-> IF At(k) THEN Product(r) ELSE IF k <= n THEN w[k] ELSE <<>>]
             wrap == [kv \in D \X Words |-> <<symbol[kv[1]]>> \o kv[2]]
             Is(f) == f = [k \in D |-> IF k > n THEN <<>>
                                       ELSE IF At(k) THEN <<Product(r)>> \o f[k + 2]
                                       ELSE <<w[k]>> \o f[k + 1]]
             join == CHOOSE f : Is(f)
  <1>1. n \in Nat /\ \A k \in D : k \in Nat
    BY DEF Words
  <1>2. ASSUME NEW k \in D, At(k) PROVE Product(r) \in Seq(Byte)
    <2>1. r \in DOMAIN Merges
      BY <1>2 DEF RanksAt
    <2> QED
      BY <2>1, MergesAre
  <1>3. ASSUME NEW k \in D, k <= n PROVE w[k] \in Seq(Byte)
    BY <1>1, <1>3 DEF Words
  <1>4. symbol \in [D -> Seq(Byte)]
    <2> SUFFICES ASSUME NEW k \in D
                 PROVE  (IF At(k) THEN Product(r) ELSE IF k <= n THEN w[k] ELSE <<>>) \in Seq(Byte)
      OBVIOUS
    <2>1. <<>> \in Seq(Byte)
      OBVIOUS
    <2> HIDE DEF At
    <2> QED
      BY <1>2, <1>3, <2>1
  <1>5. after \in [D -> D] /\ \A k \in D : k \notin stop => after[k] > k
    <2>1. ASSUME NEW k \in D
          PROVE  /\ (IF At(k) THEN k + 2 ELSE IF k <= n THEN k + 1 ELSE k) \in D
                 /\ k \notin stop => (IF At(k) THEN k + 2 ELSE IF k <= n THEN k + 1 ELSE k) > k
      <3>1. At(k) => k < n
        OBVIOUS
      <3> HIDE DEF At
      <3> QED
        BY <1>1, <3>1
    <2> HIDE DEF At
    <2> QED
      BY <2>1
  <1>6. size \in [D -> Nat]
    BY <1>1
  <1>7. end \in [D -> Words]
    <2>1. <<>> \in Words
      BY DEF Words
    <2> QED
      BY <2>1
  <1>8. \A k \in D : k \notin stop => size[after[k]] < size[k]
    <2> SUFFICES ASSUME NEW k \in D, k \notin stop PROVE size[after[k]] < size[k]
      OBVIOUS
    <2>1. after[k] \in D /\ after[k] > k
      BY <1>5
    <2> HIDE DEF after
    <2>2. size[after[k]] = n + 1 - after[k] /\ size[k] = n + 1 - k
      BY <2>1
    <2> QED
      BY <1>1, <2>1, <2>2
  <1> HIDE DEF symbol, after, size, end
  <1>9. \A k \in D, v \in Words : <<symbol[k]>> \o v \in Words
    BY <1>4 DEF Words
  <1>10. wrap \in [D \X Words -> Words]
    BY <1>9
  <1>11. \A k \in D, v \in Words : wrap[<<k, v>>] = <<symbol[k]>> \o v
    OBVIOUS
  <1> HIDE DEF wrap, stop
  <1>12. PICK f : Unfolds(f, D, Words, stop, end, after, wrap)
    <2>1. Shrinks(D, size, stop, after)
      BY <1>5, <1>6, <1>8 DEF Shrinks
    <2> HIDE DEF D
    <2> QED
      BY <1>7, <1>10, <2>1, SizeRecursion
  <1>13. ASSUME NEW k \in D
         PROVE  f[k] = IF k > n THEN <<>> ELSE IF At(k) THEN <<Product(r)>> \o f[k + 2]
                       ELSE <<w[k]>> \o f[k + 1]
    <2>1. CASE k > n
      <3>1. k \in stop /\ end[k] = <<>>
        BY <1>1, <2>1 DEF stop, end
      <3> QED
        BY <1>12, <2>1, <3>1 DEF Unfolds
    <2>2. CASE ~(k > n)
      <3>1. k \notin stop /\ k <= n
        BY <1>1, <2>2 DEF stop
      <3>2. after[k] \in D
        BY <1>5
      <3>3. f[k] = <<symbol[k]>> \o f[after[k]]
        <4>1. f[after[k]] \in Words /\ f[k] = wrap[<<k, f[after[k]]>>]
          BY <1>12, <3>1, <3>2 DEF Unfolds
        <4> QED
          BY <1>11, <4>1
      <3>4. /\ after[k] = IF At(k) THEN k + 2 ELSE k + 1
            /\ symbol[k] = IF At(k) THEN Product(r) ELSE w[k]
        <4> HIDE DEF At
        <4> QED
          BY <3>1 DEF after, symbol
      <3> HIDE DEF At
      <3> QED
        BY <2>2, <3>3, <3>4
    <2> QED
      BY <2>1, <2>2
  <1> HIDE DEF At
  <1>14. Is(f)
    BY <1>12, <1>13 DEF Unfolds
  <1>15. Is(join)
    BY <1>14
  <1>16. JoinAll(w, r) = join[1]
    BY DEF JoinAll, At
  <1>17. \A k \in D : join[k] = IF k > n THEN <<>> ELSE IF At(k) THEN <<Product(r)>> \o join[k + 2]
                                ELSE <<w[k]>> \o join[k + 1]
    <2> HIDE DEF join
    <2> QED
      BY <1>15
  <1> HIDE DEF join
  <1>18. Joins(join, w, r)
    BY <1>17 DEF Joins, At
  <1> QED
    BY <1>16, <1>18

LEMMA JoinsFits ==
  ASSUME NEW w \in Words, NEW r, NEW f, Joins(f, w, r), NEW k \in 1 .. Len(w) + 1
  PROVE  f[k] \in Words /\ Len(f[k]) <= Len(w) + 1 - k
  <1> DEFINE n == Len(w)
             Fits(j) == f[j] \in Words /\ Len(f[j]) <= n + 1 - j
             S == {t \in Nat : \A j \in 1 .. n + 1 : n + 1 - j <= t => Fits(j)}
  <1>0. n \in Nat /\ \A j \in 1 .. n : w[j] \in Seq(Byte)
    BY DEF Words
  <1>1. \A j \in 1 .. n + 1 : f[j] = IF j > n THEN <<>>
                                     ELSE IF j < n /\ r \in RanksAt(w, j)
                                          THEN <<Product(r)>> \o f[j + 2]
                                          ELSE <<w[j]>> \o f[j + 1]
    BY DEF Joins
  <1>2. ASSUME NEW x \in Seq(Byte), NEW v \in Words
        PROVE  <<x>> \o v \in Words /\ Len(<<x>> \o v) = 1 + Len(v) /\ Len(v) \in Nat
    BY DEF Words
  <1>3. Fits(n + 1)
    <2>1. f[n + 1] = <<>>
      <3>1. n + 1 \in 1 .. n + 1 /\ n + 1 > n
        BY <1>0
      <3> HIDE DEF n
      <3> QED
        BY <1>1, <3>1
    <2>2. <<>> \in Words /\ Len(<<>>) = 0
      BY DEF Words
    <2> QED
      BY <1>0, <2>1, <2>2
  <1>4. 0 \in S
    <2> SUFFICES ASSUME NEW j \in 1 .. n + 1, n + 1 - j <= 0 PROVE Fits(j)
      OBVIOUS
    <2>1. j = n + 1
      BY <1>0
    <2> HIDE DEF Fits
    <2> QED
      BY <1>3, <2>1
  <1>5. ASSUME NEW t \in S PROVE t + 1 \in S
    <2>1. t \in Nat /\ \A j \in 1 .. n + 1 : n + 1 - j <= t => Fits(j)
      OBVIOUS
    <2> SUFFICES ASSUME NEW j \in 1 .. n + 1, n + 1 - j <= t + 1 PROVE Fits(j)
      BY <2>1
    <2>2. CASE j > n
      <3>1. j = n + 1
        BY <1>0, <2>2
      <3> HIDE DEF Fits
      <3> QED
        BY <1>3, <3>1
    <2>3. CASE ~(j > n) /\ j < n /\ r \in RanksAt(w, j)
      <3>1. j + 2 \in 1 .. n + 1 /\ n + 1 - (j + 2) <= t
        BY <1>0, <2>1, <2>3
      <3>2. f[j + 2] \in Words /\ Len(f[j + 2]) <= n + 1 - (j + 2)
        BY <2>1, <3>1
      <3>3. f[j] = <<Product(r)>> \o f[j + 2]
        BY <1>1, <2>3
      <3>4. Product(r) \in Seq(Byte)
        <4>1. r \in DOMAIN Merges
          BY <2>3 DEF RanksAt
        <4> QED
          BY <4>1, MergesAre
      <3>5. f[j] \in Words /\ Len(f[j]) = 1 + Len(f[j + 2]) /\ Len(f[j + 2]) \in Nat
        BY <1>2, <3>2, <3>3, <3>4
      <3> QED
        BY <1>0, <3>2, <3>5
    <2>4. CASE ~(j > n) /\ ~(j < n /\ r \in RanksAt(w, j))
      <3>1. j + 1 \in 1 .. n + 1 /\ n + 1 - (j + 1) <= t /\ j \in 1 .. n
        BY <1>0, <2>1, <2>4
      <3>2. f[j + 1] \in Words /\ Len(f[j + 1]) <= n + 1 - (j + 1)
        BY <2>1, <3>1
      <3>3. f[j] = <<w[j]>> \o f[j + 1]
        BY <1>1, <2>4
      <3>4. f[j] \in Words /\ Len(f[j]) = 1 + Len(f[j + 1]) /\ Len(f[j + 1]) \in Nat
        BY <1>0, <1>2, <3>1, <3>2, <3>3
      <3> QED
        BY <1>0, <3>2, <3>4
    <2> QED
      BY <2>2, <2>3, <2>4
  <1>6. S = Nat
    <2>1. S \in SUBSET Nat
      OBVIOUS
    <2> HIDE DEF S
    <2> QED
      BY <1>4, <1>5, <2>1, SetInduction
  <1>7. n + 1 - k \in S
    BY <1>0, <1>6
  <1> QED
    BY <1>0, <1>7

\* A word without the pair stays as it is.
LEMMA NoneToJoin ==
  ASSUME NEW w \in Words, NEW r, \A k \in 1 .. Len(w) - 1 : r \notin RanksAt(w, k)
  PROVE  JoinAll(w, r) = w
  <1> DEFINE n == Len(w)
  <1>0. n \in Nat
    BY DEF Words
  <1>1. PICK f : Joins(f, w, r) /\ JoinAll(w, r) = f[1]
    BY JoinsExists
  <1>2. \A j \in 1 .. n + 1 : f[j] = IF j > n THEN <<>> ELSE <<w[j]>> \o f[j + 1]
    <2> SUFFICES ASSUME NEW j \in 1 .. n + 1
                 PROVE  f[j] = IF j > n THEN <<>> ELSE <<w[j]>> \o f[j + 1]
      OBVIOUS
    <2>1. f[j] = IF j > n THEN <<>>
                 ELSE IF j < n /\ r \in RanksAt(w, j) THEN <<Product(r)>> \o f[j + 2]
                 ELSE <<w[j]>> \o f[j + 1]
      BY <1>1 DEF Joins
    <2>2. j < n => j \in 1 .. n - 1
      BY <1>0
    <2> QED
      BY <2>1, <2>2
  <1> DEFINE T == {t \in 0 .. n : f[n + 1 - t] = SubSeq(w, n + 1 - t, n)}
  <1>3. 0 \in T
    <2>1. n + 1 \in 1 .. n + 1 /\ n + 1 > n /\ n + 1 - 0 = n + 1
      BY <1>0
    <2>2. f[n + 1] = <<>>
      BY <1>2, <2>1
    <2>3. SubSeq(w, n + 1, n) = <<>>
      BY <2>1, SubSeqEmpty
    <2>4. 0 \in 0 .. n
      BY <1>0
    <2> HIDE DEF n
    <2>5. f[n + 1 - 0] = SubSeq(w, n + 1 - 0, n)
      BY <2>1, <2>2, <2>3
    <2> QED
      BY <2>4, <2>5
  <1>4. ASSUME NEW t \in 0 .. n - 1, t \in T PROVE t + 1 \in T
    <2> DEFINE j == n + 1 - (t + 1)
    <2>1. j \in 1 .. n /\ j \in 1 .. n + 1 /\ ~(j > n) /\ j + 1 = n + 1 - t /\ t + 1 \in 0 .. n
      BY <1>0
    <2>2. f[j] = <<w[j]>> \o f[j + 1]
      BY <1>2, <2>1
    <2>3. f[j + 1] = SubSeq(w, j + 1, n)
      BY <1>4, <2>1
    <2>4. SubSeq(w, j, n) = <<w[j]>> \o SubSeq(w, j + 1, n)
      <3>1. n \in j .. n /\ j \in 1 .. Len(w) /\ w \in Seq(Seq(Byte))
        BY <1>0, <2>1 DEF Words
      <3> HIDE DEF j
      <3> QED
        BY <3>1, SubSeqRecursiveFirst
    <2> HIDE DEF j
    <2>5. f[j] = SubSeq(w, j, n)
      BY <2>2, <2>3, <2>4
    <2> QED
      BY <2>1, <2>5 DEF j
  <1>5. T = 0 .. n
    <2>1. T \in SUBSET (0 .. n)
      OBVIOUS
    <2> HIDE DEF T, n
    <2> QED
      BY <1>0, <1>3, <1>4, <2>1, BoundedInduction
  <1>6. f[1] = SubSeq(w, 1, n)
    <2>1. n \in 0 .. n /\ n + 1 - n = 1
      BY <1>0
    <2>2. n \in T
      <3> HIDE DEF T, n
      <3> QED
        BY <1>5, <2>1
    <2> HIDE DEF n
    <2>3. f[n + 1 - n] = SubSeq(w, n + 1 - n, n)
      BY <2>2
    <2> QED
      BY <2>1, <2>3
  <1>7. SubSeq(w, 1, n) = w
    BY SubSeqFull DEF Words
  <1> QED
    BY <1>1, <1>6, <1>7

LEMMA JoinedIs ==
  ASSUME NEW w \in Words, NEW k \in 1 .. Len(w) - 1
  PROVE  LET v == Joined(w, k) IN
         /\ v \in Words /\ Len(v) = Len(w) - 1
         /\ \A j \in 1 .. k - 1 : v[j] = w[j]
         /\ v[k] = w[k] \o w[k + 1]
         /\ \A j \in k + 1 .. Len(w) - 1 : v[j] = w[j + 1]
  <1> DEFINE n == Len(w)
             V == Seq(Byte)
             p == SubSeq(w, 1, k - 1)
             z == w[k] \o w[k + 1]
             q == SubSeq(w, k + 2, n)
             u == p \o <<z>>
             v == u \o q
  <1>0. n \in Nat /\ k \in Nat /\ k \in 1 .. n /\ k + 1 \in 1 .. n /\ \A j \in 1 .. n : w[j] \in V
    BY DEF Words
  <1>1. z \in V
    <2>1. w[k] \in V /\ w[k + 1] \in V
      BY <1>0
    <2> QED
      BY <2>1, TwoTexts
  <1>2. p \in Seq(V) /\ Len(p) = k - 1 /\ \A j \in 1 .. k - 1 : p[j] = w[j]
    <2>1. \A j \in 1 .. k - 1 : w[j] \in V
      BY <1>0
    <2>2. /\ p \in Seq(V) /\ Len(p) = IF 1 <= k - 1 THEN (k - 1) - 1 + 1 ELSE 0
          /\ \A j \in 1 .. (k - 1) - 1 + 1 : p[j] = w[1 + j - 1]
      BY <1>0, <2>1, SubSeqProperties
    <2>3. (k - 1) - 1 + 1 = k - 1 /\ \A j \in 1 .. k - 1 : 1 + j - 1 = j
      BY <1>0
    <2>4. Len(p) = k - 1
      <3>1. Len(p) = IF 1 <= k - 1 THEN (k - 1) - 1 + 1 ELSE 0
        BY <2>2
      <3> HIDE DEF p
      <3> QED
        BY <1>0, <3>1
    <2> HIDE DEF p
    <2>5. \A j \in 1 .. k - 1 : p[j] = w[j]
      BY <2>2, <2>3
    <2> QED
      BY <2>2, <2>4, <2>5
  <1>3. q \in Seq(V) /\ Len(q) = n - k - 1 /\ \A j \in 1 .. n - k - 1 : q[j] = w[k + 1 + j]
    <2>1. \A j \in k + 2 .. n : w[j] \in V
      BY <1>0
    <2>2. /\ q \in Seq(V) /\ Len(q) = IF k + 2 <= n THEN n - (k + 2) + 1 ELSE 0
          /\ \A j \in 1 .. n - (k + 2) + 1 : q[j] = w[(k + 2) + j - 1]
      BY <1>0, <2>1, SubSeqProperties
    <2>3. n - (k + 2) + 1 = n - k - 1 /\ \A j \in 1 .. n - k - 1 : (k + 2) + j - 1 = k + 1 + j
      BY <1>0
    <2>4. Len(q) = n - k - 1
      <3>1. Len(q) = IF k + 2 <= n THEN n - (k + 2) + 1 ELSE 0
        BY <2>2
      <3> HIDE DEF q
      <3> QED
        BY <1>0, <3>1
    <2> HIDE DEF q
    <2>5. \A j \in 1 .. n - k - 1 : q[j] = w[k + 1 + j]
      <3> SUFFICES ASSUME NEW j \in 1 .. n - k - 1 PROVE q[j] = w[k + 1 + j]
        OBVIOUS
      <3>1. j \in 1 .. n - (k + 2) + 1 /\ (k + 2) + j - 1 = k + 1 + j
        BY <2>3
      <3> QED
        BY <2>2, <3>1
    <2> QED
      BY <2>2, <2>4, <2>5
  <1> HIDE DEF p, q, z, V
  <1>4. u \in Seq(V) /\ Len(u) = k /\ u[k] = z /\ \A j \in 1 .. k - 1 : u[j] = w[j]
    <2>1. <<z>> \in Seq(V) /\ Len(<<z>>) = 1 /\ <<z>>[1] = z
      BY <1>1
    <2>2. /\ u \in Seq(V) /\ Len(u) = Len(p) + Len(<<z>>)
          /\ \A j \in 1 .. Len(p) + Len(<<z>>) : u[j] = IF j <= Len(p) THEN p[j] ELSE <<z>>[j - Len(p)]
      BY <1>2, <2>1, ConcatProperties
    <2> HIDE DEF u
    <2>3. Len(u) = k
      BY <1>0, <1>2, <2>1, <2>2
    <2>4. u[k] = <<z>>[k - (k - 1)]
      <3>1. k \in 1 .. Len(p) + Len(<<z>>) /\ ~(k <= Len(p))
        BY <1>0, <1>2, <2>1
      <3> QED
        BY <1>2, <2>2, <3>1
    <2>5. k - (k - 1) = 1
      BY <1>0
    <2>6. ASSUME NEW j \in 1 .. k - 1 PROVE u[j] = w[j]
      <3>1. j \in 1 .. Len(p) + Len(<<z>>) /\ j <= Len(p)
        BY <1>0, <1>2, <2>1
      <3>2. u[j] = p[j]
        BY <2>2, <3>1
      <3> QED
        BY <1>2, <3>2
    <2> QED
      BY <2>1, <2>2, <2>3, <2>4, <2>5, <2>6
  <1> HIDE DEF u
  <1>5. v \in Seq(V) /\ Len(v) = n - 1 /\ \A j \in 1 .. n - 1 : v[j] = IF j <= k THEN u[j] ELSE w[j + 1]
    <2>1. /\ v \in Seq(V) /\ Len(v) = Len(u) + Len(q)
          /\ \A j \in 1 .. Len(u) + Len(q) : v[j] = IF j <= Len(u) THEN u[j] ELSE q[j - Len(u)]
      BY <1>3, <1>4, ConcatProperties
    <2> HIDE DEF v
    <2>2. Len(v) = n - 1 /\ Len(u) + Len(q) = n - 1
      BY <1>0, <1>3, <1>4, <2>1
    <2>3. ASSUME NEW j \in 1 .. n - 1 PROVE v[j] = IF j <= k THEN u[j] ELSE w[j + 1]
      <3>1. v[j] = IF j <= k THEN u[j] ELSE q[j - k]
        BY <1>4, <2>1, <2>2
      <3>2. CASE j <= k
        BY <3>1, <3>2
      <3>3. CASE ~(j <= k)
        <4>1. j - k \in 1 .. n - k - 1 /\ k + 1 + (j - k) = j + 1
          BY <1>0, <3>3
        <4>2. q[j - k] = w[k + 1 + (j - k)]
          BY <1>3, <4>1
        <4> QED
          BY <3>1, <3>3, <4>1, <4>2
      <3> QED
        BY <3>2, <3>3
    <2> QED
      BY <2>1, <2>2, <2>3
  <1> HIDE DEF v
  <1>6. Joined(w, k) = v
    BY DEF Joined, v, u, p, q, z
  <1>7. \A j \in 1 .. k - 1 : v[j] = w[j]
    <2> SUFFICES ASSUME NEW j \in 1 .. k - 1 PROVE v[j] = w[j]
      OBVIOUS
    <2>1. j \in 1 .. n - 1 /\ j <= k
      BY <1>0
    <2> QED
      BY <1>4, <1>5, <2>1
  <1>8. v[k] = z
    <2>1. k \in 1 .. n - 1 /\ k <= k
      BY <1>0
    <2> QED
      BY <1>4, <1>5, <2>1
  <1>9. \A j \in k + 1 .. n - 1 : v[j] = w[j + 1]
    <2> SUFFICES ASSUME NEW j \in k + 1 .. n - 1 PROVE v[j] = w[j + 1]
      OBVIOUS
    <2>1. j \in 1 .. n - 1 /\ ~(j <= k)
      BY <1>0
    <2> QED
      BY <1>5, <2>1
  <1> QED
    BY <1>5, <1>6, <1>7, <1>8, <1>9 DEF Words, V, z

\* What the neighbours of a merged word are.
LEMMA JoinedRanks ==
  ASSUME NEW w \in Words, NEW k \in 1 .. Len(w) - 1, NEW r \in RanksAt(w, k)
  PROVE  LET v == Joined(w, k) IN
         /\ v[k] = Product(r) /\ r \in DOMAIN Merges
         /\ \A j \in 1 .. k - 2 : RanksAt(v, j) = RanksAt(w, j)
         /\ \A j \in k + 1 .. Len(w) - 2 : RanksAt(v, j) = RanksAt(w, j + 1)
         /\ \A q \in RanksAt(v, k) : q > r
         /\ k > 1 => \A q \in RanksAt(v, k - 1) : q > r
  <1> DEFINE n == Len(w)
             v == Joined(w, k)
  <1>0. n \in Nat /\ k \in Nat /\ k \in 1 .. n - 1
    BY DEF Words
  <1>1. /\ \A j \in 1 .. k - 1 : v[j] = w[j]
        /\ v[k] = w[k] \o w[k + 1]
        /\ \A j \in k + 1 .. n - 1 : v[j] = w[j + 1]
    BY JoinedIs
  <1> HIDE DEF v
  <1>2. r \in DOMAIN Merges /\ Merges[r] = <<w[k], w[k + 1]>>
    BY DEF RanksAt
  <1>3. v[k] = Product(r)
    <2>1. Merges[r][1] = w[k] /\ Merges[r][2] = w[k + 1]
      BY <1>2
    <2> QED
      BY <1>1, <2>1 DEF Product
  <1>4. ASSUME NEW j \in 1 .. k - 2 PROVE RanksAt(v, j) = RanksAt(w, j)
    <2>1. j \in 1 .. k - 1 /\ j + 1 \in 1 .. k - 1
      BY <1>0
    <2>2. v[j] = w[j] /\ v[j + 1] = w[j + 1]
      BY <1>1, <2>1
    <2> QED
      BY <2>2 DEF RanksAt
  <1>5. ASSUME NEW j \in k + 1 .. n - 2 PROVE RanksAt(v, j) = RanksAt(w, j + 1)
    <2>1. j \in k + 1 .. n - 1 /\ j + 1 \in k + 1 .. n - 1
      BY <1>0
    <2>2. v[j] = w[j + 1] /\ v[j + 1] = w[(j + 1) + 1]
      BY <1>1, <2>1
    <2> QED
      BY <2>2 DEF RanksAt
  <1>6. ASSUME NEW q \in RanksAt(v, k) PROVE q > r
    <2>1. q \in DOMAIN Merges /\ Merges[q] = <<v[k], v[k + 1]>>
      BY DEF RanksAt
    <2>2. Merges[q][1] = Product(r)
      BY <1>3, <2>1
    <2>3. 1 \in 1 .. 2
      OBVIOUS
    <2> QED
      BY <1>2, <2>1, <2>2, <2>3, ProductsComeLater
  <1>7. ASSUME k > 1, NEW q \in RanksAt(v, k - 1) PROVE q > r
    <2>1. q \in DOMAIN Merges /\ Merges[q] = <<v[k - 1], v[(k - 1) + 1]>>
      BY DEF RanksAt
    <2>2. v[(k - 1) + 1] = Product(r)
      <3>1. (k - 1) + 1 = k
        BY <1>0
      <3> QED
        BY <1>3, <3>1
    <2>3. Merges[q][2] = Product(r)
      BY <2>1, <2>2
    <2>4. 2 \in 1 .. 2
      OBVIOUS
    <2> QED
      BY <1>2, <2>1, <2>3, <2>4, ProductsComeLater
  <1> QED
    BY <1>2, <1>3, <1>4, <1>5, <1>6, <1>7 DEF v

\* Merging the first occurrence of a pair takes nothing from the others: what
\* the product stands beside is merged later.
LEMMA OneJoinFirst ==
  ASSUME NEW w \in Words, NEW k \in 1 .. Len(w) - 1, NEW r \in RanksAt(w, k),
         \A j \in 1 .. k - 1 : r \notin RanksAt(w, j)
  PROVE  JoinAll(Joined(w, k), r) = JoinAll(w, r)
  <1> DEFINE n == Len(w)
             v == Joined(w, k)
             P == <<Product(r)>>
  <1>0. n \in Nat /\ k \in Nat /\ k \in 1 .. n - 1
    BY DEF Words
  <1>1. /\ v \in Words /\ Len(v) = n - 1
        /\ \A j \in 1 .. k - 1 : v[j] = w[j]
        /\ \A j \in k + 1 .. n - 1 : v[j] = w[j + 1]
    BY JoinedIs
  <1>2. /\ v[k] = Product(r) /\ r \in DOMAIN Merges
        /\ \A j \in 1 .. k - 2 : RanksAt(v, j) = RanksAt(w, j)
        /\ \A j \in k + 1 .. n - 2 : RanksAt(v, j) = RanksAt(w, j + 1)
        /\ \A q \in RanksAt(v, k) : q > r
        /\ k > 1 => \A q \in RanksAt(v, k - 1) : q > r
    BY JoinedRanks
  <1> HIDE DEF v
  <1>3. r \in Nat
    BY <1>2, MergesAre
  <1>4. r \notin RanksAt(v, k) /\ (k > 1 => r \notin RanksAt(v, k - 1))
    BY <1>2, <1>3
  <1>5. PICK f : Joins(f, w, r) /\ JoinAll(w, r) = f[1]
    BY JoinsExists
  <1>6. PICK g : Joins(g, v, r) /\ JoinAll(v, r) = g[1]
    BY <1>1, JoinsExists
  <1>7. \A j \in 1 .. n + 1 : f[j] = IF j > n THEN <<>>
                                     ELSE IF j < n /\ r \in RanksAt(w, j) THEN P \o f[j + 2]
                                     ELSE <<w[j]>> \o f[j + 1]
    BY <1>5 DEF Joins
  <1>8. \A j \in 1 .. n : g[j] = IF j > n - 1 THEN <<>>
                                 ELSE IF j < n - 1 /\ r \in RanksAt(v, j) THEN P \o g[j + 2]
                                 ELSE <<v[j]>> \o g[j + 1]
    <2>1. Len(v) + 1 = n
      BY <1>0, <1>1
    <2> QED
      BY <1>1, <1>6, <2>1 DEF Joins
  <1> HIDE DEF n, P
  <1>9. \A j \in k + 1 .. n : g[j] = f[j + 1]
    <2> DEFINE S == {t \in Nat : \A j \in k + 1 .. n : n - j <= t => g[j] = f[j + 1]}
    <2>1. g[n] = f[n + 1]
      <3>1. n \in 1 .. n /\ n > n - 1 /\ n + 1 \in 1 .. n + 1 /\ n + 1 > n
        BY <1>0
      <3>2. g[n] = <<>>
        BY <1>8, <3>1
      <3>3. f[n + 1] = <<>>
        BY <1>7, <3>1
      <3> QED
        BY <3>2, <3>3
    <2>2. 0 \in S
      <3> SUFFICES ASSUME NEW j \in k + 1 .. n, n - j <= 0 PROVE g[j] = f[j + 1]
        OBVIOUS
      <3>1. j = n
        BY <1>0
      <3> QED
        BY <2>1, <3>1
    <2>3. ASSUME NEW t \in S PROVE t + 1 \in S
      <3>1. t \in Nat /\ \A j \in k + 1 .. n : n - j <= t => g[j] = f[j + 1]
        OBVIOUS
      <3> SUFFICES ASSUME NEW j \in k + 1 .. n, n - j <= t + 1 PROVE g[j] = f[j + 1]
        BY <3>1
      <3> HIDE DEF S
      <3>2. CASE j = n
        BY <2>1, <3>2
      <3>3. CASE j # n /\ j < n - 1 /\ r \in RanksAt(v, j)
        <4>1. /\ j \in 1 .. n /\ ~(j > n - 1) /\ j \in k + 1 .. n - 2
              /\ j + 1 \in 1 .. n + 1 /\ ~(j + 1 > n) /\ j + 1 < n
              /\ j + 2 \in k + 1 .. n /\ n - (j + 2) <= t /\ (j + 1) + 2 = (j + 2) + 1
          BY <1>0, <3>1, <3>3
        <4>2. g[j] = P \o g[j + 2]
          BY <1>8, <3>3, <4>1
        <4>3. r \in RanksAt(w, j + 1)
          BY <1>2, <3>3, <4>1 DEF n
        <4>4. f[j + 1] = P \o f[(j + 1) + 2]
          BY <1>7, <4>1, <4>3
        <4>5. g[j + 2] = f[(j + 2) + 1]
          BY <3>1, <4>1
        <4> QED
          BY <4>1, <4>2, <4>4, <4>5
      <3>4. CASE j # n /\ ~(j < n - 1 /\ r \in RanksAt(v, j))
        <4>1. /\ j \in 1 .. n /\ ~(j > n - 1) /\ j \in k + 1 .. n - 1
              /\ j + 1 \in 1 .. n + 1 /\ ~(j + 1 > n)
              /\ j + 1 \in k + 1 .. n /\ n - (j + 1) <= t
          BY <1>0, <3>1, <3>4
        <4>2. g[j] = <<v[j]>> \o g[j + 1]
          BY <1>8, <3>4, <4>1
        <4>3. ~(j + 1 < n /\ r \in RanksAt(w, j + 1))
          <5> SUFFICES ASSUME j + 1 < n PROVE r \notin RanksAt(w, j + 1)
            OBVIOUS
          <5>1. j < n - 1 /\ j \in k + 1 .. n - 2
            BY <1>0, <4>1
          <5>2. r \notin RanksAt(v, j)
            BY <3>4, <5>1
          <5> QED
            BY <1>2, <5>1, <5>2 DEF n
        <4>4. f[j + 1] = <<w[j + 1]>> \o f[(j + 1) + 1]
          BY <1>7, <4>1, <4>3
        <4>5. v[j] = w[j + 1]
          BY <1>1, <4>1 DEF n
        <4>6. g[j + 1] = f[(j + 1) + 1]
          BY <3>1, <4>1
        <4> QED
          BY <4>2, <4>4, <4>5, <4>6
      <3> QED
        BY <3>2, <3>3, <3>4
    <2>4. S = Nat
      <3>1. S \in SUBSET Nat
        OBVIOUS
      <3> HIDE DEF S
      <3> QED
        BY <2>2, <2>3, <3>1, SetInduction
    <2> SUFFICES ASSUME NEW j \in k + 1 .. n PROVE g[j] = f[j + 1]
      OBVIOUS
    <2>5. n - j \in Nat /\ n - j <= n - j
      BY <1>0
    <2>6. n - j \in S
      <3> HIDE DEF S
      <3> QED
        BY <2>4, <2>5
    <2> QED
      BY <2>5, <2>6
  <1>10. g[k] = f[k]
    <2>1. /\ k \in 1 .. n /\ ~(k > n - 1) /\ k \in 1 .. n + 1 /\ ~(k > n) /\ k < n
          /\ k + 1 \in k + 1 .. n /\ (k + 1) + 1 = k + 2
      BY <1>0
    <2>2. g[k] = <<v[k]>> \o g[k + 1]
      BY <1>4, <1>8, <2>1
    <2>3. f[k] = P \o f[k + 2]
      BY <1>7, <2>1
    <2>4. g[k + 1] = f[(k + 1) + 1]
      BY <1>9, <2>1
    <2> QED
      BY <1>2, <2>1, <2>2, <2>3, <2>4 DEF P
  <1>11. ASSUME NEW j \in 1 .. k - 1, g[j + 1] = f[j + 1] PROVE g[j] = f[j]
    <2>1. /\ j \in 1 .. n /\ ~(j > n - 1) /\ j \in 1 .. n + 1 /\ ~(j > n)
          /\ (j \in 1 .. k - 2 \/ (j = k - 1 /\ k > 1))
      BY <1>0
    <2>2. r \notin RanksAt(w, j)
      OBVIOUS
    <2>3. r \notin RanksAt(v, j)
      BY <1>2, <1>4, <2>1, <2>2
    <2>4. g[j] = <<v[j]>> \o g[j + 1]
      BY <1>8, <2>1, <2>3
    <2>5. f[j] = <<w[j]>> \o f[j + 1]
      BY <1>7, <2>1, <2>2
    <2> QED
      BY <1>1, <1>11, <2>4, <2>5
  <1>12. g[1] = f[1]
    <2> DEFINE T == {t \in 0 .. k - 1 : g[k - t] = f[k - t]}
    <2>1. 0 \in T
      <3>1. k - 0 = k /\ 0 \in 0 .. k - 1
        BY <1>0
      <3> QED
        BY <1>10, <3>1
    <2>2. ASSUME NEW t \in 0 .. (k - 1) - 1, t \in T PROVE t + 1 \in T
      <3>1. t + 1 \in 0 .. k - 1 /\ k - (t + 1) \in 1 .. k - 1 /\ (k - (t + 1)) + 1 = k - t
        BY <1>0
      <3>2. g[k - t] = f[k - t]
        BY <2>2
      <3>3. g[k - (t + 1)] = f[k - (t + 1)]
        BY <1>11, <3>1, <3>2
      <3> QED
        BY <3>1, <3>3
    <2>3. T = 0 .. k - 1
      <3>1. T \in SUBSET (0 .. k - 1) /\ k - 1 \in Nat
        BY <1>0
      <3> HIDE DEF T
      <3> QED
        BY <2>1, <2>2, <3>1, BoundedInduction
    <2>4. k - 1 \in 0 .. k - 1 /\ k - (k - 1) = 1
      BY <1>0
    <2>5. k - 1 \in T
      <3> HIDE DEF T
      <3> QED
        BY <2>3, <2>4
    <2>6. g[k - (k - 1)] = f[k - (k - 1)]
      BY <2>5
    <2> QED
      BY <2>4, <2>6
  <1> QED
    BY <1>5, <1>6, <1>12 DEF v

\* The pair bpe_merge_piece joins is the first of the lowest rank.
LEMMA BestIsFirst ==
  ASSUME NEW w \in Words, Ranks(w) # {}
  PROVE  LET r == Min(Ranks(w)) IN
         /\ r \in Ranks(w) /\ \A q \in Ranks(w) : r <= q
         /\ r \in DOMAIN Merges /\ r \in Nat
         /\ Best(w) \in 1 .. Len(w) - 1 /\ r \in RanksAt(w, Best(w))
         /\ \A j \in 1 .. Best(w) - 1 : r \notin RanksAt(w, j)
  <1> DEFINE r == Min(Ranks(w))
             places == {k \in 1 .. Len(w) - 1 : r \in RanksAt(w, k)}
  <1>1. Ranks(w) \in SUBSET Nat /\ Ranks(w) \subseteq DOMAIN Merges
    <2>1. DOMAIN Merges \subseteq Nat
      BY VocabularyAssumption
    <2> QED
      BY <2>1 DEF Ranks, RanksAt
  <1>2. r \in Ranks(w) /\ \A q \in Ranks(w) : r <= q
    BY <1>1, MinIs
  <1> HIDE DEF r
  <1>3. places # {} /\ places \in SUBSET Nat
    <2>1. \E k \in 1 .. Len(w) - 1 : r \in RanksAt(w, k)
      BY <1>2 DEF Ranks
    <2> QED
      BY <2>1
  <1>4. Best(w) \in places /\ \A k \in places : Best(w) <= k
    <2>1. Best(w) = Min(places)
      BY DEF Best, r
    <2> HIDE DEF places
    <2> QED
      BY <1>3, <2>1, MinIs
  <1>5. Best(w) \in 1 .. Len(w) - 1 /\ r \in RanksAt(w, Best(w))
    BY <1>4
  <1>6. ASSUME NEW j \in 1 .. Best(w) - 1 PROVE r \notin RanksAt(w, j)
    <2>1. Len(w) \in Nat
      BY DEF Words
    <2>2. j \in 1 .. Len(w) - 1 /\ ~(Best(w) <= j)
      BY <1>5, <2>1
    <2> QED
      BY <1>4, <2>2
  <1> QED
    BY <1>1, <1>2, <1>5, <1>6 DEF r

\* Merging all occurrences makes a word shorter.
LEMMA JoinAllShrinks ==
  ASSUME NEW w \in Words, Ranks(w) # {}
  PROVE  /\ JoinAll(w, Min(Ranks(w))) \in Words
         /\ Len(JoinAll(w, Min(Ranks(w)))) < Len(w)
  <1> DEFINE r == Min(Ranks(w))
             k == Best(w)
             v == Joined(w, k)
  <1>1. k \in 1 .. Len(w) - 1 /\ r \in RanksAt(w, k) /\ \A j \in 1 .. k - 1 : r \notin RanksAt(w, j)
    BY BestIsFirst
  <1> HIDE DEF r, k
  <1>2. v \in Words /\ Len(v) = Len(w) - 1
    BY <1>1, JoinedIs
  <1>3. JoinAll(v, r) = JoinAll(w, r)
    BY <1>1, OneJoinFirst
  <1> HIDE DEF v
  <1>4. PICK f : Joins(f, v, r) /\ JoinAll(v, r) = f[1]
    BY <1>2, JoinsExists
  <1>5. Len(v) \in Nat /\ Len(w) \in Nat
    BY <1>2 DEF Words
  <1>6. 1 \in 1 .. Len(v) + 1 /\ Len(v) + 1 - 1 = Len(w) - 1
    BY <1>2, <1>5
  <1>7. f[1] \in Words /\ Len(f[1]) <= Len(v) + 1 - 1
    BY <1>2, <1>4, <1>6, JoinsFits
  <1>8. Len(f[1]) \in Nat
    BY <1>7 DEF Words
  <1>9. Len(f[1]) < Len(w)
    BY <1>5, <1>6, <1>7, <1>8
  <1> QED
    BY <1>3, <1>4, <1>7, <1>9 DEF r

\* Encoded is what its definition says, on every word.
LEMMA EncodedIs ==
  ASSUME NEW w \in Words
  PROVE  Encoded[w] = IF Ranks(w) = {} THEN w ELSE Encoded[JoinAll(w, Min(Ranks(w)))]
  <1> DEFINE D == Words
             Down(v) == JoinAll(v, Min(Ranks(v)))
             stop == {v \in D : Ranks(v) = {}}
             size == [v \in D |-> Len(v)]
             end == [v \in D |-> v]
             after == [v \in D |-> IF Ranks(v) = {} THEN v ELSE Down(v)]
             wrap == [xv \in D \X D |-> xv[2]]
             Is(f) == f = [v \in Seq(Seq(Byte)) |-> IF Ranks(v) = {} THEN v ELSE f[Down(v)]]
  <1>1. size \in [D -> Nat]
    BY DEF Words
  <1>2. end \in [D -> D] /\ wrap \in [D \X D -> D]
    OBVIOUS
  <1>3. \A v \in D : Ranks(v) # {} => Down(v) \in D /\ Len(Down(v)) < Len(v)
    BY JoinAllShrinks
  <1> HIDE DEF Down
  <1>4. after \in [D -> D]
    BY <1>3
  <1>5. \A v \in D : v \notin stop => size[after[v]] < size[v]
    BY <1>3
  <1>6. \A x, y \in D : wrap[<<x, y>>] = y
    OBVIOUS
  <1>7. \A v \in D : (v \in stop <=> Ranks(v) = {}) /\ end[v] = v /\ (Ranks(v) # {} => after[v] = Down(v))
    OBVIOUS
  <1> HIDE DEF size, end, after, wrap, stop
  <1>8. Shrinks(D, size, stop, after)
    BY <1>1, <1>4, <1>5 DEF Shrinks
  <1>9. PICK f : Unfolds(f, D, D, stop, end, after, wrap)
    <2> HIDE DEF D
    <2> QED
      BY <1>2, <1>8, SizeRecursion
  <1>10. ASSUME NEW v \in D PROVE f[v] = IF Ranks(v) = {} THEN v ELSE f[Down(v)]
    <2>1. f \in [D -> D] /\ f[v] = IF v \in stop THEN end[v] ELSE wrap[<<v, f[after[v]]>>]
      BY <1>9 DEF Unfolds
    <2>2. CASE Ranks(v) = {}
      BY <1>7, <2>1, <2>2
    <2>3. CASE Ranks(v) # {}
      <3>1. v \notin stop /\ after[v] = Down(v) /\ Down(v) \in D
        BY <1>3, <1>7, <2>3
      <3>2. f[Down(v)] \in D
        BY <2>1, <3>1
      <3>3. f[v] = wrap[<<v, f[Down(v)]>>]
        BY <2>1, <3>1
      <3> QED
        BY <1>6, <2>3, <3>2, <3>3
    <2> QED
      BY <2>2, <2>3
  <1>11. f \in [D -> D]
    BY <1>9 DEF Unfolds
  <1>12. Is(f)
    BY <1>10, <1>11 DEF Words
  <1> DEFINE code == CHOOSE g : Is(g)
  <1>13. Is(code)
    BY <1>12
  <1>14. Encoded = code
    BY DEF Encoded, Down
  <1> HIDE DEF code
  <1>15. code[w] = IF Ranks(w) = {} THEN w ELSE code[Down(w)]
    BY <1>13 DEF Words
  <1> QED
    BY <1>14, <1>15 DEF Down

\* A merge leaves the symbols the original algorithm ends with.
LEMMA MergeKeepsEncoded ==
  ASSUME NEW w \in Words, Ranks(w) # {}
  PROVE  Encoded[Joined(w, Best(w))] = Encoded[w]
  <1> DEFINE r == Min(Ranks(w))
             k == Best(w)
             v == Joined(w, k)
             n == Len(w)
  <1>1. /\ \A q \in Ranks(w) : r <= q
        /\ r \in Nat /\ r \in DOMAIN Merges
        /\ k \in 1 .. n - 1 /\ r \in RanksAt(w, k)
        /\ \A j \in 1 .. k - 1 : r \notin RanksAt(w, j)
    BY BestIsFirst
  <1>2. Encoded[w] = Encoded[JoinAll(w, r)]
    BY EncodedIs
  <1>3. n \in Nat
    BY DEF Words
  <1> HIDE DEF r, k
  <1>4. v \in Words /\ Len(v) = n - 1
    BY <1>1, JoinedIs
  <1>5. /\ \A j \in 1 .. k - 2 : RanksAt(v, j) = RanksAt(w, j)
        /\ \A j \in k + 1 .. n - 2 : RanksAt(v, j) = RanksAt(w, j + 1)
        /\ \A q \in RanksAt(v, k) : q > r
        /\ k > 1 => \A q \in RanksAt(v, k - 1) : q > r
    BY <1>1, JoinedRanks
  <1>6. JoinAll(v, r) = JoinAll(w, r)
    BY <1>1, OneJoinFirst
  <1> HIDE DEF v, n
  \* no pair of a lower rank appears
  <1>7. ASSUME NEW q \in Ranks(v) PROVE r <= q /\ q \in Nat
    <2>1. PICK j \in 1 .. Len(v) - 1 : q \in RanksAt(v, j)
      BY DEF Ranks
    <2>2. q \in Nat
      <3>1. q \in DOMAIN Merges
        BY <2>1 DEF RanksAt
      <3> QED
        BY <3>1, MergesAre
    <2>3. CASE j \in 1 .. k - 2
      <3>1. q \in RanksAt(w, j) /\ j \in 1 .. n - 1
        BY <1>1, <1>3, <1>4, <1>5, <2>1, <2>3
      <3>2. q \in Ranks(w)
        BY <3>1 DEF Ranks, n
      <3> QED
        BY <1>1, <2>2, <3>2
    <2>4. CASE j \in k + 1 .. n - 2
      <3>1. q \in RanksAt(w, j + 1) /\ j + 1 \in 1 .. n - 1
        BY <1>1, <1>3, <1>4, <1>5, <2>1, <2>4
      <3>2. q \in Ranks(w)
        BY <3>1 DEF Ranks, n
      <3> QED
        BY <1>1, <2>2, <3>2
    <2>5. CASE j = k
      <3>1. q > r
        BY <1>5, <2>1, <2>5
      <3> QED
        BY <1>1, <2>2, <3>1
    <2>6. CASE j = k - 1 /\ k > 1
      <3>1. q > r
        BY <1>5, <2>1, <2>6
      <3> QED
        BY <1>1, <2>2, <3>1
    <2>7. j \in 1 .. k - 2 \/ j \in k + 1 .. n - 2 \/ j = k \/ (j = k - 1 /\ k > 1)
      BY <1>1, <1>3, <1>4, <2>1
    <2> QED
      BY <2>3, <2>4, <2>5, <2>6, <2>7
  <1>8. CASE r \in Ranks(v)
    <2>1. Ranks(v) # {} /\ Ranks(v) \in SUBSET Nat
      BY <1>7, <1>8
    <2>2. Min(Ranks(v)) \in Ranks(v) /\ Min(Ranks(v)) <= r
      BY <1>8, <2>1, MinIs
    <2>3. r <= Min(Ranks(v)) /\ Min(Ranks(v)) \in Nat
      BY <1>7, <2>2
    <2>4. Min(Ranks(v)) = r
      BY <1>1, <2>2, <2>3
    <2>5. Encoded[v] = Encoded[JoinAll(v, r)]
      BY <1>4, <2>1, <2>4, EncodedIs
    <2> QED
      BY <1>2, <1>6, <2>5 DEF v, k
  <1>9. CASE r \notin Ranks(v)
    <2>1. \A j \in 1 .. Len(v) - 1 : r \notin RanksAt(v, j)
      BY <1>9 DEF Ranks
    <2>2. JoinAll(v, r) = v
      BY <1>4, <2>1, NoneToJoin
    <2> QED
      BY <1>2, <1>6, <2>2 DEF v, k
  <1> QED
    BY <1>8, <1>9

\* However the merges of a vocabulary share their symbols, the one pair at a time
\* bpe_merge_piece joins (tokenizer.c:320-334) leads to the symbols of the
\* original algorithm, which joins all occurrences of a pair at once: after every
\* merge, of every piece of every text.
THEOREM OneByOneIsBpe == TSpec => []MergesAreBpe
  <1>1. TInit => MergesAreBpe
    BY DEF TInit, MergesAreBpe
  <1>2. BpeInv /\ MergesAreBpe /\ [TNext]_<<type, pc, b, bpe, sp>> => MergesAreBpe'
    <2> SUFFICES ASSUME BpeInv, MergesAreBpe, [TNext]_<<type, pc, b, bpe, sp>>, pc' = "merge"
                 PROVE  Encoded[symbols'] = Encoded[Symbols(Last(pieces').str)]
      BY DEF MergesAreBpe
    <2>1. CASE pc = "merge" /\ UNCHANGED <<symbols, pieces>>
      BY <2>1 DEF MergesAreBpe
    <2>2. CASE TakePiece
      <3> DEFINE piece == SubSeq(Rest, 1, NextPiece(Rest))
      <3>1. /\ i < Len(text) /\ symbols' = Symbols(piece)
            /\ pieces' = Append(pieces, Ordinary(piece))
        BY <2>2 DEF TakePiece
      <3>2. text \in Seq(Byte) /\ i \in 0 .. Len(text) /\ pieces \in Seq(TextPart) /\ Len(text) \in Nat
        BY DEF BpeInv, BpeTypes
      <3>3. Rest \in Seq(Byte) /\ Len(Rest) = Len(text) - i
        <4>1. 0 \in 0 .. Len(text) - i
          BY <3>2
        <4> QED
          BY <3>2, <4>1, FrontOfRest DEF Rest
      <3>4. Rest # <<>>
        BY <3>1, <3>2, <3>3
      <3>5. piece \in Seq(Byte)
        BY <3>3, <3>4, PieceFits, PrefixIs
      <3>6. Ordinary(piece) \in TextPart /\ Ordinary(piece).str = piece
        BY <3>5 DEF Ordinary, TextPart
      <3>7. Last(pieces').str = piece
        <4> HIDE DEF piece
        <4> QED
          BY <3>1, <3>2, <3>6, FrontOfAppend
      <3> HIDE DEF piece
      <3> QED
        BY <3>1, <3>7
    <2>3. CASE Merge
      <3>1. /\ pc = "merge" /\ Ranks(symbols) # {} /\ pieces' = pieces
            /\ symbols' = Joined(symbols, Best(symbols))
        BY <2>3 DEF Merge
      <3>2. symbols \in Words
        <4>1. symbols \in Seq(Vocab)
          BY DEF BpeInv, BpeTypes
        <4> QED
          BY <4>1, VocabSpells DEF Words
      <3>3. Encoded[symbols'] = Encoded[symbols]
        BY <3>1, <3>2, MergeKeepsEncoded
      <3>4. Encoded[symbols] = Encoded[Symbols(Last(pieces).str)]
        BY <3>1 DEF MergesAreBpe
      <3> QED
        BY <3>1, <3>3, <3>4
    <2>4. CASE type = "sp" /\ UNCHANGED bpe /\ Sp!SpNext
      <3>1. pc = "merge" /\ UNCHANGED <<symbols, pieces>>
        BY <2>4 DEF bpe, Sp!SpNext, Sp!LoadPiece, Sp!SpCall, Sp!TakeCharacter, Sp!AllTaken, Sp!Join, Sp!SpReturn
      <3> QED
        BY <2>1, <3>1
    <2>5. CASE type = "bpe" /\ Next
      BY <2>1, <2>2, <2>3, <2>5 DEF Next, Call, TakeSpecial, Emit, Return, Ended, vars
    <2>6. CASE UNCHANGED <<pc, bpe>>
      BY <2>1, <2>6 DEF bpe
    <2> QED
      BY <2>4, <2>5, <2>6 DEF TNext, BuildByte, Built, Ended, vars, bpe
  <1> QED
    BY <1>1, <1>2, BpeInvariant, PTL DEF TSpec
=============================================================================
