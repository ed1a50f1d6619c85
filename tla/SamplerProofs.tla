---------------------------- MODULE SamplerProofs ----------------------------
(***************************************************************************)
(* Proofs about Sampler, for every vocabulary, window, set of penalties    *)
(* and sequence of tokens: the ring is the window, the scan of the ring    *)
(* gives the penalties of the window, and a draw is what the filters allow.*)
(***************************************************************************)
EXTENDS Sampler, FiniteSetTheorems, FunctionTheorems, SequenceTheorems, NatRecursion

LEMMA ConstantsAre ==
  /\ N \in Nat \ {0} /\ MaxWindow \in Nat /\ Vocab \subseteq Token /\ 0 \in Vocab
  /\ Logits \subseteq Int /\ Token \subseteq Int
  /\ \A p \in Penalties : p.repeat \in Nat \ {0} /\ p.presence \in Int /\ p.frequency \in Int
  BY SizeAssumption, ValueAssumption DEF Vocab, Token

-----------------------------------------------------------------------------
(* The inductive invariant. *)

PenaltyTypes ==
    penalties.repeat \in Nat \ {0} /\ penalties.presence \in Int /\ penalties.frequency \in Int

RingTypes ==
    /\ hist_cap \in 0 .. MaxWindow
    /\ history \in [Slots(hist_cap) -> Token \cup {Junk}]

RingInv == PenaltyTypes /\ RingTypes /\ PrefixIsValid

\* There is a first largest logit.
LEMMA ArgmaxProperties ==
  ASSUME NEW v \in [Vocab -> Int]
  PROVE  /\ Argmax(v) \in Vocab
         /\ \A u \in Vocab : v[u] < v[Argmax(v)] \/ (v[u] = v[Argmax(v)] /\ Argmax(v) <= u)
  <1> DEFINE FirstBest(t, n) == \A u \in 0 .. n : v[u] < v[t] \/ (v[u] = v[t] /\ t <= u)
             S == {n \in 0 .. N - 1 : \E t \in 0 .. n : FirstBest(t, n)}
  <1>1. N - 1 \in Nat /\ Vocab = 0 .. N - 1
    BY ConstantsAre DEF Vocab
  <1>2. 0 \in S
    <2>1. FirstBest(0, 0)
      OBVIOUS
    <2> QED
      BY <1>1, <2>1
  <1>3. ASSUME NEW n \in 0 .. (N - 1) - 1, n \in S PROVE n + 1 \in S
    <2>1. PICK t \in 0 .. n : FirstBest(t, n)
      BY <1>3
    <2>2. n + 1 \in 0 .. N - 1 /\ \A u \in 0 .. n + 1 : u \in Vocab /\ (u \in 0 .. n \/ u = n + 1)
      BY <1>1
    <2>3. \A u \in 0 .. n + 1 : v[u] \in Int
      BY <2>2
    <2>4. t \in 0 .. n + 1 /\ n + 1 \in 0 .. n + 1 /\ n + 1 \in Int
      OBVIOUS
    <2>5. CASE v[n + 1] <= v[t]
      <3>1. FirstBest(t, n + 1)
        BY <2>1, <2>2, <2>3, <2>4, <2>5
      <3> QED
        BY <2>2, <2>4, <3>1
    <2>6. CASE ~(v[n + 1] <= v[t])
      <3>1. FirstBest(n + 1, n + 1)
        BY <2>1, <2>2, <2>3, <2>4, <2>6
      <3> QED
        BY <2>2, <2>4, <3>1
    <2> QED
      BY <2>5, <2>6
  <1>4. S \in SUBSET (0 .. N - 1)
    OBVIOUS
  <1> HIDE DEF S
  <1>5. S = 0 .. N - 1
    BY <1>1, <1>2, <1>3, <1>4, BoundedInduction
  <1>6. N - 1 \in S
    BY <1>1, <1>5
  <1>7. \E t \in Vocab : FirstBest(t, N - 1)
    BY <1>1, <1>6 DEF S
  <1> QED
    BY <1>1, <1>7 DEF Argmax

-----------------------------------------------------------------------------
(* apply_penalties. *)

\* What the scan does at its k-th step, as a function.
ScanStep ==
    [kv \in (1 .. hist_len) \X [Vocab -> Int] |->
       LET t == history[kv[1] - 1] IN
       IF t \in Vocab THEN [kv[2] EXCEPT ![t] = Penalise(@, kv[1] - 1)] ELSE kv[2]]

LEMMA PenaliseType ==
  ASSUME RingInv, NEW x \in Int, NEW k
  PROVE  Penalise(x, k) \in Int /\ Discourage(x) \in Int
  <1>1. PenaltyTypes
    BY DEF RingInv
  <1>2. Discourage(x) \in Int
    BY <1>1 DEF PenaltyTypes, Discourage
  <1> QED
    BY <1>1, <1>2 DEF PenaltyTypes, Penalise

\* The slots are scanned from the first on.
LEMMA ScanIs ==
  ASSUME RingInv, NEW raw \in [Vocab -> Int]
  PROVE  \E f : /\ f[0] = raw /\ Scan(raw) = f[hist_len]
                /\ \A k \in Slots(hist_len) :
                      f[k + 1] = IF history[k] \in Vocab
                                 THEN [f[k] EXCEPT ![history[k]] = Penalise(@, k)]
                                 ELSE f[k]
  <1> DEFINE A == [Vocab -> Int]
             Is(f) == f = [k \in 0 .. hist_len |->
                             IF k = 0 THEN raw
                             ELSE LET t == history[k - 1] IN
                                  IF t \in Vocab
                                  THEN [f[k - 1] EXCEPT ![t] = Penalise(@, k - 1)]
                                  ELSE f[k - 1]]
  <1>1. hist_len \in Nat
    BY DEF RingInv, RingTypes, PrefixIsValid
  <1>2. ScanStep \in [(1 .. hist_len) \X A -> A]
    <2> SUFFICES ASSUME NEW kv \in (1 .. hist_len) \X A
                 PROVE  (LET t == history[kv[1] - 1] IN
                         IF t \in Vocab THEN [kv[2] EXCEPT ![t] = Penalise(@, kv[1] - 1)]
                         ELSE kv[2]) \in A
      BY DEF ScanStep
    <2>1. kv[2] \in [Vocab -> Int]
      OBVIOUS
    <2>2. \A t \in Vocab : Penalise(kv[2][t], kv[1] - 1) \in Int
      BY <2>1, PenaliseType
    <2> QED
      BY <2>1, <2>2
  <1>3. PICK f \in [0 .. hist_len -> A] : Recurses(f, hist_len, raw, ScanStep)
    <2>1. raw \in A
      OBVIOUS
    <2> HIDE DEF A
    <2> QED
      BY <1>1, <1>2, <2>1, RecursionExists
  <1>4. Is(f)
    <2>1. ASSUME NEW k \in 0 .. hist_len
          PROVE  f[k] = IF k = 0 THEN raw
                        ELSE LET t == history[k - 1] IN
                             IF t \in Vocab
                             THEN [f[k - 1] EXCEPT ![t] = Penalise(@, k - 1)]
                             ELSE f[k - 1]
      <3>1. f[k] = IF k = 0 THEN raw ELSE ScanStep[<<k, f[k - 1]>>]
        BY <1>3 DEF Recurses
      <3>2. CASE k = 0
        BY <3>1, <3>2
      <3>3. CASE k # 0
        <4>1. k \in 1 .. hist_len /\ k - 1 \in 0 .. hist_len
          BY <1>1, <3>3
        <4>2. f[k - 1] \in A
          BY <1>3, <4>1
        <4>3. <<k, f[k - 1]>> \in (1 .. hist_len) \X A
          BY <4>1, <4>2
        <4>4. ScanStep[<<k, f[k - 1]>>]
                = LET t == history[k - 1] IN
                  IF t \in Vocab THEN [f[k - 1] EXCEPT ![t] = Penalise(@, k - 1)]
                  ELSE f[k - 1]
          <5> HIDE DEF A
          <5> QED
            BY <4>3 DEF ScanStep, A
        <4> QED
          BY <3>1, <3>3, <4>4
      <3> QED
        BY <3>2, <3>3
    <2> QED
      BY <1>3, <2>1
  <1> DEFINE scanned == CHOOSE g : Is(g)
  <1>5. Scan(raw) = scanned[hist_len]
    BY DEF Scan
  <1>6. Is(scanned)
    <2> HIDE DEF Is
    <2> QED
      BY <1>4
  <1> HIDE DEF scanned
  <1>7. scanned[0] = raw
    <2>1. 0 \in 0 .. hist_len
      BY <1>1
    <2> QED
      BY <1>6, <2>1
  <1>8. ASSUME NEW k \in Slots(hist_len)
        PROVE  scanned[k + 1] = IF history[k] \in Vocab
                                THEN [scanned[k] EXCEPT ![history[k]] = Penalise(@, k)]
                                ELSE scanned[k]
    <2>1. k + 1 \in 0 .. hist_len /\ k + 1 # 0 /\ (k + 1) - 1 = k
      BY <1>1 DEF Slots
    <2> QED
      BY <1>6, <2>1
  <1> QED
    BY <1>5, <1>7, <1>8

\* The slots before k that hold t.
Holders(k, t) == {j \in Slots(k) : history[j] = t}

LEMMA HoldersAre ==
  ASSUME NEW k \in Nat, NEW t
  PROVE  /\ IsFiniteSet(Holders(k, t)) /\ Cardinality(Holders(k, t)) \in Nat
         /\ Cardinality(Holders(k, t)) = 0 <=> Holders(k, t) = {}
         /\ Cardinality(Holders(0, t)) = 0
         /\ history[k] # t => Holders(k + 1, t) = Holders(k, t)
         /\ history[k] = t => Cardinality(Holders(k + 1, t)) = Cardinality(Holders(k, t)) + 1
         /\ history[k] = t => (FirstAt(k) <=> Holders(k, t) = {})
  <1>1. IsFiniteSet(Slots(k)) /\ k - 1 \in Int
    BY FS_Interval DEF Slots
  <1>2. IsFiniteSet(Holders(k, t))
    BY <1>1, FS_Subset DEF Holders
  <1>3. Holders(0, t) = {}
    BY DEF Holders, Slots
  <1>4. Slots(k + 1) = Slots(k) \cup {k} /\ k \notin Slots(k)
    BY DEF Slots
  <1>5. history[k] = t => Holders(k + 1, t) = Holders(k, t) \cup {k} /\ k \notin Holders(k, t)
    BY <1>4 DEF Holders
  <1>6. history[k] # t => Holders(k + 1, t) = Holders(k, t)
    BY <1>4 DEF Holders
  <1>7. history[k] = t => (FirstAt(k) <=> Holders(k, t) = {})
    BY DEF FirstAt, Holders
  <1>8. history[k] = t => Cardinality(Holders(k + 1, t)) = Cardinality(Holders(k, t)) + 1
    BY <1>2, <1>5, FS_AddElement
  <1> QED
    BY <1>2, <1>3, <1>6, <1>7, <1>8, FS_EmptySet, FS_CardinalityType

\* What c occurrences of a token do to its logit.
Penalised(x, c) ==
    IF c = 0 THEN x ELSE Discourage(x) - penalties.presence - c * penalties.frequency

LEMMA PenalisedOnce ==
  ASSUME RingInv, NEW x \in Int, NEW k \in Nat, NEW t, history[k] = t
  PROVE  /\ Penalised(x, Cardinality(Holders(k + 1, t)))
              = Penalise(Penalised(x, Cardinality(Holders(k, t))), k)
         /\ Penalised(x, Cardinality(Holders(k, t))) \in Int
  <1> DEFINE c == Cardinality(Holders(k, t))
             d == Discourage(x)
             p == penalties.presence
             f == penalties.frequency
  <1>1. /\ c \in Nat /\ Cardinality(Holders(k + 1, t)) = c + 1
        /\ FirstAt(k) <=> c = 0
    BY HoldersAre
  <1>2. d \in Int /\ p \in Int /\ f \in Int
    BY PenaliseType DEF RingInv, PenaltyTypes
  <1>3. Penalised(x, c + 1) = d - p - (c + 1) * f
    BY <1>1 DEF Penalised
  <1>4. c = 0 => Penalised(x, c) = x
    BY DEF Penalised
  <1>5. c # 0 => Penalised(x, c) = d - p - c * f
    BY DEF Penalised
  <1>6. Penalise(Penalised(x, c), k)
          = (IF c = 0 THEN d - p ELSE Penalised(x, c)) - f
    BY <1>1, <1>4 DEF Penalise
  <1> HIDE DEF c, d, p, f
  <1>7. (c + 1) * f = c * f + f /\ c * f \in Int /\ (c = 0 => c * f = 0)
    BY <1>1, <1>2
  <1>8. Penalised(x, c + 1) = Penalise(Penalised(x, c), k)
    BY <1>2, <1>3, <1>5, <1>6, <1>7
  <1>9. Penalised(x, c) \in Int
    BY <1>2, <1>4, <1>5, <1>7
  <1> QED
    BY <1>1, <1>8, <1>9 DEF c

\* The scan leaves every logit as its occurrences in the ring make it.
LEMMA ScanCounts ==
  ASSUME RingInv, NEW raw \in [Vocab -> Int]
  PROVE  Scan(raw) = [t \in Vocab |-> Penalised(raw[t], Cardinality(Holders(hist_len, t)))]
  <1> PICK f : /\ f[0] = raw /\ Scan(raw) = f[hist_len]
               /\ \A k \in Slots(hist_len) :
                     f[k + 1] = IF history[k] \in Vocab
                                THEN [f[k] EXCEPT ![history[k]] = Penalise(@, k)]
                                ELSE f[k]
    BY ScanIs
  <1> DEFINE After(k) == [t \in Vocab |-> Penalised(raw[t], Cardinality(Holders(k, t)))]
             S == {k \in 0 .. hist_len : f[k] = After(k)}
  <1>1. hist_len \in Nat
    BY DEF RingInv, RingTypes, PrefixIsValid
  <1>2. 0 \in S
    <2>1. After(0) = raw
      BY HoldersAre DEF Penalised
    <2> QED
      BY <1>1, <2>1
  <1>3. ASSUME NEW k \in 0 .. hist_len - 1, k \in S PROVE k + 1 \in S
    <2>1. /\ k \in Nat /\ k \in Slots(hist_len) /\ k + 1 \in 0 .. hist_len
          /\ f[k] = After(k)
      BY <1>1, <1>3 DEF Slots
    <2>2. f[k + 1] = IF history[k] \in Vocab
                     THEN [f[k] EXCEPT ![history[k]] = Penalise(@, k)]
                     ELSE f[k]
      BY <2>1
    <2>3. \A t \in Vocab : history[k] # t => After(k + 1)[t] = After(k)[t]
      BY <2>1, HoldersAre
    <2>4. \A t \in Vocab : history[k] = t => After(k + 1)[t] = Penalise(After(k)[t], k)
      BY <2>1, PenalisedOnce
    <2>5. f[k + 1] = After(k + 1)
      <3>1. CASE history[k] \notin Vocab
        <4>1. \A t \in Vocab : After(k + 1)[t] = After(k)[t]
          BY <2>3, <3>1
        <4> QED
          BY <2>1, <2>2, <3>1, <4>1
      <3>2. CASE history[k] \in Vocab
        <4>1. f[k + 1] = [After(k) EXCEPT ![history[k]] = Penalise(@, k)]
          BY <2>1, <2>2, <3>2
        <4> QED
          BY <2>3, <2>4, <3>2, <4>1
      <3> QED
        BY <3>1, <3>2
    <2> QED
      BY <2>1, <2>5
  <1> HIDE DEF After
  <1>4. S \in SUBSET (0 .. hist_len)
    OBVIOUS
  <1> HIDE DEF S
  <1>5. S = 0 .. hist_len
    BY <1>1, <1>2, <1>3, <1>4, BoundedInduction
  <1>6. hist_len \in S
    BY <1>1, <1>5
  <1> QED
    BY <1>6 DEF S, After

-----------------------------------------------------------------------------
(* Where the window is in the ring. *)

\* The slot of the k-th token of the window.
Slot(k) == (hist_pos - hist_len + k - 1) % hist_cap

LEMMA RingIs ==
  ASSUME RingInv
  PROVE  /\ hist_cap \in Nat /\ hist_len \in Nat /\ hist_pos \in Nat
         /\ hist_cap \in 0 .. MaxWindow /\ hist_len <= hist_cap
         /\ hist_cap = 0 => hist_len = 0 /\ hist_pos = 0
         /\ hist_cap # 0 => hist_pos < hist_cap
         /\ hist_len < hist_cap => hist_pos = hist_len
         /\ history \in [Slots(hist_cap) -> Token \cup {Junk}]
         /\ \A j \in Slots(hist_len) : history[j] \in Token
  BY ConstantsAre DEF RingInv, RingTypes, PrefixIsValid, Slots

\* The arithmetic of a ring of c slots, n of them in use up to p.
LEMMA RingArithmetic ==
  ASSUME NEW c \in Nat \ {0}, NEW p \in 0 .. c - 1, NEW n \in 0 .. c, n < c => p = n,
         NEW k \in 1 .. n
  PROVE  (p - n + k - 1) % c = IF n < c THEN k - 1
                               ELSE IF p + k - 1 < c THEN p + k - 1 ELSE p + k - 1 - c
  <1> DEFINE a == p - n + k - 1
  <1>1. a \in Int
    OBVIOUS
  <1> HIDE DEF a
  <1>2. /\ 0 <= a /\ a < c => a % c = a
        /\ -c <= a /\ a < 0 => a % c = a + c
    BY <1>1, ModNear
  <1> QED
    BY <1>2 DEF a

LEMMA SlotIs ==
  ASSUME RingInv, NEW k \in 1 .. hist_len
  PROVE  /\ Slot(k) = IF hist_len < hist_cap THEN k - 1
                      ELSE IF hist_pos + k - 1 < hist_cap THEN hist_pos + k - 1
                      ELSE hist_pos + k - 1 - hist_cap
         /\ Slot(k) \in Slots(hist_len)
  <1>1. /\ hist_cap \in Nat \ {0} /\ hist_len \in 0 .. hist_cap /\ hist_pos \in 0 .. hist_cap - 1
        /\ hist_len < hist_cap => hist_pos = hist_len
    BY RingIs
  <1>2. Slot(k) = IF hist_len < hist_cap THEN k - 1
                  ELSE IF hist_pos + k - 1 < hist_cap THEN hist_pos + k - 1
                  ELSE hist_pos + k - 1 - hist_cap
    BY <1>1, RingArithmetic DEF Slot
  <1> QED
    BY <1>1, <1>2 DEF Slots

LEMMA WindowIs ==
  ASSUME RingInv
  PROVE  /\ Window = [k \in 1 .. hist_len |-> history[Slot(k)]]
         /\ Window \in Seq(Token) /\ Len(Window) = hist_len
  <1>1. Window = [k \in 1 .. hist_len |-> history[Slot(k)]]
    BY DEF Window, Slot
  <1>2. \A k \in 1 .. hist_len : history[Slot(k)] \in Token
    BY RingIs, SlotIs
  <1>3. Window \in [1 .. hist_len -> Token] /\ hist_len \in Nat
    BY <1>1, <1>2, RingIs
  <1> QED
    BY <1>1, <1>3

\* Every slot in use is that of one place of the window.
LEMMA CountIs ==
  ASSUME RingInv, NEW t
  PROVE  Count(t) = Cardinality(Holders(hist_len, t))
  <1> DEFINE P == {k \in DOMAIN Window : Window[k] = t}
             H == Holders(hist_len, t)
             f == [k \in P |-> Slot(k)]
  <1>1. P = {k \in 1 .. hist_len : history[Slot(k)] = t}
    BY WindowIs
  <1>2. /\ hist_cap \in Nat /\ hist_len \in Nat /\ hist_pos \in Nat
        /\ hist_len <= hist_cap /\ (hist_cap # 0 => hist_pos < hist_cap)
    BY RingIs
  <1>3. f \in [P -> H]
    BY <1>1, SlotIs DEF Holders
  <1>4. ASSUME NEW j \in P, NEW k \in P, f[j] = f[k] PROVE j = k
    <2>1. j \in 1 .. hist_len /\ k \in 1 .. hist_len /\ Slot(j) = Slot(k)
      BY <1>1, <1>4
    <2> QED
      BY <1>2, <2>1, SlotIs
  <1>5. ASSUME NEW h \in H PROVE \E k \in P : f[k] = h
    <2> DEFINE k == IF hist_len < hist_cap THEN h + 1
                    ELSE IF h >= hist_pos THEN h - hist_pos + 1
                    ELSE h - hist_pos + hist_cap + 1
    <2>1. h \in Nat /\ h < hist_len /\ history[h] = t
      BY <1>2 DEF Holders, Slots
    <2>2. k \in 1 .. hist_len
      BY <1>2, <2>1
    <2>3. Slot(k) = h
      BY <1>2, <2>1, <2>2, SlotIs
    <2> HIDE DEF k
    <2> QED
      BY <1>1, <2>1, <2>2, <2>3
  <1> HIDE DEF f
  <1>6. f \in Bijection(P, H)
    BY <1>3, <1>4, <1>5, Fun_IsBij
  <1>7. ExistsBijection(P, H)
    BY <1>6 DEF ExistsBijection
  <1>8. IsFiniteSet(P)
    <2>1. IsFiniteSet(1 .. hist_len)
      BY <1>2, FS_Interval
    <2> QED
      BY <1>1, <2>1, FS_Subset
  <1> QED
    BY <1>7, <1>8, FS_Bijection DEF Count

LEMMA RingInvFollows == RingInv => PenaltiesFollowWindow
  <1> SUFFICES ASSUME RingInv, NEW raw \in [Vocab -> Logits]
               PROVE  ApplyPenalties(raw) = Reference(raw)
    BY DEF PenaltiesFollowWindow
  <1>1. raw \in [Vocab -> Int]
    BY ConstantsAre
  <1>2. Reference(raw) = [t \in Vocab |-> Penalised(raw[t], Cardinality(Holders(hist_len, t)))]
    BY CountIs DEF Reference, Penalised
  <1>3. CASE hist_cap = 0
    <2>1. \A t \in Vocab : Cardinality(Holders(hist_len, t)) = 0
      BY <1>3, RingIs, HoldersAre
    <2>2. Reference(raw) = raw
      BY <1>1, <1>2, <2>1 DEF Penalised
    <2> QED
      BY <1>3, <2>2 DEF ApplyPenalties
  <1>4. CASE hist_cap # 0
    BY <1>1, <1>2, <1>4, ScanCounts DEF ApplyPenalties
  <1> QED
    BY <1>3, <1>4

-----------------------------------------------------------------------------
(* The steps: each keeps the invariant and is a step of the window. *)

LEMMA InitRing == Init => RingInv /\ Remembered!Init
  <1> SUFFICES ASSUME Init PROVE RingInv /\ Remembered!Init
    OBVIOUS
  <1>1. PenaltyTypes
    BY DEF Init, NoPenalties, PenaltyTypes
  <1>2. RingTypes /\ PrefixIsValid
    BY ConstantsAre DEF Init, RingTypes, PrefixIsValid, Slots
  <1>3. Window = <<>>
    BY DEF Init, Window
  <1> QED
    BY <1>1, <1>2, <1>3 DEF RingInv, Init, Remembered!Init

\* The ring is set up, cleared or freed.
LEMMA ForgetStep ==
  ASSUME RingInv, hist_len' = 0, hist_pos' = 0, hist_cap' \in 0 .. MaxWindow,
         history' \in [Slots(hist_cap') -> Token \cup {Junk}], PenaltyTypes'
  PROVE  RingInv' /\ Remembered!Forget
  <1>1. RingTypes'
    BY DEF RingTypes
  <1>2. PrefixIsValid'
    BY ConstantsAre DEF PrefixIsValid, Slots
  <1>3. Window' = <<>>
    BY DEF Window
  <1> QED
    BY <1>1, <1>2, <1>3 DEF RingInv, Remembered!Forget

LEMMA EmitStep ==
  ASSUME RingInv, NEW t \in Token, Accepted(t), UNCHANGED penalties
  PROVE  RingInv' /\ [Remembered!Next]_<<hist_cap, Window>>
  <1>1. CASE hist_cap = 0
    <2>1. UNCHANGED ring
      BY <1>1 DEF Accepted
    <2>2. RingInv'
      BY <2>1 DEF ring, RingInv, PenaltyTypes, RingTypes, PrefixIsValid
    <2>3. UNCHANGED <<hist_cap, Window>>
      BY <2>1 DEF ring, Window
    <2> QED
      BY <2>2, <2>3
  <1>2. CASE hist_cap # 0
    <2> DEFINE c == hist_cap
    <2>1. /\ c \in Nat \ {0} /\ hist_len \in Nat /\ hist_pos \in Nat
          /\ c \in 0 .. MaxWindow /\ hist_len <= c /\ hist_pos < c
          /\ hist_len < c => hist_pos = hist_len
          /\ history \in [Slots(c) -> Token \cup {Junk}]
          /\ \A j \in Slots(hist_len) : history[j] \in Token
      BY <1>2, RingIs
    <2>2. /\ history' = [history EXCEPT ![hist_pos] = t] /\ hist_cap' = c
          /\ hist_pos' = (hist_pos + 1) % c
          /\ hist_len' = IF hist_len < c THEN hist_len + 1 ELSE hist_len
      BY <1>2 DEF Accepted
    <2>3. hist_pos' = IF hist_pos + 1 < c THEN hist_pos + 1 ELSE 0
      <3> DEFINE a == hist_pos + 1
      <3>1. a \in Int /\ 0 <= a /\ (a < c \/ a = c)
        BY <2>1
      <3> HIDE DEF a, c
      <3>2. /\ 0 <= a /\ a < c => a % c = a
            /\ c <= a /\ a < 2 * c => a % c = a - c
        BY <2>1, <3>1, ModNear
      <3>3. a % c = IF a < c THEN a ELSE 0
        BY <2>1, <3>1, <3>2
      <3> QED
        BY <2>2, <3>3 DEF a
    <2>4. hist_pos \in Slots(c) /\ history'[hist_pos] = t
          /\ \A j \in Slots(c) : j # hist_pos => history'[j] = history[j]
      BY <2>1, <2>2 DEF Slots
    <2>5. RingInv'
      <3>1. RingTypes'
        BY <2>1, <2>2 DEF RingTypes
      <3>2. hist_len' \in 0 .. c /\ hist_pos' \in Slots(c)
            /\ (hist_len' < c => hist_pos' = hist_len')
        BY <2>1, <2>2, <2>3 DEF Slots
      <3>3. ASSUME NEW j \in Slots(hist_len') PROVE history'[j] \in Token
        <4>1. j \in Slots(c) /\ (j = hist_pos \/ j \in Slots(hist_len))
          BY <2>1, <2>2 DEF Slots
        <4> QED
          BY <2>1, <2>4, <4>1
      <3>4. DOMAIN history' = Slots(c)
        BY <2>1, <2>2
      <3>5. PrefixIsValid'
        BY <2>2, <3>2, <3>3, <3>4 DEF PrefixIsValid
      <3> QED
        BY <3>1, <3>5 DEF RingInv, PenaltyTypes
    <2>6. /\ Window \in Seq(Token) /\ Len(Window) = hist_len
          /\ \A k \in 1 .. hist_len : Window[k] = history[Slot(k)]
      BY WindowIs
    <2>7. Window' = [k \in 1 .. hist_len' |-> history'[Slot(k)']]
      BY DEF Window, Slot
    <2>8. ASSUME NEW k \in 1 .. hist_len'
          PROVE  Slot(k)' = IF hist_len' < c THEN k - 1
                            ELSE IF hist_pos' + k - 1 < c THEN hist_pos' + k - 1
                            ELSE hist_pos' + k - 1 - c
      <3>1. /\ hist_len' \in 0 .. c /\ hist_pos' \in 0 .. c - 1
            /\ hist_len' < c => hist_pos' = hist_len'
        BY <2>1, <2>2, <2>3
      <3> HIDE DEF c
      <3>2. (hist_pos' - hist_len' + k - 1) % c
              = IF hist_len' < c THEN k - 1
                ELSE IF hist_pos' + k - 1 < c THEN hist_pos' + k - 1
                ELSE hist_pos' + k - 1 - c
        BY <2>1, <3>1, RingArithmetic
      <3>3. Slot(k)' = (hist_pos' - hist_len' + k - 1) % c
        BY <2>2 DEF Slot
      <3> QED
        BY <3>2, <3>3
    <2>9. /\ Append(Window, t) \in Seq(Token) /\ Len(Append(Window, t)) = hist_len + 1
          /\ \A k \in 1 .. hist_len : Append(Window, t)[k] = Window[k]
          /\ Append(Window, t)[hist_len + 1] = t
      BY <2>6, AppendProperties
    <2>10. CASE hist_len < c
      <3>1. ASSUME NEW k \in 1 .. hist_len + 1 PROVE Window'[k] = Append(Window, t)[k]
        <4>1. k \in 1 .. hist_len' /\ Slot(k)' = k - 1
          BY <2>1, <2>2, <2>3, <2>8, <2>10
        <4>2. CASE k = hist_len + 1
          BY <2>1, <2>4, <2>7, <2>9, <2>10, <4>1, <4>2
        <4>3. CASE k # hist_len + 1
          <5>1. /\ k \in 1 .. hist_len /\ Slot(k) = k - 1 /\ k - 1 \in Slots(c)
                /\ k - 1 # hist_pos
            BY <2>1, <2>10, <4>3, SlotIs DEF Slots
          <5> QED
            BY <2>4, <2>6, <2>7, <2>9, <4>1, <5>1
        <4> QED
          BY <4>2, <4>3
      <3>2. Window' = Append(Window, t)
        <4>1. Append(Window, t) = [k \in 1 .. hist_len + 1 |-> Append(Window, t)[k]]
          BY <2>9, LenProperties
        <4>2. Window' = [k \in 1 .. hist_len + 1 |-> Window'[k]]
          BY <2>2, <2>7, <2>10
        <4> QED
          BY <3>1, <4>1, <4>2
      <3>3. Remembered!Emit(t)
        BY <2>2, <2>6, <2>10, <3>2 DEF Remembered!Emit, Remembered!Emitted
      <3> QED
        BY <2>5, <3>3 DEF Remembered!Next
    <2>11. CASE hist_len = c
      <3> DEFINE A == Append(Window, t)
                 last == SubSeq(A, 2, c + 1)
      <3>1. last \in Seq(Token) /\ Len(last) = c /\ \A k \in 1 .. c : last[k] = A[k + 1]
        <4>1. \A k \in 2 .. c + 1 : A[k] \in Token
          BY <2>1, <2>9, <2>11, ElementOfSeq
        <4> HIDE DEF A
        <4>2. /\ last \in Seq(Token) /\ Len(last) = IF 2 <= c + 1 THEN c + 1 - 2 + 1 ELSE 0
              /\ \A k \in 1 .. c + 1 - 2 + 1 : last[k] = A[2 + k - 1]
          BY <2>1, <4>1, SubSeqProperties
        <4>3. c + 1 - 2 + 1 = c /\ 2 <= c + 1 /\ \A k \in 1 .. c : 2 + k - 1 = k + 1
          BY <2>1
        <4> QED
          BY <4>2, <4>3
      <3>2. hist_len' = c
        BY <2>1, <2>2, <2>11
      <3>3. ASSUME NEW k \in 1 .. c PROVE Window'[k] = last[k]
        <4>1. Window'[k] = history'[Slot(k)'] /\ last[k] = A[k + 1]
          BY <2>7, <3>1, <3>2
        <4>2. CASE k = c
          <5>1. Slot(k)' = hist_pos
            BY <2>1, <2>3, <2>8, <3>2, <4>2
          <5> QED
            BY <2>4, <2>9, <2>11, <4>1, <4>2, <5>1
        <4>3. CASE k # c
          <5>1. k + 1 \in 1 .. hist_len
            BY <2>1, <2>11, <4>3
          <5>2. Slot(k)' = Slot(k + 1) /\ Slot(k + 1) # hist_pos /\ Slot(k + 1) \in Slots(c)
            <6>1. Slot(k + 1) = IF hist_pos + k < c THEN hist_pos + k ELSE hist_pos + k - c
              BY <2>1, <2>11, <5>1, SlotIs
            <6>2. Slot(k)' = IF hist_pos' + k - 1 < c THEN hist_pos' + k - 1
                             ELSE hist_pos' + k - 1 - c
              BY <2>1, <2>8, <3>2
            <6> QED
              BY <2>1, <2>3, <4>3, <6>1, <6>2 DEF Slots
          <5> QED
            BY <2>4, <2>6, <2>9, <4>1, <5>1, <5>2
        <4> QED
          BY <4>2, <4>3
      <3>4. Window' = last
        <4> HIDE DEF last
        <4>1. last = [k \in 1 .. c |-> last[k]]
          BY <3>1, LenProperties
        <4>2. Window' = [k \in 1 .. c |-> Window'[k]]
          BY <2>7, <3>2
        <4> QED
          BY <3>3, <4>1, <4>2
      <3>5. Remembered!Emitted(t) = last
        <4>1. Len(A) = c + 1 /\ (c + 1) - c + 1 = 2
          BY <2>1, <2>9, <2>11
        <4>2. ~(Len(Window) < c)
          BY <2>1, <2>6, <2>11
        <4> QED
          BY <4>1, <4>2 DEF Remembered!Emitted, Remembered!LastN
      <3>6. Remembered!Emit(t)
        BY <2>2, <3>4, <3>5 DEF Remembered!Emit
      <3> QED
        BY <2>5, <3>6 DEF Remembered!Next
    <2> QED
      BY <2>1, <2>10, <2>11
  <1> QED
    BY <1>1, <1>2

LEMMA ApplyPenaltiesType ==
  ASSUME RingInv, NEW raw \in [Vocab -> Int]
  PROVE  ApplyPenalties(raw) \in [Vocab -> Int]
  <1>1. ASSUME NEW t \in Vocab
        PROVE  Penalised(raw[t], Cardinality(Holders(hist_len, t))) \in Int
    <2>1. Cardinality(Holders(hist_len, t)) \in Nat /\ raw[t] \in Int
      BY RingIs, HoldersAre
    <2>2. Discourage(raw[t]) \in Int /\ PenaltyTypes
      BY <2>1, PenaliseType DEF RingInv
    <2> QED
      BY <2>1, <2>2 DEF Penalised, PenaltyTypes
  <1>2. Scan(raw) \in [Vocab -> Int]
    BY <1>1, ScanCounts
  <1> QED
    BY <1>2 DEF ApplyPenalties

LEMMA NextRing ==
  ASSUME RingInv, [Next]_vars
  PROVE  RingInv' /\ [Remembered!Next]_<<hist_cap, Window>>
  <1>1. CASE UNCHANGED vars
    BY <1>1 DEF vars, settings, ring, RingInv, PenaltyTypes, RingTypes, PrefixIsValid, Window
  <1>2. ASSUME NEW p \in Penalties, NEW n \in 0 .. MaxWindow, NEW min \in MinPs,
               SetPenalties(p, n, min)
        PROVE  RingInv' /\ Remembered!Forget
    <2>1. PenaltyTypes' /\ hist_len' = 0 /\ hist_pos' = 0
      BY <1>2, ConstantsAre DEF SetPenalties, PenaltyTypes
    <2>2. /\ hist_cap' \in 0 .. MaxWindow
          /\ history' \in [Slots(hist_cap') -> Token \cup {Junk}]
      <3>1. CASE NeedHistory(p, n)
        <4>1. /\ hist_cap' = n
              /\ history' = [i \in Slots(n) |-> IF i < hist_cap THEN history[i] ELSE Junk]
          BY <1>2, <3>1 DEF SetPenalties
        <4>2. \A i \in Slots(n) : i < hist_cap => history[i] \in Token \cup {Junk}
          BY RingIs DEF Slots
        <4> QED
          BY <4>1, <4>2
      <3>2. CASE ~NeedHistory(p, n)
        BY <1>2, <3>2, ConstantsAre DEF SetPenalties, Slots
      <3> QED
        BY <3>1, <3>2
    <2> QED
      BY <2>1, <2>2, ForgetStep
  <1>3. ASSUME NEW t \in Token, Accept(t)
        PROVE  RingInv' /\ [Remembered!Next]_<<hist_cap, Window>>
    BY <1>3, EmitStep DEF Accept, settings
  <1>4. CASE Reset
    <2>1. /\ hist_cap' \in 0 .. MaxWindow /\ hist_len' = 0 /\ hist_pos' = 0
          /\ history' \in [Slots(hist_cap') -> Token \cup {Junk}]
          /\ PenaltyTypes'
      BY <1>4, RingIs DEF Reset, settings, RingInv, PenaltyTypes
    <2> QED
      BY <2>1, ForgetStep DEF Remembered!Next
  <1>5. CASE Free
    <2>1. /\ hist_cap' \in 0 .. MaxWindow /\ hist_len' = 0 /\ hist_pos' = 0
          /\ history' \in [Slots(hist_cap') -> Token \cup {Junk}]
          /\ PenaltyTypes'
      BY <1>5, ConstantsAre DEF Free, settings, RingInv, PenaltyTypes, Slots
    <2> QED
      BY <2>1, ForgetStep DEF Remembered!Next
  <1>6. ASSUME NEW raw \in [Vocab -> Logits], SampleGreedy(raw)
        PROVE  RingInv' /\ [Remembered!Next]_<<hist_cap, Window>>
    <2>1. raw \in [Vocab -> Int]
      BY ConstantsAre
    <2>2. ApplyPenalties(raw) \in [Vocab -> Int]
      BY <2>1, ApplyPenaltiesType
    <2>3. Argmax(ApplyPenalties(raw)) \in Token
      BY <2>2, ArgmaxProperties, ConstantsAre
    <2> QED
      BY <1>6, <2>3, EmitStep DEF SampleGreedy, settings
  <1>7. ASSUME NEW raw \in [Vocab -> Logits], Truncate(raw)
        PROVE  RingInv' /\ UNCHANGED <<hist_cap, Window>>
    BY <1>7 DEF Truncate, settings, ring, RingInv, PenaltyTypes, RingTypes, PrefixIsValid, Window
  <1>8. ASSUME NEW t \in Vocab, Draw(t)
        PROVE  RingInv' /\ [Remembered!Next]_<<hist_cap, Window>>
    BY <1>8, EmitStep, ConstantsAre DEF Draw, settings
  <1> QED
    BY <1>1, <1>2, <1>3, <1>4, <1>5, <1>6, <1>7, <1>8 DEF Next, Remembered!Next

-----------------------------------------------------------------------------
(* The theorems about the ring. *)

LEMMA RingInvariant == Spec => []RingInv
  <1> QED
    BY InitRing, NextRing, PTL DEF Spec

\* The slots in use are history[0 .. hist_len) (src/sample.c:71-75), whatever
\* sequence of set, accept, reset, free and sample came before: the scan reads
\* no slot that was not written since the ring was set up.
THEOREM ValidEntriesAreAPrefix == Spec => []PrefixIsValid
  <1>1. RingInv => PrefixIsValid
    BY DEF RingInv
  <1> QED
    BY <1>1, RingInvariant, PTL

\* apply_penalties, which scans the ring from slot 0 and looks backwards for an
\* earlier occurrence, gives every logit what its occurrences in the window
\* call for, wherever the ring has wrapped.
THEOREM PenaltiesAreThoseOfTheWindow == Spec => []PenaltiesFollowWindow
  <1> QED
    BY RingInvFollows, RingInvariant, PTL

\* The ring implements the window: read from the oldest slot, it is always the
\* last tokens emitted, as many as repeat_last_n keeps.
THEOREM RingImplementsWindow == Spec => RingIsWindow
  <1>1. Spec => [][Remembered!Next]_<<hist_cap, Window>>
    BY RingInvariant, NextRing, PTL DEF Spec
  <1>2. Spec => Remembered!Init
    BY InitRing DEF Spec
  <1> QED
    BY <1>1, <1>2, PTL DEF RingIsWindow, Remembered!Spec

-----------------------------------------------------------------------------
(* The weight of a sequence of tokens. *)

LEMMA MassIs ==
  ASSUME NEW w \in [Vocab -> Nat], NEW s \in Seq(Vocab)
  PROVE  \E f \in [0 .. Len(s) -> Nat] :
            /\ f[0] = 0 /\ Mass(w, s) = f[Len(s)]
            /\ \A k \in 1 .. Len(s) : f[k] = f[k - 1] + w[s[k]]
  <1> DEFINE n == Len(s)
             step == [kv \in (1 .. n) \X Nat |-> kv[2] + w[s[kv[1]]]]
             Is(f) == f = [k \in 0 .. n |-> IF k = 0 THEN 0 ELSE f[k - 1] + w[s[k]]]
             sum == CHOOSE f : Is(f)
  <1>1. n \in Nat /\ \A k \in 1 .. n : s[k] \in Vocab /\ w[s[k]] \in Nat
    OBVIOUS
  <1>2. Mass(w, s) = sum[n]
    BY DEF Mass
  <1> HIDE DEF n
  <1>3. step \in [(1 .. n) \X Nat -> Nat]
    <2>1. ASSUME NEW kv \in (1 .. n) \X Nat PROVE kv[2] + w[s[kv[1]]] \in Nat
      <3>1. kv[1] \in 1 .. n /\ kv[2] \in Nat
        OBVIOUS
      <3> QED
        BY <1>1, <3>1
    <2> QED
      BY <2>1
  <1>4. PICK f \in [0 .. n -> Nat] : Recurses(f, n, 0, step)
    <2> HIDE DEF step
    <2> QED
      BY <1>1, <1>3, RecursionExists
  <1>5. Is(f)
    <2>1. ASSUME NEW k \in 0 .. n
          PROVE  f[k] = IF k = 0 THEN 0 ELSE f[k - 1] + w[s[k]]
      <3>1. f[k] = IF k = 0 THEN 0 ELSE step[<<k, f[k - 1]>>]
        <4> HIDE DEF step
        <4> QED
          BY <1>4 DEF Recurses
      <3>2. CASE k = 0
        BY <3>1, <3>2
      <3>3. CASE k # 0
        <4>1. k \in 1 .. n /\ k - 1 \in 0 .. n
          BY <1>1, <3>3
        <4>2. <<k, f[k - 1]>> \in (1 .. n) \X Nat
          BY <1>4, <4>1
        <4>3. step[<<k, f[k - 1]>>] = f[k - 1] + w[s[k]]
          BY <4>2
        <4> QED
          BY <3>1, <3>3, <4>3
      <3> QED
        BY <3>2, <3>3
    <2> QED
      BY <1>4, <2>1
  <1>6. Is(sum)
    <2> HIDE DEF Is
    <2> QED
      BY <1>5
  <1> HIDE DEF sum
  <1>7. ASSUME NEW k \in 0 .. n PROVE sum[k] = f[k]
    <2> DEFINE S == {j \in 0 .. n : sum[j] = f[j]}
    <2>1. 0 \in S
      <3>1. 0 \in 0 .. n
        BY <1>1
      <3> QED
        BY <1>5, <1>6, <3>1
    <2>2. ASSUME NEW j \in 0 .. n - 1, j \in S PROVE j + 1 \in S
      <3>1. j + 1 \in 0 .. n /\ j + 1 # 0 /\ (j + 1) - 1 = j
        BY <1>1
      <3>2. sum[j + 1] = sum[j] + w[s[j + 1]]
        BY <1>6, <3>1
      <3>3. f[j + 1] = f[j] + w[s[j + 1]]
        BY <1>5, <3>1
      <3> QED
        BY <2>2, <3>1, <3>2, <3>3
    <2>3. S \in SUBSET (0 .. n)
      OBVIOUS
    <2> HIDE DEF S
    <2>4. S = 0 .. n
      BY <1>1, <2>1, <2>2, <2>3, BoundedInduction
    <2>5. k \in S
      BY <2>4
    <2> QED
      BY <2>5 DEF S
  <1>8. f[0] = 0 /\ Mass(w, s) = f[n]
    <2>1. 0 \in 0 .. n /\ n \in 0 .. n
      BY <1>1
    <2> QED
      BY <1>2, <1>5, <1>7, <2>1
  <1>9. ASSUME NEW k \in 1 .. n PROVE f[k] = f[k - 1] + w[s[k]]
    <2>1. k \in 0 .. n /\ k # 0
      BY <1>1
    <2> QED
      BY <1>5, <2>1
  <1> QED
    BY <1>4, <1>8, <1>9 DEF n

LEMMA FirstIs ==
  ASSUME NEW s \in Seq(Vocab), NEW k \in 0 .. Len(s)
  PROVE  /\ First(k, s) \in Seq(Vocab) /\ Len(First(k, s)) = k
         /\ \A j \in 1 .. k : First(k, s)[j] = s[j]
  <1>1. \A i \in 1 .. k : s[i] \in Vocab
    OBVIOUS
  <1>2. /\ SubSeq(s, 1, k) \in Seq(Vocab)
        /\ Len(SubSeq(s, 1, k)) = IF 1 <= k THEN k - 1 + 1 ELSE 0
        /\ \A i \in 1 .. k - 1 + 1 : SubSeq(s, 1, k)[i] = s[1 + i - 1]
    <2>1. 1 \in Int /\ k \in Int
      OBVIOUS
    <2> QED
      BY <1>1, <2>1, SubSeqProperties
  <1>3. k \in Nat /\ k - 1 + 1 = k /\ \A i \in 1 .. k : 1 + i - 1 = i
    OBVIOUS
  <1> QED
    BY <1>2, <1>3 DEF First

\* The weights of the prefixes of a sequence grow by the weight of each token.
LEMMA MassOfPrefixes ==
  ASSUME NEW w \in [Vocab -> Nat], NEW s \in Seq(Vocab)
  PROVE  /\ Mass(w, First(0, s)) = 0 /\ First(Len(s), s) = s
         /\ \A k \in 0 .. Len(s) : Mass(w, First(k, s)) \in Nat
         /\ \A k \in 1 .. Len(s) :
               Mass(w, First(k, s)) = Mass(w, First(k - 1, s)) + w[s[k]]
  <1> PICK f \in [0 .. Len(s) -> Nat] :
            /\ f[0] = 0 /\ Mass(w, s) = f[Len(s)]
            /\ \A k \in 1 .. Len(s) : f[k] = f[k - 1] + w[s[k]]
    BY MassIs
  <1> DEFINE n == Len(s)
  <1>1. n \in Nat /\ \A k \in 1 .. n : w[s[k]] \in Nat
    OBVIOUS
  <1>2. ASSUME NEW k \in 0 .. n PROVE Mass(w, First(k, s)) = f[k]
    <2> DEFINE u == First(k, s)
    <2>1. u \in Seq(Vocab) /\ Len(u) = k /\ \A j \in 1 .. k : u[j] = s[j]
      BY FirstIs
    <2> HIDE DEF u
    <2>2. PICK g \in [0 .. k -> Nat] :
             /\ g[0] = 0 /\ Mass(w, u) = g[k]
             /\ \A j \in 1 .. k : g[j] = g[j - 1] + w[u[j]]
      BY <2>1, MassIs
    <2> DEFINE S == {j \in 0 .. k : g[j] = f[j]}
    <2>3. 0 \in S
      BY <2>2
    <2>4. ASSUME NEW j \in 0 .. k - 1, j \in S PROVE j + 1 \in S
      <3>1. j + 1 \in 1 .. k /\ j + 1 \in 1 .. n /\ j + 1 \in 0 .. k /\ (j + 1) - 1 = j
        BY <1>1
      <3>2. g[j + 1] = g[j] + w[u[j + 1]] /\ f[j + 1] = f[j] + w[s[j + 1]]
        BY <2>2, <3>1
      <3> QED
        BY <2>1, <2>4, <3>1, <3>2
    <2>5. S \in SUBSET (0 .. k)
      OBVIOUS
    <2>6. k \in Nat
      BY <1>1
    <2> HIDE DEF S
    <2>7. S = 0 .. k
      BY <2>3, <2>4, <2>5, <2>6, BoundedInduction
    <2>8. k \in S
      BY <2>7, <2>6
    <2> QED
      BY <2>2, <2>8 DEF S, u
  <1>3. First(n, s) = s
    BY SubSeqFull DEF First
  <1> HIDE DEF n
  <1>4. Mass(w, First(0, s)) = 0
    <2>1. 0 \in 0 .. n
      BY <1>1
    <2> QED
      BY <1>2, <2>1
  <1>5. ASSUME NEW k \in 1 .. n
        PROVE  Mass(w, First(k, s)) = Mass(w, First(k - 1, s)) + w[s[k]]
    <2>1. k \in 0 .. n /\ k - 1 \in 0 .. n
      BY <1>1
    <2> QED
      BY <1>2, <2>1 DEF n
  <1> QED
    BY <1>2, <1>3, <1>4, <1>5 DEF n

\* The weight of a set of tokens, added up in the order of the vocabulary.
Share(w, S) == [t \in Vocab |-> IF t \in S THEN w[t] ELSE 0]
Everyone == [k \in 1 .. N |-> k - 1]
SetMass(w, S) == Mass(Share(w, S), Everyone)

LEMMA EveryoneIs ==
  /\ Everyone \in Seq(Vocab) /\ Len(Everyone) = N
  /\ \A k \in 1 .. N : Everyone[k] = k - 1 /\ k - 1 \in Vocab
  <1>1. \A k \in 1 .. N : k - 1 \in Vocab
    BY ConstantsAre DEF Vocab
  <1>2. Everyone \in [1 .. N -> Vocab] /\ N \in Nat
    BY <1>1, ConstantsAre DEF Everyone
  <1>3. Everyone \in Seq(Vocab) /\ Len(Everyone) = N
    BY <1>2
  <1> QED
    BY <1>1, <1>3 DEF Everyone

LEMMA ShareIs ==
  ASSUME NEW w \in [Vocab -> Nat], NEW S
  PROVE  /\ Share(w, S) \in [Vocab -> Nat]
         /\ Mass(Share(w, S), First(0, Everyone)) = 0
         /\ SetMass(w, S) = Mass(Share(w, S), First(N, Everyone))
         /\ \A k \in 0 .. N : Mass(Share(w, S), First(k, Everyone)) \in Nat
         /\ \A k \in 1 .. N :
               Mass(Share(w, S), First(k, Everyone))
                 = Mass(Share(w, S), First(k - 1, Everyone)) + IF k - 1 \in S THEN w[k - 1] ELSE 0
  <1>1. Share(w, S) \in [Vocab -> Nat]
    BY DEF Share
  <1>2. /\ Mass(Share(w, S), First(0, Everyone)) = 0 /\ First(N, Everyone) = Everyone
        /\ \A k \in 0 .. N : Mass(Share(w, S), First(k, Everyone)) \in Nat
        /\ \A k \in 1 .. N :
              Mass(Share(w, S), First(k, Everyone))
                = Mass(Share(w, S), First(k - 1, Everyone)) + Share(w, S)[Everyone[k]]
    <2> DEFINE q == Share(w, S)
    <2>1. q \in [Vocab -> Nat] /\ Everyone \in Seq(Vocab) /\ Len(Everyone) = N
      BY <1>1, EveryoneIs
    <2> HIDE DEF q
    <2>2. /\ Mass(q, First(0, Everyone)) = 0 /\ First(N, Everyone) = Everyone
          /\ \A k \in 0 .. N : Mass(q, First(k, Everyone)) \in Nat
          /\ \A k \in 1 .. N :
                Mass(q, First(k, Everyone)) = Mass(q, First(k - 1, Everyone)) + q[Everyone[k]]
      BY <2>1, MassOfPrefixes
    <2> QED
      BY <2>2 DEF q
  <1>3. \A k \in 1 .. N : Share(w, S)[Everyone[k]] = IF k - 1 \in S THEN w[k - 1] ELSE 0
    BY EveryoneIs DEF Share
  <1> QED
    BY <1>1, <1>2, <1>3 DEF SetMass

LEMMA SetMassAdd ==
  ASSUME NEW w \in [Vocab -> Nat], NEW S, NEW x \in Vocab, x \notin S
  PROVE  SetMass(w, S \cup {x}) = SetMass(w, S) + w[x]
  <1> DEFINE a == [k \in 0 .. N |-> Mass(Share(w, S), First(k, Everyone))]
             T == S \cup {x}
             b == [k \in 0 .. N |-> Mass(Share(w, T), First(k, Everyone))]
             D == {k \in 0 .. N : b[k] = a[k] + IF x < k THEN w[x] ELSE 0}
  <1>1. N \in Nat /\ x \in 0 .. N - 1 /\ w[x] \in Nat /\ x \in Vocab
    BY ConstantsAre DEF Vocab
  <1>2. /\ a[0] = 0 /\ SetMass(w, S) = a[N] /\ \A k \in 0 .. N : a[k] \in Nat
        /\ \A k \in 1 .. N : a[k] = a[k - 1] + IF k - 1 \in S THEN w[k - 1] ELSE 0
    <2>1. /\ \A k \in 1 .. N : k \in 0 .. N /\ k - 1 \in 0 .. N
          /\ 0 \in 0 .. N /\ N \in 0 .. N
      BY <1>1
    <2> QED
      BY <2>1, ShareIs
  <1>3. /\ b[0] = 0 /\ SetMass(w, T) = b[N] /\ \A k \in 0 .. N : b[k] \in Nat
        /\ \A k \in 1 .. N : b[k] = b[k - 1] + IF k - 1 \in T THEN w[k - 1] ELSE 0
    <2> HIDE DEF T
    <2>1. /\ \A k \in 1 .. N : k \in 0 .. N /\ k - 1 \in 0 .. N
          /\ 0 \in 0 .. N /\ N \in 0 .. N
      BY <1>1
    <2> QED
      BY <2>1, ShareIs
  <1> HIDE DEF a, b
  <1>4. 0 \in D
    BY <1>1, <1>2, <1>3
  <1>5. ASSUME NEW k \in 0 .. N - 1, k \in D PROVE k + 1 \in D
    <2>1. /\ k \in Vocab /\ k + 1 \in 1 .. N /\ k + 1 \in 0 .. N /\ k \in 0 .. N
          /\ (k + 1) - 1 = k /\ w[k] \in Nat
      BY <1>1 DEF Vocab
    <2>2. a[k + 1] = a[k] + IF k \in S THEN w[k] ELSE 0
      BY <1>2, <2>1
    <2>3. b[k + 1] = b[k] + IF k \in T THEN w[k] ELSE 0
      BY <1>3, <2>1
    <2>4. b[k] = a[k] + IF x < k THEN w[x] ELSE 0
      BY <1>5
    <2>5. a[k] \in Nat /\ b[k] \in Nat
      BY <1>2, <1>3, <2>1
    <2>6. CASE k = x
      <3>1. k \in T /\ k \notin S /\ ~(x < k) /\ x < k + 1
        BY <1>1, <2>6
      <3> QED
        BY <1>1, <2>1, <2>2, <2>3, <2>4, <2>5, <2>6, <3>1
    <2>7. CASE k # x
      <3>1. (k \in T <=> k \in S) /\ (x < k + 1 <=> x < k)
        BY <1>1, <2>7
      <3> HIDE DEF T
      <3> QED
        BY <1>1, <2>1, <2>2, <2>3, <2>4, <2>5, <2>7, <3>1
    <2> QED
      BY <2>6, <2>7
  <1>6. D \in SUBSET (0 .. N)
    OBVIOUS
  <1> HIDE DEF D, T
  <1>7. D = 0 .. N
    BY <1>1, <1>4, <1>5, <1>6, BoundedInduction
  <1>8. N \in D
    BY <1>1, <1>7
  <1>9. b[N] = a[N] + IF x < N THEN w[x] ELSE 0
    BY <1>8 DEF D
  <1>10. x < N
    BY <1>1
  <1> QED
    BY <1>2, <1>3, <1>9, <1>10 DEF T

LEMMA SetMassMonotone ==
  ASSUME NEW w \in [Vocab -> Nat], NEW S, NEW T, S \subseteq T
  PROVE  SetMass(w, S) <= SetMass(w, T) /\ SetMass(w, S) \in Nat
  <1> DEFINE a == [k \in 0 .. N |-> Mass(Share(w, S), First(k, Everyone))]
             b == [k \in 0 .. N |-> Mass(Share(w, T), First(k, Everyone))]
             D == {k \in 0 .. N : a[k] <= b[k]}
  <1>1. N \in Nat
    BY ConstantsAre
  <1>2. /\ a[0] = 0 /\ SetMass(w, S) = a[N] /\ \A k \in 0 .. N : a[k] \in Nat
        /\ \A k \in 1 .. N : a[k] = a[k - 1] + IF k - 1 \in S THEN w[k - 1] ELSE 0
    <2>1. /\ \A k \in 1 .. N : k \in 0 .. N /\ k - 1 \in 0 .. N
          /\ 0 \in 0 .. N /\ N \in 0 .. N
      BY <1>1
    <2> QED
      BY <2>1, ShareIs
  <1>3. /\ b[0] = 0 /\ SetMass(w, T) = b[N] /\ \A k \in 0 .. N : b[k] \in Nat
        /\ \A k \in 1 .. N : b[k] = b[k - 1] + IF k - 1 \in T THEN w[k - 1] ELSE 0
    <2>1. /\ \A k \in 1 .. N : k \in 0 .. N /\ k - 1 \in 0 .. N
          /\ 0 \in 0 .. N /\ N \in 0 .. N
      BY <1>1
    <2> QED
      BY <2>1, ShareIs
  <1> HIDE DEF a, b
  <1>4. 0 \in D
    BY <1>1, <1>2, <1>3
  <1>5. ASSUME NEW k \in 0 .. N - 1, k \in D PROVE k + 1 \in D
    <2>1. /\ k \in Vocab /\ k + 1 \in 1 .. N /\ k + 1 \in 0 .. N /\ k \in 0 .. N
          /\ (k + 1) - 1 = k /\ w[k] \in Nat
      BY <1>1 DEF Vocab
    <2>2. a[k + 1] = a[k] + IF k \in S THEN w[k] ELSE 0
      BY <1>2, <2>1
    <2>3. b[k + 1] = b[k] + IF k \in T THEN w[k] ELSE 0
      BY <1>3, <2>1
    <2>4. a[k] \in Nat /\ b[k] \in Nat /\ a[k] <= b[k]
      BY <1>2, <1>3, <1>5, <2>1
    <2>5. k \in S => k \in T
      OBVIOUS
    <2>6. a[k + 1] <= b[k + 1]
      BY <2>1, <2>2, <2>3, <2>4, <2>5
    <2> QED
      BY <2>1, <2>6
  <1>6. D \in SUBSET (0 .. N)
    OBVIOUS
  <1> HIDE DEF D
  <1>7. D = 0 .. N
    BY <1>1, <1>4, <1>5, <1>6, BoundedInduction
  <1>8. N \in D /\ N \in 0 .. N
    BY <1>1, <1>7
  <1> QED
    BY <1>2, <1>3, <1>8 DEF D

LEMMA EmptySetWeighsNothing ==
  ASSUME NEW w \in [Vocab -> Nat]
  PROVE  SetMass(w, {}) = 0
  <1> DEFINE D == {k \in 0 .. N : Mass(Share(w, {}), First(k, Everyone)) = 0}
  <1>1. N \in Nat
    BY ConstantsAre
  <1>2. /\ Mass(Share(w, {}), First(0, Everyone)) = 0
        /\ SetMass(w, {}) = Mass(Share(w, {}), First(N, Everyone))
        /\ \A k \in 1 .. N :
              Mass(Share(w, {}), First(k, Everyone))
                = Mass(Share(w, {}), First(k - 1, Everyone)) + IF k - 1 \in {} THEN w[k - 1] ELSE 0
    BY ShareIs
  <1>3. 0 \in D
    BY <1>1, <1>2
  <1>4. ASSUME NEW k \in 0 .. N - 1, k \in D PROVE k + 1 \in D
    <2>1. k + 1 \in 1 .. N /\ k + 1 \in 0 .. N /\ (k + 1) - 1 = k
      BY <1>1
    <2>2. Mass(Share(w, {}), First(k + 1, Everyone))
            = Mass(Share(w, {}), First(k, Everyone)) + 0
      BY <1>2, <2>1
    <2> QED
      BY <1>4, <2>1, <2>2
  <1>5. D \in SUBSET (0 .. N)
    OBVIOUS
  <1> HIDE DEF D
  <1>6. D = 0 .. N
    BY <1>1, <1>3, <1>4, <1>5, BoundedInduction
  <1>7. N \in D
    BY <1>1, <1>6
  <1> QED
    BY <1>2, <1>7 DEF D

\* A sequence without repetitions weighs what its tokens weigh.
LEMMA MassOfSet ==
  ASSUME NEW w \in [Vocab -> Nat], NEW s \in Seq(Vocab),
         \A i, j \in 1 .. Len(s) : s[i] = s[j] => i = j,
         NEW m \in 0 .. Len(s)
  PROVE  Mass(w, First(m, s)) = SetMass(w, {s[j] : j \in 1 .. m})
  <1> DEFINE n == Len(s)
             Tokens(k) == {s[j] : j \in 1 .. k}
             D == {k \in 0 .. n : Mass(w, First(k, s)) = SetMass(w, Tokens(k))}
  <1>1. /\ Mass(w, First(0, s)) = 0
        /\ \A k \in 0 .. n : Mass(w, First(k, s)) \in Nat
        /\ \A k \in 1 .. n : Mass(w, First(k, s)) = Mass(w, First(k - 1, s)) + w[s[k]]
    BY MassOfPrefixes
  <1>2. n \in Nat /\ \A k \in 1 .. n : s[k] \in Vocab
    OBVIOUS
  <1>3. \A i, j \in 1 .. n : s[i] = s[j] => i = j
    OBVIOUS
  <1> HIDE DEF n
  <1>4. 0 \in D
    <2>1. Tokens(0) = {}
      OBVIOUS
    <2>2. SetMass(w, {}) = 0
      BY EmptySetWeighsNothing
    <2>3. Mass(w, First(0, s)) = SetMass(w, Tokens(0))
      <3> HIDE DEF Tokens
      <3> QED
        BY <1>1, <2>1, <2>2
    <2> HIDE DEF Tokens
    <2> QED
      BY <1>2, <2>3
  <1>5. ASSUME NEW k \in 0 .. n - 1, k \in D PROVE k + 1 \in D
    <2>1. k + 1 \in 1 .. n /\ k + 1 \in 0 .. n /\ (k + 1) - 1 = k /\ s[k + 1] \in Vocab
      BY <1>2
    <2>2. s[k + 1] \notin Tokens(k)
      <3> SUFFICES ASSUME NEW j \in 1 .. k, s[j] = s[k + 1] PROVE FALSE
        OBVIOUS
      <3>1. j \in 1 .. n /\ j # k + 1
        BY <1>2
      <3> QED
        BY <1>3, <2>1, <3>1
    <2>3. Tokens(k + 1) = Tokens(k) \cup {s[k + 1]}
      <3>1. 1 .. k + 1 = (1 .. k) \cup {k + 1}
        BY <1>2
      <3> QED
        BY <3>1
    <2> HIDE DEF Tokens
    <2>4. SetMass(w, Tokens(k) \cup {s[k + 1]}) = SetMass(w, Tokens(k)) + w[s[k + 1]]
      BY <2>1, <2>2, SetMassAdd
    <2>5. Mass(w, First(k + 1, s)) = Mass(w, First(k, s)) + w[s[k + 1]]
      BY <1>1, <2>1
    <2> QED
      BY <1>5, <2>1, <2>3, <2>4, <2>5
  <1>6. D \in SUBSET (0 .. n)
    OBVIOUS
  <1> HIDE DEF D
  <1>7. D = 0 .. n
    BY <1>2, <1>4, <1>5, <1>6, BoundedInduction
  <1>8. m \in D
    BY <1>7 DEF n
  <1> QED
    BY <1>8 DEF D

\* SetToSeq lists the elements of a set of tokens, each once.
LEMMA SetToSeqIs ==
  ASSUME NEW S \in SUBSET Vocab
  PROVE  /\ SetToSeq(S) \in Seq(Vocab)
         /\ \A i, j \in 1 .. Len(SetToSeq(S)) : SetToSeq(S)[i] = SetToSeq(S)[j] => i = j
         /\ {SetToSeq(S)[j] : j \in 1 .. Len(SetToSeq(S))} = S
  <1> DEFINE n == Cardinality(S)
             f == SetToSeq(S)
  <1>1. IsFiniteSet(Vocab) /\ IsFiniteSet(S)
    <2>1. 0 \in Int /\ N - 1 \in Int
      BY ConstantsAre
    <2>2. IsFiniteSet(Vocab)
      BY <2>1, FS_Interval DEF Vocab
    <2> QED
      BY <2>2, FS_Subset
  <1>2. n \in Nat /\ ExistsBijection(1 .. n, S)
    BY <1>1, FS_CardinalityType
  <1>3. \E g \in [1 .. n -> S] : IsInjective(g)
    BY <1>2 DEF ExistsBijection, Bijection, Injection
  <1>4. f \in [1 .. n -> S] /\ IsInjective(f)
    BY <1>3 DEF SetToSeq
  <1>5. IsFiniteSet(1 .. n) /\ Cardinality(1 .. n) = n
    BY <1>2, FS_Interval
  <1>6. f \in Injection(1 .. n, S)
    BY <1>4 DEF Injection
  <1> HIDE DEF f
  <1>7. f \in Surjection(1 .. n, S)
    BY <1>1, <1>5, <1>6, FS_Injection
  <1>8. \A x \in S : \E j \in 1 .. n : f[j] = x
    BY <1>7 DEF Surjection
  <1>9. f \in [1 .. n -> Vocab] /\ f \in Seq(Vocab) /\ Len(f) = n
    BY <1>2, <1>4
  <1>10. \A i, j \in 1 .. n : f[i] = f[j] => i = j
    BY <1>4, <1>9 DEF IsInjective
  <1>11. {f[j] : j \in 1 .. n} = S
    BY <1>4, <1>8
  <1> QED
    BY <1>9, <1>10, <1>11 DEF f

LEMMA MassOfListedSet ==
  ASSUME NEW w \in [Vocab -> Nat], NEW S \in SUBSET Vocab
  PROVE  Mass(w, SetToSeq(S)) = SetMass(w, S)
  <1> DEFINE s == SetToSeq(S)
  <1>1. /\ s \in Seq(Vocab) /\ \A i, j \in 1 .. Len(s) : s[i] = s[j] => i = j
        /\ {s[j] : j \in 1 .. Len(s)} = S
    BY SetToSeqIs
  <1> HIDE DEF s
  <1>2. Len(s) \in 0 .. Len(s) /\ First(Len(s), s) = s
    BY <1>1, MassOfPrefixes
  <1>3. Mass(w, First(Len(s), s)) = SetMass(w, {s[j] : j \in 1 .. Len(s)})
    BY <1>1, <1>2, MassOfSet
  <1> QED
    BY <1>1, <1>2, <1>3 DEF s

-----------------------------------------------------------------------------
(* The candidates in descending order. *)

LEMMA RankedAre ==
  ASSUME NEW w \in [Vocab -> Nat], NEW cand \in Ranked(w)
  PROVE  /\ cand \in Seq(Vocab) /\ Len(cand) = N
         /\ \A i, j \in 1 .. N : cand[i] = cand[j] => i = j
         /\ \A t \in Vocab : \E j \in 1 .. N : cand[j] = t
         /\ \A i, j \in 1 .. N : i <= j => w[cand[i]] >= w[cand[j]]
  <1>1. N \in Nat /\ IsFiniteSet(Vocab) /\ Cardinality(Vocab) = N
        /\ IsFiniteSet(1 .. N) /\ Cardinality(1 .. N) = N
    <2>1. N \in Nat \ {0} /\ 0 \in Int /\ 1 \in Int /\ N - 1 \in Int /\ N \in Int
      BY ConstantsAre
    <2> QED
      BY <2>1, FS_Interval DEF Vocab
  <1>2. DOMAIN w = Vocab
    OBVIOUS
  <1>3. /\ cand \in [1 .. N -> Vocab]
        /\ \A i, j \in 1 .. N : i # j => cand[i] # cand[j]
        /\ \A k \in 1 .. Len(cand) - 1 : w[cand[k]] >= w[cand[k + 1]]
    BY <1>1, <1>2 DEF Ranked, SetToSeqs
  <1>4. cand \in Seq(Vocab) /\ Len(cand) = N
    BY <1>1, <1>3
  <1>5. cand \in Injection(1 .. N, Vocab)
    BY <1>3 DEF Injection, IsInjective
  <1>6. cand \in Surjection(1 .. N, Vocab)
    BY <1>1, <1>5, FS_Injection
  <1>7. \A t \in Vocab : \E j \in 1 .. N : cand[j] = t
    BY <1>6 DEF Surjection
  <1>8. ASSUME NEW i \in 1 .. N, NEW j \in 1 .. N, i <= j
        PROVE  w[cand[i]] >= w[cand[j]]
    <2> DEFINE D == {d \in 0 .. N - i : w[cand[i]] >= w[cand[i + d]]}
    <2>1. N - i \in Nat /\ j - i \in 0 .. N - i /\ i + (j - i) = j
      BY <1>1, <1>8
    <2>2. \A k \in 1 .. N : w[cand[k]] \in Nat
      BY <1>3
    <2>3. 0 \in D
      <3>1. i + 0 = i /\ 0 \in 0 .. N - i
        BY <2>1
      <3> QED
        BY <2>2, <3>1
    <2>4. ASSUME NEW d \in 0 .. (N - i) - 1, d \in D PROVE d + 1 \in D
      <3>1. /\ i + d \in 1 .. Len(cand) - 1 /\ i + (d + 1) = (i + d) + 1
            /\ i + d \in 1 .. N /\ (i + d) + 1 \in 1 .. N /\ d + 1 \in 0 .. N - i
        BY <1>1, <1>4
      <3>2. w[cand[i + d]] >= w[cand[(i + d) + 1]]
        BY <1>3, <3>1
      <3>3. w[cand[i]] \in Nat /\ w[cand[i + d]] \in Nat /\ w[cand[(i + d) + 1]] \in Nat
        BY <2>2, <3>1
      <3> QED
        BY <2>4, <3>1, <3>2, <3>3
    <2>5. D \in SUBSET (0 .. N - i)
      OBVIOUS
    <2> HIDE DEF D
    <2>6. D = 0 .. N - i
      BY <2>1, <2>3, <2>4, <2>5, BoundedInduction
    <2>7. j - i \in D
      BY <2>1, <2>6
    <2> QED
      BY <2>1, <2>7 DEF D
  <1> QED
    BY <1>3, <1>4, <1>7, <1>8

LEMMA FirstOfFirst ==
  ASSUME NEW s \in Seq(Vocab), NEW m \in 0 .. Len(s), NEW n \in 0 .. m
  PROVE  First(n, First(m, s)) = First(n, s)
  <1> DEFINE u == First(m, s)
  <1>1. u \in Seq(Vocab) /\ Len(u) = m /\ \A j \in 1 .. m : u[j] = s[j]
    BY FirstIs
  <1>2. n \in 0 .. Len(s) /\ n \in 0 .. Len(u) /\ \A j \in 1 .. n : j \in 1 .. m
    BY <1>1
  <1> HIDE DEF u
  <1>3. /\ First(n, u) \in Seq(Vocab) /\ Len(First(n, u)) = n
        /\ \A j \in 1 .. n : First(n, u)[j] = u[j]
    BY <1>1, <1>2, FirstIs
  <1>4. /\ First(n, s) \in Seq(Vocab) /\ Len(First(n, s)) = n
        /\ \A j \in 1 .. n : First(n, s)[j] = s[j]
    BY <1>2, FirstIs
  <1>5. First(n, u) = First(n, s)
    <2>1. \A j \in 1 .. Len(First(n, u)) : First(n, u)[j] = First(n, s)[j]
      BY <1>1, <1>2, <1>3, <1>4
    <2> QED
      BY <1>3, <1>4, <2>1, SeqEqual
  <1> QED
    BY <1>5 DEF u

\* The weight of all candidates is that of the vocabulary.
LEMMA TotalIs ==
  ASSUME NEW w \in [Vocab -> Nat], NEW cand \in Ranked(w)
  PROVE  /\ Mass(w, SetToSeq(DOMAIN w)) = SetMass(w, Vocab)
         /\ Mass(w, First(N, cand)) = SetMass(w, Vocab)
  <1>1. /\ cand \in Seq(Vocab) /\ Len(cand) = N
        /\ \A i, j \in 1 .. N : cand[i] = cand[j] => i = j
        /\ \A t \in Vocab : \E j \in 1 .. N : cand[j] = t
    BY RankedAre
  <1>2. N \in 0 .. Len(cand) /\ \A j \in 1 .. N : cand[j] \in Vocab
    BY <1>1, ConstantsAre
  <1>3. {cand[j] : j \in 1 .. N} = Vocab
    BY <1>1, <1>2
  <1>4. Mass(w, First(N, cand)) = SetMass(w, {cand[j] : j \in 1 .. N})
    BY <1>1, <1>2, MassOfSet
  <1>5. DOMAIN w = Vocab
    OBVIOUS
  <1>6. Mass(w, SetToSeq(Vocab)) = SetMass(w, Vocab)
    BY MassOfListedSet
  <1> QED
    BY <1>3, <1>4, <1>5, <1>6

-----------------------------------------------------------------------------
(* What each filter keeps is a prefix of the candidates. *)

LEMMA CapByTopKIs ==
  ASSUME NEW w \in [Vocab -> Nat], NEW cand \in Ranked(w), NEW top_k \in Int
  PROVE  \E m \in 1 .. N : /\ CapByTopK(top_k, cand) = First(m, cand)
                           /\ top_k > 0 => m <= top_k
                           /\ top_k \notin 1 .. N - 1 => m = N
  <1>1. cand \in Seq(Vocab) /\ Len(cand) = N /\ N \in Nat \ {0} /\ First(N, cand) = cand
    BY RankedAre, MassOfPrefixes, ConstantsAre
  <1>2. CASE 0 < top_k /\ top_k < Len(cand)
    <2>1. CapByTopK(top_k, cand) = First(top_k, cand) /\ top_k \in 1 .. N /\ top_k \in 1 .. N - 1
      BY <1>1, <1>2 DEF CapByTopK
    <2> QED
      BY <2>1
  <1>3. CASE ~(0 < top_k /\ top_k < Len(cand))
    <2>1. CapByTopK(top_k, cand) = First(N, cand) /\ N \in 1 .. N /\ (top_k > 0 => N <= top_k)
      BY <1>1, <1>3 DEF CapByTopK
    <2> QED
      BY <2>1
  <1> QED
    BY <1>2, <1>3

\* The first n candidates have min_p of the peak.
NearPeak(w, min, cand, n) == \A j \in 1 .. n : 100 * w[cand[j]] >= min * w[cand[1]]

LEMMA CapByMinPIs ==
  ASSUME NEW w \in [Vocab -> Nat], NEW cand \in Ranked(w), NEW min \in 0 .. 100,
         NEW m \in 1 .. N
  PROVE  \E n \in 1 .. m :
            /\ CapByMinP(w, min, First(m, cand)) = First(n, cand)
            /\ 0 < min /\ min < 100 => NearPeak(w, min, cand, n)
            /\ min \in {0, 100} => n = m
  <1> DEFINE c == First(m, cand)
             Near(k) == 100 * w[c[k]] >= min * w[c[1]]
             Ends(keep) == /\ \A k \in 2 .. keep : Near(k)
                           /\ keep = Len(c) \/ ~Near(keep + 1)
             keep == CHOOSE keep \in 1 .. Len(c) : Ends(keep)
  <1>1. cand \in Seq(Vocab) /\ Len(cand) = N /\ N \in Nat \ {0} /\ m \in 0 .. Len(cand)
    BY RankedAre, ConstantsAre
  <1>2. c \in Seq(Vocab) /\ Len(c) = m /\ \A j \in 1 .. m : c[j] = cand[j]
    BY <1>1, FirstIs
  <1>3. \A n \in 0 .. m : First(n, c) = First(n, cand)
    BY <1>1, FirstOfFirst
  <1>4. CapByMinP(w, min, c) = IF 0 < min /\ min < 100 THEN First(keep, c) ELSE c
    BY DEF CapByMinP
  <1> HIDE DEF c
  <1>5. First(m, cand) = c /\ m \in 1 .. m /\ 1 \in 1 .. m
    BY <1>1 DEF c
  <1>6. CASE ~(0 < min /\ min < 100)
    BY <1>4, <1>5, <1>6
  <1>7. CASE 0 < min /\ min < 100
    <2>1. \E n \in 1 .. Len(c) : Ends(n)
      <3> DEFINE Far == {k \in 2 .. m : ~Near(k)}
      <3>1. CASE Far = {}
        <4>1. Ends(m)
          BY <1>2, <3>1
        <4> QED
          BY <1>2, <1>5, <4>1
      <3>2. CASE Far # {}
        <4>1. Far \in SUBSET Nat
          BY <1>1
        <4>2. PICK k \in Far : \A j \in Far : k <= j
          <5> HIDE DEF Far
          <5> QED
            BY <3>2, <4>1, LeastElement
        <4>3. k \in 2 .. m /\ k - 1 \in 1 .. m /\ (k - 1) + 1 = k /\ ~Near(k)
          BY <1>1, <4>2
        <4>4. ASSUME NEW j \in 2 .. k - 1 PROVE Near(j)
          <5>1. j \in 2 .. m /\ ~(k <= j)
            BY <4>3
          <5> QED
            BY <4>2, <5>1
        <4> HIDE DEF Near
        <4>5. Ends(k - 1)
          BY <4>3, <4>4
        <4> QED
          BY <1>2, <4>3, <4>5
      <3> QED
        BY <3>1, <3>2
    <2>2. keep \in 1 .. Len(c) /\ Ends(keep)
      <3> HIDE DEF Ends
      <3> QED
        BY <2>1
    <2> HIDE DEF keep
    <2>3. keep \in 1 .. m /\ CapByMinP(w, min, c) = First(keep, cand)
      <3>1. keep \in 1 .. m /\ keep \in 0 .. m
        BY <1>2, <2>2
      <3> QED
        BY <1>3, <1>4, <1>7, <3>1
    <2>4. ASSUME NEW j \in 1 .. keep PROVE 100 * w[cand[j]] >= min * w[cand[1]]
      <3>1. j \in 1 .. m /\ c[j] = cand[j] /\ c[1] = cand[1] /\ cand[1] \in Vocab
        BY <1>1, <1>2, <1>5, <2>3
      <3>2. CASE j = 1
        <4> DEFINE p == w[cand[1]]
        <4>1. p \in Nat /\ min \in 0 .. 99
          BY <1>7, <3>1
        <4> HIDE DEF p
        <4>2. min * p <= 99 * p /\ 99 * p <= 100 * p
          BY <4>1
        <4>3. 100 * p >= min * p
          BY <4>1, <4>2
        <4> QED
          BY <3>2, <4>3 DEF p
      <3>3. CASE j # 1
        <4>1. j \in 2 .. keep
          BY <2>3, <3>3
        <4>2. Near(j)
          BY <2>2, <4>1
        <4> QED
          BY <3>1, <4>2
      <3> QED
        BY <3>2, <3>3
    <2>5. min \notin {0, 100} /\ NearPeak(w, min, cand, keep)
      BY <1>7, <2>4 DEF NearPeak
    <2> QED
      BY <1>5, <2>3, <2>5
  <1> QED
    BY <1>6, <1>7

LEMMA CapByTopPIs ==
  ASSUME NEW w \in [Vocab -> Nat], NEW cand \in Ranked(w), NEW top_p \in 0 .. 100,
         NEW m \in 1 .. N
  PROVE  \E n \in 1 .. m :
            /\ CapByTopP(w, top_p, First(m, cand)) = First(n, cand)
            /\ 0 < top_p /\ top_p < 100 => \A j \in 1 .. n - 1 : ~Reaches(w, top_p, j, cand)
            /\ m = N /\ top_p > 0 => Reaches(w, top_p, n, cand)
  <1> DEFINE c == First(m, cand)
             R(n) == Reaches(w, top_p, n, c)
             Least(n) == R(n) /\ \A j \in 1 .. n - 1 : ~R(j)
             last == CHOOSE n \in DOMAIN c : Least(n)
  <1>1. cand \in Seq(Vocab) /\ Len(cand) = N /\ N \in Nat \ {0} /\ m \in 0 .. Len(cand)
    BY RankedAre, ConstantsAre
  <1>2. c \in Seq(Vocab) /\ Len(c) = m /\ DOMAIN c = 1 .. m
    BY <1>1, FirstIs
  <1>3. \A n \in 0 .. m : First(n, c) = First(n, cand)
    BY <1>1, FirstOfFirst
  <1>4. CapByTopP(w, top_p, c)
          = IF 0 < top_p /\ top_p < 100 /\ \E n \in DOMAIN c : R(n) THEN First(last, c) ELSE c
    BY DEF CapByTopP
  <1>5. \A n \in 1 .. m : R(n) <=> Reaches(w, top_p, n, cand)
    <2>1. \A n \in 1 .. m : n \in 0 .. m
      OBVIOUS
    <2> QED
      BY <1>3, <2>1 DEF Reaches
  <1>6. m = N => Reaches(w, top_p, m, cand)
    <2> DEFINE total == SetMass(w, Vocab)
    <2>1. total \in Nat
      BY SetMassMonotone
    <2>2. Mass(w, SetToSeq(DOMAIN w)) = total /\ Mass(w, First(N, cand)) = total
      BY TotalIs
    <2> HIDE DEF total
    <2>3. 100 * total >= top_p * total
      BY <2>1
    <2> QED
      BY <2>2, <2>3 DEF Reaches
  <1> HIDE DEF c
  <1>7. First(m, cand) = c /\ m \in 1 .. m
    BY <1>1 DEF c
  <1> HIDE DEF R
  <1>8. CASE ~(0 < top_p /\ top_p < 100 /\ \E n \in DOMAIN c : R(n))
    <2>1. CapByTopP(w, top_p, First(m, cand)) = First(m, cand)
      BY <1>4, <1>7, <1>8
    <2>2. ASSUME 0 < top_p, top_p < 100, NEW j \in 1 .. m - 1
          PROVE  ~Reaches(w, top_p, j, cand)
      <3>1. j \in 1 .. m /\ j \in DOMAIN c
        BY <1>1, <1>2
      <3> QED
        BY <1>5, <1>8, <2>2, <3>1
    <2> QED
      BY <1>6, <1>7, <2>1, <2>2
  <1>9. CASE 0 < top_p /\ top_p < 100 /\ \E n \in DOMAIN c : R(n)
    <2>1. \E n \in DOMAIN c : Least(n)
      <3> DEFINE S == {n \in 1 .. m : R(n)}
      <3>1. S \in SUBSET Nat /\ S # {}
        BY <1>1, <1>2, <1>9
      <3> HIDE DEF S
      <3>2. PICK n \in S : \A j \in S : n <= j
        BY <3>1, LeastElement
      <3>3. n \in 1 .. m /\ R(n)
        BY <3>2 DEF S
      <3>4. ASSUME NEW j \in 1 .. n - 1 PROVE ~R(j)
        <4>1. j \in 1 .. m /\ ~(n <= j)
          BY <3>3
        <4> QED
          BY <3>2, <4>1 DEF S
      <3> QED
        BY <1>2, <3>3, <3>4
    <2>2. last \in DOMAIN c /\ Least(last)
      <3> HIDE DEF Least
      <3> QED
        BY <2>1
    <2> HIDE DEF last
    <2>3. last \in 1 .. m /\ CapByTopP(w, top_p, First(m, cand)) = First(last, cand)
      <3>1. last \in 1 .. m /\ last \in 0 .. m
        BY <1>1, <1>2, <2>2
      <3> QED
        BY <1>3, <1>4, <1>7, <1>9, <3>1
    <2>4. ASSUME NEW j \in 1 .. last - 1 PROVE ~Reaches(w, top_p, j, cand)
      <3>1. j \in 1 .. m
        BY <1>1, <2>3
      <3> QED
        BY <1>5, <2>2, <3>1
    <2>5. Reaches(w, top_p, last, cand)
      BY <1>5, <2>2, <2>3
    <2> QED
      BY <2>3, <2>4, <2>5
  <1> QED
    BY <1>8, <1>9

\* What the filters keep of candidates in descending order.
KeepsTo(w, top_k, min, top_p, cand, n) ==
    /\ n \in 1 .. N
    /\ top_k > 0 => n <= top_k
    /\ 0 < min /\ min < 100 => NearPeak(w, min, cand, n)
    /\ 0 < top_p /\ top_p < 100 => \A j \in 1 .. n - 1 : ~Reaches(w, top_p, j, cand)
    /\ top_k \notin 1 .. N - 1 /\ min \in {0, 100} /\ top_p > 0 => Reaches(w, top_p, n, cand)

LEMMA CutIs ==
  ASSUME NEW w \in [Vocab -> Nat], NEW cand \in Ranked(w), NEW top_k \in Int,
         NEW min \in 0 .. 100, NEW top_p \in 0 .. 100
  PROVE  \E n \in 1 .. N : /\ Cut(w, top_k, min, top_p, cand) = First(n, cand)
                           /\ KeepsTo(w, top_k, min, top_p, cand, n)
  <1>1. PICK a \in 1 .. N : /\ CapByTopK(top_k, cand) = First(a, cand)
                            /\ top_k > 0 => a <= top_k
                            /\ top_k \notin 1 .. N - 1 => a = N
    BY CapByTopKIs
  <1>2. PICK b \in 1 .. a :
            /\ CapByMinP(w, min, First(a, cand)) = First(b, cand)
            /\ 0 < min /\ min < 100 => NearPeak(w, min, cand, b)
            /\ min \in {0, 100} => b = a
    BY CapByMinPIs
  <1>3. a \in 1 .. N /\ b \in 1 .. N /\ b <= a
    BY ConstantsAre
  <1>4. PICK n \in 1 .. b :
            /\ CapByTopP(w, top_p, First(b, cand)) = First(n, cand)
            /\ 0 < top_p /\ top_p < 100 => \A j \in 1 .. n - 1 : ~Reaches(w, top_p, j, cand)
            /\ b = N /\ top_p > 0 => Reaches(w, top_p, n, cand)
    BY <1>3, CapByTopPIs
  <1>5. Cut(w, top_k, min, top_p, cand) = First(n, cand)
    BY <1>1, <1>2, <1>4 DEF Cut
  <1>6. n \in 1 .. N /\ n <= b /\ n <= a /\ \A j \in 1 .. n : j \in 1 .. b
    BY <1>3, ConstantsAre
  <1>7. top_k > 0 => n <= top_k
    BY <1>1, <1>6
  <1>8. 0 < min /\ min < 100 => NearPeak(w, min, cand, n)
    BY <1>2, <1>6 DEF NearPeak
  <1>9. top_k \notin 1 .. N - 1 /\ min \in {0, 100} /\ top_p > 0 => Reaches(w, top_p, n, cand)
    BY <1>1, <1>2, <1>4
  <1> QED
    BY <1>4, <1>5, <1>6, <1>7, <1>8, <1>9 DEF KeepsTo

LEMMA DrawnIs ==
  ASSUME NEW w \in [Vocab -> Nat], NEW cand \in Seq(Vocab), NEW n \in 1 .. Len(cand),
         NEW t \in Drawn(w, First(n, cand))
  PROVE  \E k \in 1 .. n : t = cand[k]
  <1> DEFINE c == First(n, cand)
             Falls(r, k) == /\ r < Mass(w, First(k, c))
                            /\ \A j \in 1 .. k - 1 : r >= Mass(w, First(j, c))
             Place(r) == CHOOSE k \in DOMAIN c : Falls(r, k)
  <1>1. n \in Nat \ {0} /\ n \in 0 .. Len(cand)
    OBVIOUS
  <1>2. c \in Seq(Vocab) /\ Len(c) = n /\ DOMAIN c = 1 .. n /\ \A j \in 1 .. n : c[j] = cand[j]
    BY <1>1, FirstIs
  <1>3. t \in {c[Place(r)] : r \in 0 .. Mass(w, c) - 1} \cup {c[Len(c)]}
    BY DEF Drawn
  <1> HIDE DEF c
  <1>4. /\ First(n, c) = c
        /\ \A k \in 0 .. n : Mass(w, First(k, c)) \in Nat
    BY <1>2, MassOfPrefixes
  <1>5. CASE t = c[Len(c)]
    BY <1>1, <1>2, <1>5
  <1>6. ASSUME NEW r \in 0 .. Mass(w, c) - 1, t = c[Place(r)]
        PROVE  \E k \in 1 .. n : t = cand[k]
    <2> DEFINE S == {k \in 1 .. n : r < Mass(w, First(k, c))}
    <2>1. n \in S /\ S \in SUBSET Nat /\ r \in Int
      <3>1. n \in 0 .. n /\ n \in 1 .. n
        BY <1>1
      <3>2. Mass(w, c) \in Nat
        BY <1>4, <3>1
      <3> QED
        BY <1>1, <1>4, <3>1, <3>2
    <2> HIDE DEF S
    <2>2. PICK k \in S : \A j \in S : k <= j
      BY <2>1, LeastElement
    <2>3. k \in 1 .. n /\ r < Mass(w, First(k, c))
      BY <2>2 DEF S
    <2>4. ASSUME NEW j \in 1 .. k - 1 PROVE r >= Mass(w, First(j, c))
      <3>1. j \in 1 .. n /\ j \in 0 .. n /\ ~(k <= j)
        BY <1>1, <2>3
      <3>2. ~(r < Mass(w, First(j, c)))
        BY <2>2, <3>1 DEF S
      <3> QED
        BY <1>4, <2>1, <3>1, <3>2
    <2>5. \E i \in DOMAIN c : Falls(r, i)
      BY <1>2, <2>3, <2>4
    <2>6. Place(r) \in 1 .. n
      <3> HIDE DEF Falls
      <3>1. Place(r) \in DOMAIN c
        BY <2>5
      <3> QED
        BY <1>2, <3>1
    <2> HIDE DEF Place
    <2> QED
      BY <1>2, <1>6, <2>6
  <1> HIDE DEF Place
  <1> QED
    BY <1>3, <1>5, <1>6

\* The candidates before the k-th hold all that is likelier than it.
LEMMA LikelierAre ==
  ASSUME prob \in [Vocab -> Nat], NEW cand \in Ranked(prob), NEW k \in 1 .. N
  PROVE  /\ Likelier(cand[k]) \subseteq {cand[j] : j \in 1 .. k - 1}
         /\ Cardinality(Likelier(cand[k])) <= k - 1
         /\ MassOf(Likelier(cand[k])) \in Nat
         /\ MassOf(Likelier(cand[k])) <= Mass(prob, First(k - 1, cand))
  <1> DEFINE L == Likelier(cand[k])
             E == {cand[j] : j \in 1 .. k - 1}
             f == [u \in L |-> CHOOSE j \in 1 .. k - 1 : cand[j] = u]
  <1>1. /\ cand \in Seq(Vocab) /\ Len(cand) = N /\ N \in Nat
        /\ \A i, j \in 1 .. N : cand[i] = cand[j] => i = j
        /\ \A t \in Vocab : \E j \in 1 .. N : cand[j] = t
        /\ \A i, j \in 1 .. N : i <= j => prob[cand[i]] >= prob[cand[j]]
    BY RankedAre, ConstantsAre
  <1>2. ASSUME NEW u \in L PROVE \E j \in 1 .. k - 1 : cand[j] = u
    <2>1. u \in Vocab /\ prob[u] > prob[cand[k]] /\ prob[u] \in Nat /\ prob[cand[k]] \in Nat
      BY <1>1 DEF Likelier
    <2>2. PICK j \in 1 .. N : cand[j] = u
      BY <1>1, <2>1
    <2>3. ~(k <= j)
      BY <1>1, <2>1, <2>2
    <2>4. j \in 1 .. k - 1
      BY <1>1, <2>3
    <2> QED
      BY <2>2, <2>4
  <1>3. L \subseteq E
    BY <1>2
  <1>4. L \in SUBSET Vocab
    BY DEF Likelier
  <1> HIDE DEF L
  <1>5. Cardinality(L) <= k - 1
    <2>1. \A u \in L : f[u] \in 1 .. k - 1 /\ cand[f[u]] = u
      BY <1>2
    <2>2. f \in [L -> 1 .. k - 1]
      BY <2>1
    <2> HIDE DEF f
    <2>3. \A u, v \in L : f[u] = f[v] => u = v
      BY <2>1
    <2>4. f \in Injection(L, 1 .. k - 1)
      BY <2>2, <2>3 DEF Injection, IsInjective
    <2>5. IsFiniteSet(1 .. k - 1) /\ Cardinality(1 .. k - 1) = k - 1
      <3>1. 1 \in Int /\ k - 1 \in Int /\ (1 > k - 1 => k - 1 = 0) /\ k - 1 - 1 + 1 = k - 1
        BY <1>1
      <3> QED
        BY <3>1, FS_Interval
    <2> QED
      BY <2>4, <2>5, FS_Injection
  <1>6. MassOf(L) = SetMass(prob, L)
    BY <1>4, MassOfListedSet DEF MassOf
  <1>7. Mass(prob, First(k - 1, cand)) = SetMass(prob, E)
    <2>1. k - 1 \in 0 .. Len(cand)
      BY <1>1
    <2> QED
      BY <1>1, <2>1, MassOfSet
  <1> HIDE DEF E
  <1>8. SetMass(prob, L) <= SetMass(prob, E) /\ SetMass(prob, L) \in Nat
    BY <1>3, SetMassMonotone
  <1> QED
    BY <1>3, <1>5, <1>6, <1>7, <1>8 DEF L, E

-----------------------------------------------------------------------------
(* The invariant of the truncation. *)

TruncInv ==
    /\ filters \in Filters /\ min_p \in {0} \cup MinPs
    /\ pc = "draw" =>
          /\ prob \in [Vocab -> Nat]
          /\ \E t \in Vocab : prob[t] > 0
          /\ \E cand \in Ranked(prob) :
                kept = Cut(prob, filters.top_k, min_p, filters.top_p, cand)

LEMMA SoftmaxIs ==
  ASSUME NEW v \in [Vocab -> Int], filters \in Filters, filters.temperature > 0
  PROVE  /\ Softmax(v) \in [Vocab -> Nat]
         /\ \E t \in Vocab : Softmax(v)[t] > 0
  <1> DEFINE a == Argmax(v)
             temp == filters.temperature
  <1>1. a \in Vocab /\ \A u \in Vocab : v[u] <= v[a]
    <2>1. /\ a \in Vocab
          /\ \A u \in Vocab : v[u] < v[a] \/ (v[u] = v[a] /\ a <= u)
      BY ArgmaxProperties
    <2>2. \A u \in Vocab : v[u] \in Int
      OBVIOUS
    <2> HIDE DEF a
    <2> QED
      BY <2>1, <2>2
  <1>2. /\ MaxDrop \in Nat /\ Exp(temp, 0) > 0
        /\ \A d \in 0 .. MaxDrop : Exp(temp, d) \in Nat
    BY FilterAssumption
  <1>3. Softmax(v) = [t \in Vocab |-> IF v[a] - v[t] > MaxDrop THEN 0 ELSE Exp(temp, v[a] - v[t])]
    BY DEF Softmax
  <1> HIDE DEF a, temp
  <1>4. ASSUME NEW t \in Vocab
        PROVE  (IF v[a] - v[t] > MaxDrop THEN 0 ELSE Exp(temp, v[a] - v[t])) \in Nat
    <2>1. v[t] \in Int /\ v[a] \in Int /\ v[t] <= v[a]
      BY <1>1
    <2>2. v[a] - v[t] > MaxDrop \/ v[a] - v[t] \in 0 .. MaxDrop
      BY <1>2, <2>1
    <2> QED
      BY <1>2, <2>2
  <1>5. Softmax(v)[a] > 0
    <2>1. v[a] - v[a] = 0 /\ ~(0 > MaxDrop)
      BY <1>1, <1>2
    <2> QED
      BY <1>1, <1>2, <1>3, <2>1
  <1> QED
    BY <1>1, <1>3, <1>4, <1>5

LEMMA InitTrunc == Init => TruncInv
  BY DEF Init, TruncInv

LEMMA NextTrunc ==
  ASSUME RingInv, TruncInv, [Next]_vars
  PROVE  TruncInv'
  <1>1. CASE UNCHANGED <<settings, local>>
    BY <1>1 DEF TruncInv, settings, local
  <1>2. CASE UNCHANGED vars
    BY <1>1, <1>2 DEF vars
  <1>3. ASSUME NEW p \in Penalties, NEW n \in 0 .. MaxWindow, NEW min \in MinPs,
               SetPenalties(p, n, min)
        PROVE  TruncInv'
    BY <1>3 DEF SetPenalties, TruncInv, local
  <1>4. ASSUME NEW t \in Token, Accept(t) PROVE TruncInv'
    BY <1>1, <1>4 DEF Accept
  <1>5. CASE Reset
    BY <1>1, <1>5 DEF Reset
  <1>6. CASE Free
    BY <1>1, <1>6 DEF Free
  <1>7. ASSUME NEW raw \in [Vocab -> Logits], SampleGreedy(raw) PROVE TruncInv'
    BY <1>1, <1>7 DEF SampleGreedy
  <1>8. ASSUME NEW raw \in [Vocab -> Logits], Truncate(raw) PROVE TruncInv'
    <2>1. /\ filters \in Filters /\ filters.temperature > 0
          /\ prob' = Softmax(ApplyPenalties(raw))
          /\ \E cand \in Ranked(prob') :
                kept' = Cut(prob', filters.top_k, min_p, filters.top_p, cand)
          /\ filters' = filters /\ min_p' = min_p
      BY <1>8 DEF Truncate, TruncInv, settings
    <2>2. ApplyPenalties(raw) \in [Vocab -> Int]
      BY ApplyPenaltiesType, ConstantsAre
    <2>3. prob' \in [Vocab -> Nat] /\ \E t \in Vocab : prob'[t] > 0
      BY <2>1, <2>2, SoftmaxIs
    <2> QED
      BY <2>1, <2>3 DEF TruncInv
  <1>9. ASSUME NEW t \in Vocab, Draw(t) PROVE TruncInv'
    BY <1>9 DEF Draw, TruncInv, settings
  <1> QED
    BY <1>2, <1>3, <1>4, <1>5, <1>6, <1>7, <1>8, <1>9 DEF Next

LEMMA FiltersAre ==
  ASSUME TruncInv
  PROVE  filters.top_k \in Int /\ filters.top_p \in 0 .. 100 /\ min_p \in 0 .. 100
  BY FilterAssumption DEF TruncInv

\* What the candidates are while a draw is pending.
LEMMA HeadIs ==
  ASSUME TruncInv, pc = "draw"
  PROVE  /\ prob \in [Vocab -> Nat]
         /\ SetMass(prob, Vocab) \in Nat \ {0} /\ MassOf(Vocab) = SetMass(prob, Vocab)
         /\ \E cand \in Ranked(prob), n \in 1 .. N :
               /\ kept = First(n, cand)
               /\ KeepsTo(prob, filters.top_k, min_p, filters.top_p, cand, n)
  <1>1. prob \in [Vocab -> Nat]
    BY DEF TruncInv
  <1>2. PICK t \in Vocab : prob[t] > 0
    BY DEF TruncInv
  <1>3. SetMass(prob, Vocab) \in Nat \ {0}
    <2>1. SetMass(prob, (Vocab \ {t}) \cup {t}) = SetMass(prob, Vocab \ {t}) + prob[t]
      <3> DEFINE S == Vocab \ {t}
      <3>1. t \notin S
        OBVIOUS
      <3> HIDE DEF S
      <3>2. SetMass(prob, S \cup {t}) = SetMass(prob, S) + prob[t]
        BY <1>1, <3>1, SetMassAdd
      <3> QED
        BY <3>2 DEF S
    <2>2. (Vocab \ {t}) \cup {t} = Vocab
      OBVIOUS
    <2>3. SetMass(prob, Vocab \ {t}) \in Nat /\ SetMass(prob, Vocab) \in Nat /\ prob[t] \in Nat
      BY <1>1, SetMassMonotone
    <2>4. SetMass(prob, Vocab) = SetMass(prob, Vocab \ {t}) + prob[t]
      BY <2>1, <2>2, Zenon
    <2> QED
      BY <1>2, <2>3, <2>4
  <1>4. MassOf(Vocab) = SetMass(prob, Vocab)
    BY <1>1, MassOfListedSet DEF MassOf
  <1>5. PICK cand \in Ranked(prob) :
           kept = Cut(prob, filters.top_k, min_p, filters.top_p, cand)
    BY DEF TruncInv
  <1>6. \E n \in 1 .. N :
           /\ Cut(prob, filters.top_k, min_p, filters.top_p, cand) = First(n, cand)
           /\ KeepsTo(prob, filters.top_k, min_p, filters.top_p, cand, n)
    BY <1>1, FiltersAre, CutIs
  <1> QED
    BY <1>1, <1>3, <1>4, <1>5, <1>6

LEMMA HeadIsKept == TruncInv => KeptIsHead
  <1> SUFFICES ASSUME TruncInv, pc = "draw"
               PROVE  /\ kept # <<>>
                      /\ \A t \in TokensIn(kept), u \in Vocab \ TokensIn(kept) : prob[t] >= prob[u]
                      /\ filters.top_k > 0 => Len(kept) <= filters.top_k
                      /\ filters.top_k \notin 1 .. N - 1 /\ min_p \in {0, 100} /\ filters.top_p > 0 =>
                            100 * MassOf(TokensIn(kept)) >= filters.top_p * MassOf(Vocab)
    BY DEF KeptIsHead
  <1>1. PICK cand \in Ranked(prob), n \in 1 .. N :
               /\ kept = First(n, cand)
               /\ KeepsTo(prob, filters.top_k, min_p, filters.top_p, cand, n)
    BY HeadIs
  <1>2. /\ prob \in [Vocab -> Nat] /\ N \in Nat
        /\ MassOf(Vocab) = SetMass(prob, Vocab)
    BY HeadIs, ConstantsAre
  <1>3. /\ cand \in Seq(Vocab) /\ Len(cand) = N
        /\ \A i, j \in 1 .. N : cand[i] = cand[j] => i = j
        /\ \A t \in Vocab : \E j \in 1 .. N : cand[j] = t
        /\ \A i, j \in 1 .. N : i <= j => prob[cand[i]] >= prob[cand[j]]
    BY <1>2, RankedAre
  <1>4. /\ kept \in Seq(Vocab) /\ Len(kept) = n /\ DOMAIN kept = 1 .. n
        /\ \A j \in 1 .. n : kept[j] = cand[j] /\ j \in 1 .. N
    <2>1. n \in 0 .. Len(cand) /\ \A j \in 1 .. n : j \in 1 .. N
      BY <1>2, <1>3
    <2>2. /\ First(n, cand) \in Seq(Vocab) /\ Len(First(n, cand)) = n
          /\ \A j \in 1 .. n : First(n, cand)[j] = cand[j]
      BY <1>3, <2>1, FirstIs
    <2>3. kept = First(n, cand)
      BY <1>1
    <2> QED
      BY <2>1, <2>2, <2>3
  <1>5. TokensIn(kept) = {cand[j] : j \in 1 .. n}
    BY <1>4 DEF TokensIn
  <1>6. kept # <<>>
    BY <1>2, <1>4
  <1>7. ASSUME NEW t \in TokensIn(kept), NEW u \in Vocab \ TokensIn(kept)
        PROVE  prob[t] >= prob[u]
    <2>1. PICK i \in 1 .. n : t = cand[i]
      BY <1>5
    <2>2. PICK j \in 1 .. N : u = cand[j]
      BY <1>3
    <2>3. ~(j \in 1 .. n)
      BY <1>5, <2>2
    <2>4. i <= j /\ i \in 1 .. N
      BY <1>2, <2>3
    <2> QED
      BY <1>3, <2>1, <2>2, <2>4
  <1>8. filters.top_k > 0 => Len(kept) <= filters.top_k
    BY <1>1, <1>4 DEF KeepsTo
  <1>9. ASSUME filters.top_k \notin 1 .. N - 1, min_p \in {0, 100}, filters.top_p > 0
        PROVE  100 * MassOf(TokensIn(kept)) >= filters.top_p * MassOf(Vocab)
    <2>1. 100 * Mass(prob, First(n, cand)) >= filters.top_p * Mass(prob, SetToSeq(DOMAIN prob))
      BY <1>1, <1>9 DEF KeepsTo, Reaches
    <2>2. Mass(prob, SetToSeq(DOMAIN prob)) = MassOf(Vocab)
      BY <1>2 DEF MassOf
    <2>3. Mass(prob, First(n, cand)) = SetMass(prob, TokensIn(kept))
      <3>1. n \in 0 .. Len(cand) /\ \A i, j \in 1 .. Len(cand) : cand[i] = cand[j] => i = j
        BY <1>2, <1>3
      <3>2. Mass(prob, First(n, cand)) = SetMass(prob, {cand[j] : j \in 1 .. n})
        BY <1>2, <1>3, <3>1, MassOfSet
      <3> QED
        BY <1>5, <3>2
    <2>4. MassOf(TokensIn(kept)) = SetMass(prob, TokensIn(kept))
      <3>1. TokensIn(kept) \in SUBSET Vocab
        BY <1>4 DEF TokensIn
      <3> QED
        BY <1>2, <3>1, MassOfListedSet DEF MassOf
    <2> QED
      BY <2>1, <2>2, <2>3, <2>4
  <1> QED
    BY <1>6, <1>7, <1>8, <1>9

LEMMA DrawnPasses ==
  ASSUME TruncInv, NEW t \in Vocab, Draw(t)
  PROVE  /\ filters.top_k > 0 => Cardinality(Likelier(t)) < filters.top_k
         /\ 0 < min_p /\ min_p < 100 =>
               \A u \in Vocab : 100 * prob[t] >= min_p * prob[u]
         /\ 0 < filters.top_p /\ filters.top_p < 100 =>
               100 * MassOf(Likelier(t)) < filters.top_p * MassOf(Vocab)
  <1>0. pc = "draw" /\ t \in Drawn(prob, kept)
    BY DEF Draw
  <1>1. PICK cand \in Ranked(prob), n \in 1 .. N :
               /\ kept = First(n, cand)
               /\ KeepsTo(prob, filters.top_k, min_p, filters.top_p, cand, n)
    BY <1>0, HeadIs
  <1>2. /\ prob \in [Vocab -> Nat] /\ N \in Nat \ {0}
        /\ SetMass(prob, Vocab) \in Nat \ {0} /\ MassOf(Vocab) = SetMass(prob, Vocab)
        /\ filters.top_k \in Int /\ filters.top_p \in 0 .. 100 /\ min_p \in 0 .. 100
    BY <1>0, HeadIs, ConstantsAre, FiltersAre
  <1>3. /\ cand \in Seq(Vocab) /\ Len(cand) = N
        /\ \A u \in Vocab : \E j \in 1 .. N : cand[j] = u
        /\ \A i, j \in 1 .. N : i <= j => prob[cand[i]] >= prob[cand[j]]
    BY <1>2, RankedAre
  <1>4. PICK k \in 1 .. n : t = cand[k]
    <2>1. t \in Drawn(prob, First(n, cand)) /\ n \in 1 .. Len(cand)
      BY <1>0, <1>1, <1>3
    <2> QED
      BY <1>2, <1>3, <2>1, DrawnIs
  <1>5. k \in 1 .. N /\ 1 \in 1 .. N
    BY <1>2
  <1>6. /\ Cardinality(Likelier(t)) <= k - 1
        /\ MassOf(Likelier(t)) \in Nat
        /\ MassOf(Likelier(t)) <= Mass(prob, First(k - 1, cand))
    BY <1>2, <1>4, <1>5, LikelierAre
  <1>7. ASSUME filters.top_k > 0 PROVE Cardinality(Likelier(t)) < filters.top_k
    <2>1. n <= filters.top_k
      BY <1>1, <1>7 DEF KeepsTo
    <2>2. Likelier(t) \in SUBSET Vocab /\ IsFiniteSet(Vocab)
      <3>1. 0 \in Int /\ N - 1 \in Int
        BY <1>2
      <3> QED
        BY <3>1, FS_Interval DEF Likelier, Vocab
    <2>3. Cardinality(Likelier(t)) \in Nat
      BY <2>2, FS_Subset, FS_CardinalityType
    <2> QED
      BY <1>2, <1>4, <1>5, <1>6, <2>1, <2>3
  <1>8. ASSUME 0 < min_p, min_p < 100, NEW u \in Vocab
        PROVE  100 * prob[t] >= min_p * prob[u]
    <2> DEFINE a == prob[t]
               b == prob[u]
               peak == prob[cand[1]]
    <2>1. 100 * a >= min_p * peak
      BY <1>1, <1>4, <1>8 DEF KeepsTo, NearPeak
    <2>2. a \in Nat /\ b \in Nat /\ peak \in Nat /\ b <= peak
      <3>1. PICK j \in 1 .. N : cand[j] = u
        BY <1>3
      <3>2. cand[1] \in Vocab /\ 1 <= j
        BY <1>3, <1>5
      <3> QED
        BY <1>2, <1>3, <1>5, <3>1, <3>2
    <2> HIDE DEF a, b, peak
    <2>3. min_p * b <= min_p * peak /\ min_p * b \in Nat /\ min_p * peak \in Nat
      BY <1>2, <2>2
    <2>4. 100 * a >= min_p * b
      BY <2>1, <2>2, <2>3
    <2> QED
      BY <2>4 DEF a, b
  <1>9. ASSUME 0 < filters.top_p, filters.top_p < 100
        PROVE  100 * MassOf(Likelier(t)) < filters.top_p * MassOf(Vocab)
    <2> DEFINE l == MassOf(Likelier(t))
               m == Mass(prob, First(k - 1, cand))
               all == SetMass(prob, Vocab)
               p == filters.top_p
    <2>1. l \in Nat /\ m \in Nat /\ l <= m /\ all \in Nat \ {0} /\ p \in 1 .. 99
      <3>1. k - 1 \in 0 .. Len(cand)
        BY <1>3, <1>5
      <3>2. m \in Nat
        BY <1>2, <1>3, <3>1, MassOfPrefixes
      <3> QED
        BY <1>2, <1>6, <1>9, <3>2
    <2>2. CASE k = 1
      <3>1. m = 0
        <4>1. Mass(prob, First(0, cand)) = 0 /\ k - 1 = 0
          BY <1>2, <1>3, <2>2, MassOfPrefixes
        <4> QED
          BY <4>1
      <3> HIDE DEF l, m, all, p
      <3>2. p * all > 0 /\ 100 * l = 0
        BY <2>1, <3>1
      <3>3. 100 * l < p * all
        BY <3>2
      <3> QED
        BY <1>2, <3>3 DEF l, all, p
    <2>3. CASE k # 1
      <3>1. k - 1 \in 1 .. n - 1
        BY <1>2, <2>3
      <3>2. ~Reaches(prob, filters.top_p, k - 1, cand)
        BY <1>1, <1>9, <3>1 DEF KeepsTo
      <3>3. Mass(prob, SetToSeq(DOMAIN prob)) = all
        BY <1>2, TotalIs
      <3>4. ~(100 * m >= p * all)
        BY <3>2, <3>3 DEF Reaches
      <3> HIDE DEF l, m, all, p
      <3>5. 100 * l <= 100 * m /\ 100 * l \in Nat /\ 100 * m \in Nat /\ p * all \in Nat
        BY <2>1
      <3>6. 100 * l < p * all
        BY <3>4, <3>5
      <3> QED
        BY <1>2, <3>6 DEF l, all, p
    <2> QED
      BY <2>2, <2>3
  <1> QED
    BY <1>7, <1>8, <1>9

-----------------------------------------------------------------------------
(* The theorems about the filters. *)

LEMMA TruncInvariant == Spec => []TruncInv
  <1> QED
    BY InitTrunc, NextTrunc, RingInvariant, PTL DEF Spec

\* Whatever qsort makes of equal weights, top_k, min_p and top_p of ember_sample
\* cut the tail and nothing else, leave something and no more than top_k, and
\* top_p alone leaves enough to reach top_p of the whole weight.
THEOREM OnlyTheTailIsCut == Spec => []KeptIsHead
  <1> QED
    BY HeadIsKept, TruncInvariant, PTL

\* The token ember_sample draws is never one a filter rules out: fewer than
\* top_k tokens are likelier, it has min_p of the peak, and the likelier ones
\* alone do not reach top_p.
THEOREM DrawsPassTheFilters == Spec => DrawPasses
  <1>1. ASSUME TruncInv
        PROVE  \A t \in Vocab : Draw(t) =>
                  /\ filters.top_k > 0 => Cardinality(Likelier(t)) < filters.top_k
                  /\ 0 < min_p /\ min_p < 100 =>
                        \A u \in Vocab : 100 * prob[t] >= min_p * prob[u]
                  /\ 0 < filters.top_p /\ filters.top_p < 100 =>
                        100 * MassOf(Likelier(t)) < filters.top_p * MassOf(Vocab)
    BY <1>1, DrawnPasses
  <1> QED
    BY <1>1, TruncInvariant, PTL DEF DrawPasses
=============================================================================
