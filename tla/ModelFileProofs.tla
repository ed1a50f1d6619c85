--------------------------- MODULE ModelFileProofs ---------------------------
(***************************************************************************)
(* Proofs about ModelFile, for every size of a model and of its tokenizer, *)
(* every place the file may have been cut at and any number of             *)
(* quantizations; and about the blocks, halves and products of the kernels.*)
(***************************************************************************)
EXTENDS ModelFile, FiniteSetTheorems, SequenceTheorems, NatRecursion

-----------------------------------------------------------------------------
(* Offsets. *)

LEMMA Alignment ==
  ASSUME NEW x \in Nat
  PROVE  /\ AlignUp(x, 8) \in Nat /\ AlignUp(x, 8) >= x
         /\ AlignUp(x, 64) \in Nat /\ AlignUp(x, 64) >= x /\ AlignUp(x, 64) % 64 = 0
  <1>1. /\ ((x + 63) \div 64) * 64 >= x /\ (((x + 63) \div 64) * 64) % 64 = 0
        /\ ((x + 63) \div 64) * 64 \in Nat
    OBVIOUS
  <1>2. ((x + 7) \div 8) * 8 >= x /\ ((x + 7) \div 8) * 8 \in Nat
    OBVIOUS
  <1>3. x + 64 - 1 = x + 63 /\ x + 8 - 1 = x + 7
    OBVIOUS
  <1> QED
    BY <1>1, <1>2, <1>3 DEF AlignUp

LEMMA PadToIs ==
  ASSUME NEW p \in Nat, NEW o \in Nat, p <= o
  PROVE  PadTo(p, o) = o
  <1>1. o \in {p, o} /\ \A y \in {p, o} : o >= y
    OBVIOUS
  <1>2. \A x \in {p, o} : (\A y \in {p, o} : x >= y) => x = o
    OBVIOUS
  <1> QED
    BY <1>1, <1>2 DEF PadTo, Max

\* Each offset is the end of the data before it, aligned.
LEMMA OffsetsAre ==
  ASSUME NEW start \in Nat, NEW n \in Nat, NEW out, DOMAIN out = 1 .. n,
         \A i \in 1 .. n : out[i].nbytes \in Nat
  PROVE  /\ Offsets(start, out) \in [1 .. n -> Nat]
         /\ \A i \in 1 .. n :
               Offsets(start, out)[i]
                 = AlignUp(IF i = 1 THEN start
                           ELSE Offsets(start, out)[i - 1] + out[i - 1].nbytes, 64)
  <1> DEFINE Is(f) == f = [i \in 1 .. n |->
                             AlignUp(IF i = 1 THEN start ELSE f[i - 1] + out[i - 1].nbytes, 64)]
             step == [kv \in (1 .. n) \X Nat |->
                        AlignUp(IF kv[1] = 1 THEN start
                                ELSE kv[2] + out[kv[1] - 1].nbytes, 64)]
  <1>1. step \in [(1 .. n) \X Nat -> Nat]
    <2> SUFFICES ASSUME NEW k \in 1 .. n, NEW v \in Nat
                 PROVE  AlignUp(IF k = 1 THEN start ELSE v + out[k - 1].nbytes, 64) \in Nat
      OBVIOUS
    <2>1. CASE k = 1
      BY <2>1, Alignment
    <2>2. CASE k # 1
      <3>1. k - 1 \in 1 .. n
        BY <2>2
      <3>2. v + out[k - 1].nbytes \in Nat
        BY <3>1
      <3> QED
        BY <2>2, <3>2, Alignment
    <2> QED
      BY <2>1, <2>2
  <1>2. PICK f \in [0 .. n -> Nat] : Recurses(f, n, 0, step)
    <2> HIDE DEF step
    <2> QED
      BY <1>1, RecursionExists
  <1> DEFINE g == [i \in 1 .. n |-> f[i]]
  <1>3. Is(g)
    <2> SUFFICES ASSUME NEW i \in 1 .. n
                 PROVE  f[i] = AlignUp(IF i = 1 THEN start ELSE g[i - 1] + out[i - 1].nbytes, 64)
      OBVIOUS
    <2>1. i # 0 /\ i \in 0 .. n /\ i - 1 \in 0 .. n
      OBVIOUS
    <2>2. f[i] = step[<<i, f[i - 1]>>]
      BY <1>2, <2>1 DEF Recurses
    <2>3. f[i - 1] \in Nat
      BY <2>1
    <2>4. f[i] = AlignUp(IF i = 1 THEN start ELSE f[i - 1] + out[i - 1].nbytes, 64)
      <3>1. <<i, f[i - 1]>> \in (1 .. n) \X Nat
        BY <2>3
      <3> QED
        BY <2>2, <3>1
    <2>5. i # 1 => g[i - 1] = f[i - 1]
      <3>1. i # 1 => i - 1 \in 1 .. n
        OBVIOUS
      <3> QED
        BY <3>1
    <2> QED
      BY <2>4, <2>5
  <1> DEFINE off == CHOOSE h : Is(h)
  <1>4. Offsets(start, out) = off
    BY DEF Offsets
  <1>5. Is(off)
    <2> HIDE DEF Is, g
    <2> QED
      BY <1>3
  <1> HIDE DEF off
  <1> DEFINE S == {k \in 0 .. n : k = 0 \/ off[k] \in Nat}
  <1>6. S = 0 .. n
    <2>1. 0 \in S /\ S \in SUBSET (0 .. n)
      OBVIOUS
    <2>2. ASSUME NEW k \in 0 .. n - 1, k \in S PROVE k + 1 \in S
      <3>1. k + 1 \in 1 .. n /\ (k + 1) - 1 = k /\ (k # 0 => k \in 1 .. n) /\ (k + 1 = 1 <=> k = 0)
        OBVIOUS
      <3>2. off[k + 1] = AlignUp(IF k = 0 THEN start ELSE off[k] + out[k].nbytes, 64)
        BY <1>5, <3>1
      <3>3. (IF k = 0 THEN start ELSE off[k] + out[k].nbytes) \in Nat
        <4>1. k # 0 => off[k] \in Nat /\ out[k].nbytes \in Nat
          BY <2>2, <3>1
        <4> QED
          BY <4>1
      <3>4. off[k + 1] \in Nat
        BY <3>2, <3>3, Alignment
      <3> QED
        BY <3>1, <3>4
    <2> HIDE DEF S
    <2> QED
      BY <2>1, <2>2, BoundedInduction
  <1>7. \A i \in 1 .. n : off[i] \in Nat
    <2> SUFFICES ASSUME NEW i \in 1 .. n PROVE off[i] \in Nat
      OBVIOUS
    <2>1. i \in 0 .. n /\ i # 0
      OBVIOUS
    <2> QED
      BY <1>6, <2>1
  <1>8. off \in [1 .. n -> Nat]
    BY <1>5, <1>7
  <1> QED
    BY <1>4, <1>5, <1>8

\* Offsets are aligned, and the data before each ends in front of it.
LEMMA OffsetsProperties ==
  ASSUME NEW start \in Nat, NEW n \in Nat, NEW out, DOMAIN out = 1 .. n,
         \A i \in 1 .. n : out[i].nbytes \in Nat
  PROVE  LET off == Offsets(start, out) IN
         \A i \in 1 .. n :
            /\ off[i] \in Nat /\ off[i] % 64 = 0
            /\ i = 1 => start <= off[i]
            /\ i # 1 => off[i - 1] \in Nat /\ off[i - 1] + out[i - 1].nbytes <= off[i]
  <1> DEFINE off == Offsets(start, out)
  <1>1. off \in [1 .. n -> Nat]
        /\ \A i \in 1 .. n :
              off[i] = AlignUp(IF i = 1 THEN start ELSE off[i - 1] + out[i - 1].nbytes, 64)
    BY OffsetsAre
  <1> HIDE DEF off
  <1>2. ASSUME NEW i \in 1 .. n
        PROVE  /\ off[i] \in Nat /\ off[i] % 64 = 0
               /\ i = 1 => start <= off[i]
               /\ i # 1 => off[i - 1] \in Nat /\ off[i - 1] + out[i - 1].nbytes <= off[i]
    <2>1. CASE i = 1
      BY <1>1, <2>1, Alignment
    <2>2. CASE i # 1
      <3>1. i - 1 \in 1 .. n
        BY <2>2
      <3>2. off[i - 1] \in Nat /\ off[i - 1] + out[i - 1].nbytes \in Nat
        BY <1>1, <3>1
      <3> DEFINE x == off[i - 1] + out[i - 1].nbytes
      <3>3. off[i] = AlignUp(x, 64)
        BY <1>1, <2>2
      <3>4. x \in Nat
        BY <3>2
      <3> HIDE DEF x
      <3>5. off[i] \in Nat /\ off[i] % 64 = 0 /\ x <= off[i]
        BY <3>3, <3>4, Alignment
      <3> QED
        BY <2>2, <3>2, <3>5 DEF x
    <2> QED
      BY <2>1, <2>2
  <1> QED
    BY <1>2 DEF off

\* The data is written where its offsets say: the padding never has to go back.
LEMMA PositionsAre ==
  ASSUME NEW start \in Nat, NEW n \in Nat, NEW out, DOMAIN out = 1 .. n,
         \A i \in 1 .. n : out[i].nbytes \in Nat
  PROVE  Positions(start, Offsets(start, out), out) = Offsets(start, out)
  <1> DEFINE off == Offsets(start, out)
             Is(f) == f = [i \in 1 .. n |->
                             PadTo(IF i = 1 THEN start ELSE f[i - 1] + out[i - 1].nbytes, off[i])]
             at == CHOOSE f : Is(f)
  <1>1. /\ off = [i \in 1 .. n |-> off[i]]
        /\ \A i \in 1 .. n :
              /\ off[i] \in Nat
              /\ i = 1 => start <= off[i]
              /\ i # 1 => off[i - 1] \in Nat /\ off[i - 1] + out[i - 1].nbytes <= off[i]
    BY OffsetsAre, OffsetsProperties
  <1>2. Positions(start, off, out) = at
    BY DEF Positions
  <1> HIDE DEF off
  <1>3. ASSUME NEW i \in 1 .. n
        PROVE  PadTo(IF i = 1 THEN start ELSE off[i - 1] + out[i - 1].nbytes, off[i]) = off[i]
    <2>1. CASE i = 1
      BY <1>1, <2>1, PadToIs
    <2>2. CASE i # 1
      <3>1. i - 1 \in 1 .. n
        BY <2>2
      <3>2. off[i - 1] \in Nat /\ off[i - 1] + out[i - 1].nbytes <= off[i] /\ off[i] \in Nat
        BY <1>1, <2>2
      <3>3. out[i - 1].nbytes \in Nat
        BY <3>1
      <3>4. off[i - 1] + out[i - 1].nbytes \in Nat
        BY <3>2, <3>3
      <3> QED
        BY <2>2, <3>2, <3>4, PadToIs
    <2> QED
      BY <2>1, <2>2
  <1>4. Is(off)
    BY <1>1, <1>3
  <1>5. Is(at)
    <2> HIDE DEF Is
    <2> QED
      BY <1>4
  <1> HIDE DEF at
  <1> DEFINE S == {k \in 0 .. n : k = 0 \/ at[k] = off[k]}
  <1>6. S = 0 .. n
    <2>1. 0 \in S /\ S \in SUBSET (0 .. n)
      OBVIOUS
    <2>2. ASSUME NEW k \in 0 .. n - 1, k \in S PROVE k + 1 \in S
      <3>1. k + 1 \in 1 .. n /\ (k + 1) - 1 = k /\ (k # 0 => at[k] = off[k])
            /\ (k + 1 = 1 <=> k = 0)
        BY <2>2
      <3>2. at[k + 1] = PadTo(IF k + 1 = 1 THEN start ELSE at[k] + out[k].nbytes, off[k + 1])
        <4>1. \A j \in 1 .. n :
                at[j] = PadTo(IF j = 1 THEN start ELSE at[j - 1] + out[j - 1].nbytes, off[j])
          BY <1>5
        <4> HIDE DEF Is
        <4> QED
          BY <3>1, <4>1
      <3>3. PadTo(IF k + 1 = 1 THEN start ELSE off[k] + out[k].nbytes, off[k + 1]) = off[k + 1]
        <4>1. PadTo(IF k + 1 = 1 THEN start
                    ELSE off[(k + 1) - 1] + out[(k + 1) - 1].nbytes, off[k + 1]) = off[k + 1]
          BY <1>3, <3>1
        <4> QED
          BY <3>1, <4>1
      <3>4. at[k + 1] = off[k + 1]
        BY <3>1, <3>2, <3>3
      <3> QED
        BY <3>1, <3>4
    <2> HIDE DEF S
    <2> QED
      BY <2>1, <2>2, BoundedInduction
  <1>7. \A i \in 1 .. n : at[i] = off[i]
    <2> SUFFICES ASSUME NEW i \in 1 .. n PROVE at[i] = off[i]
      OBVIOUS
    <2>1. i \in 0 .. n /\ i # 0
      OBVIOUS
    <2> QED
      BY <1>6, <2>1
  <1>8. at = [i \in 1 .. n |-> at[i]]
    BY <1>5
  <1>9. at = off
    BY <1>1, <1>7, <1>8
  <1> QED
    BY <1>2, <1>9 DEF off

-----------------------------------------------------------------------------
(* A file as it was written. *)

\* Where table and data begin.
TableOff(tok) == AlignUp(HeaderSize + tok, 8)
DataStart(tok, n) == AlignUp(TableOff(tok) + n * TensorSize, 64)

\* Every piece is where header and table say.
LEMMA WrittenIs ==
  ASSUME NEW tok \in Nat, NEW n \in Nat \ {0}, NEW out, DOMAIN out = 1 .. n, Len(out) = n,
         \A i \in 1 .. n : out[i].nbytes \in Nat
  PROVE  LET w == Written(tok, out) IN
         /\ w = [tok_off |-> HeaderSize, tok_size |-> tok, table_off |-> w.table_off,
                 table_at |-> w.table_at, n_tensors |-> n, table |-> w.table, at |-> w.at,
                 total |-> w.total]
         /\ w.table_off \in Nat /\ w.table_at = w.table_off
         /\ w.table = [i \in 1 .. n |->
                         [name |-> out[i].name, dtype |-> out[i].dtype, rows |-> out[i].rows,
                          cols |-> out[i].cols, nbytes |-> out[i].nbytes, offset |-> w.at[i]]]
         /\ w.at \in [1 .. n -> Nat] /\ \A i \in 1 .. n : w.at[i] % 64 = 0
         /\ w.total = w.at[n] + out[n].nbytes
         /\ CutPoints(w) \subseteq {k \in Int : k <= w.total}
  <1> DEFINE w == Written(tok, out)
             table_off == TableOff(tok)
             data == DataStart(tok, n)
             off == Offsets(data, out)
             table == [i \in 1 .. n |->
                         [name |-> out[i].name, dtype |-> out[i].dtype, rows |-> out[i].rows,
                          cols |-> out[i].cols, nbytes |-> out[i].nbytes, offset |-> off[i]]]
  <1>1. /\ table_off \in Nat /\ HeaderSize + tok \in Nat /\ PadTo(HeaderSize + tok, table_off) = table_off
        /\ n * TensorSize \in Nat /\ table_off + n * TensorSize \in Nat
    <2>1. HeaderSize + tok \in Nat /\ n * TensorSize \in Nat
      BY DEF HeaderSize, TensorSize
    <2>2. table_off \in Nat /\ HeaderSize + tok <= table_off
      BY <2>1, Alignment DEF TableOff
    <2> QED
      BY <2>1, <2>2, PadToIs
  <1>2. data \in Nat /\ PadTo(table_off + n * TensorSize, data) = data
    <2>1. data \in Nat /\ table_off + n * TensorSize <= data
      BY <1>1, Alignment DEF DataStart
    <2> QED
      BY <1>1, <2>1, PadToIs
  <1>3. /\ off \in [1 .. n -> Nat] /\ \A i \in 1 .. n : off[i] % 64 = 0
        /\ Positions(data, off, out) = off
    <2> HIDE DEF data
    <2>1. off \in [1 .. n -> Nat]
      BY <1>2, OffsetsAre
    <2>2. \A i \in 1 .. n : off[i] % 64 = 0
      BY <1>2, OffsetsProperties
    <2>3. Positions(data, off, out) = off
      BY <1>2, PositionsAre
    <2> QED
      BY <2>1, <2>2, <2>3
  <1>4. w = [tok_off |-> HeaderSize, tok_size |-> tok, table_off |-> table_off,
             table_at |-> table_off, n_tensors |-> n, table |-> table, at |-> off,
             total |-> off[n] + out[n].nbytes]
    <2>1. w = [tok_off |-> HeaderSize, tok_size |-> tok, table_off |-> table_off,
               table_at |-> PadTo(HeaderSize + tok, table_off), n_tensors |-> n, table |-> table,
               at |-> Positions(PadTo(PadTo(HeaderSize + tok, table_off) + n * TensorSize, data),
                                off, out),
               total |-> Positions(PadTo(PadTo(HeaderSize + tok, table_off) + n * TensorSize, data),
                                   off, out)[n] + out[n].nbytes]
      BY DEF Written, TableOff, DataStart
    <2> HIDE DEF w, off, data, table_off, table
    <2> QED
      BY <1>1, <1>2, <1>3, <2>1
  <1> HIDE DEF w, off, data, table_off
  <1>5. CutPoints(w) \subseteq {k \in Int : k <= w.total}
    <2>1. /\ HeaderSize \in Int /\ HeaderSize + w.tok_size \in Int /\ w.table_at \in Int
          /\ w.table_at + w.n_tensors * TensorSize \in Int
      BY <1>1, <1>4 DEF HeaderSize
    <2>2. \A i \in DOMAIN w.at : w.at[i] \in Int /\ w.at[i] + w.table[i].nbytes \in Int
      BY <1>3, <1>4
    <2> DEFINE ends == {HeaderSize, HeaderSize + w.tok_size, w.table_at,
                        w.table_at + w.n_tensors * TensorSize}
                       \cup {w.at[i] : i \in DOMAIN w.at}
                       \cup {w.at[i] + w.table[i].nbytes : i \in DOMAIN w.at}
    <2>3. \A e \in ends : e \in Int
      BY <2>1, <2>2
    <2> DEFINE Around(e) == {e - 1, e, e + 1}
               all == {0} \cup UNION {Around(e) : e \in ends}
    <2>4. CutPoints(w) = {k \in all : k <= w.total}
      BY DEF CutPoints
    <2> HIDE DEF ends, Around
    <2>5. \A k \in all : k = 0 \/ \E e \in ends : k \in Around(e)
      OBVIOUS
    <2>6. \A e \in ends : \A k \in Around(e) : k \in Int
      <3> SUFFICES ASSUME NEW e \in ends, NEW k \in Around(e) PROVE k \in Int
        OBVIOUS
      <3>1. e \in Int
        BY <2>3
      <3> QED
        BY <3>1 DEF Around
    <2> HIDE DEF all
    <2>7. \A k \in all : k \in Int
      BY <2>5, <2>6
    <2> QED
      BY <2>4, <2>7
  <1>6. off[n] \in Nat /\ n \in 1 .. n
    BY <1>3
  <1>7. /\ w = [tok_off |-> HeaderSize, tok_size |-> tok, table_off |-> w.table_off,
                 table_at |-> w.table_at, n_tensors |-> n, table |-> w.table, at |-> w.at,
                 total |-> w.total]
        /\ w.table_off \in Nat /\ w.table_at = w.table_off
        /\ w.table = [i \in 1 .. n |->
                         [name |-> out[i].name, dtype |-> out[i].dtype, rows |-> out[i].rows,
                          cols |-> out[i].cols, nbytes |-> out[i].nbytes, offset |-> w.at[i]]]
        /\ w.at \in [1 .. n -> Nat] /\ \A i \in 1 .. n : w.at[i] % 64 = 0
        /\ w.total = w.at[n] + out[n].nbytes
    BY <1>1, <1>3, <1>4
  <1> QED
    BY <1>5, <1>7 DEF w

-----------------------------------------------------------------------------
(* The tensors of a model. *)

\* The elements of a concatenation.
LEMMA ConcatIs ==
  ASSUME NEW S, NEW s \in Seq(S), NEW t \in Seq(S)
  PROVE  /\ s \o t \in Seq(S) /\ Len(s \o t) = Len(s) + Len(t)
         /\ \A k \in 1 .. Len(s) : (s \o t)[k] = s[k]
         /\ \A k \in 1 .. Len(t) : (s \o t)[Len(s) + k] = t[k]
  <1>1. Len(s) \in Nat /\ Len(t) \in Nat
    OBVIOUS
  <1>2. s \o t \in Seq(S) /\ Len(s \o t) = Len(s) + Len(t)
        /\ \A k \in 1 .. Len(s) + Len(t) :
              (s \o t)[k] = IF k <= Len(s) THEN s[k] ELSE t[k - Len(s)]
    BY ConcatProperties
  <1>3. \A k \in 1 .. Len(t) : (s \o t)[Len(s) + k] = t[k]
    <2> SUFFICES ASSUME NEW k \in 1 .. Len(t) PROVE (s \o t)[Len(s) + k] = t[k]
      OBVIOUS
    <2>1. /\ Len(s) + k \in 1 .. Len(s) + Len(t)
          /\ ~(Len(s) + k <= Len(s)) /\ (Len(s) + k) - Len(s) = k
      BY <1>1
    <2> QED
      BY <1>2, <2>1
  <1> QED
    BY <1>1, <1>2, <1>3

\* How many biases and output tables a model has.
NBias(a) == IF a.bias THEN 1 ELSE 0
NHead(a) == IF a.tied THEN 0 ELSE 1

\* The tensors by their places.
LEMMA TensorsAre ==
  ASSUME NEW a \in Archs
  PROVE  LET T == Tensors(a)  b == NBias(a)  h == NHead(a) IN
         /\ DOMAIN T = 1 .. Len(T) /\ Len(T) = 7 + b + h
         /\ T[1] = Tensor("tok_embeddings", a.vocab, a.dim, "embed")
         /\ T[2] = Tensor("attn_norm", a.dim, 1, "norm")
         /\ T[3] = Tensor("wq", a.dim, a.dim, "matmul")
         /\ b = 1 => T[4] = Tensor("wq_bias", a.dim, 1, "optional")
         /\ T[4 + b] = Tensor("ffn_norm", a.dim, 1, "norm")
         /\ T[5 + b] = Tensor("w1", a.hidden, a.dim, "matmul")
         /\ T[6 + b] = Tensor("w2", a.dim, a.hidden, "matmul")
         /\ T[7 + b] = Tensor("final_norm", a.dim, 1, "norm")
         /\ h = 1 => T[8 + b] = Tensor("lm_head", a.vocab, a.dim, "matmul")
  <1> DEFINE e1 == Tensor("tok_embeddings", a.vocab, a.dim, "embed")
             e2 == Tensor("attn_norm", a.dim, 1, "norm")
             e3 == Tensor("wq", a.dim, a.dim, "matmul")
             eb == Tensor("wq_bias", a.dim, 1, "optional")
             e4 == Tensor("ffn_norm", a.dim, 1, "norm")
             e5 == Tensor("w1", a.hidden, a.dim, "matmul")
             e6 == Tensor("w2", a.dim, a.hidden, "matmul")
             e7 == Tensor("final_norm", a.dim, 1, "norm")
             eh == Tensor("lm_head", a.vocab, a.dim, "matmul")
             S == {e1, e2, e3, eb, e4, e5, e6, e7, eh}
             p == <<e1, e2, e3>>
             q == Bias(a)
             r == <<e4, e5, e6, e7>>
             s == LmHead(a)
             b == NBias(a)
             h == NHead(a)
             pq == p \o q
             pqr == pq \o r
             T == pqr \o s
  <1>0. T = Tensors(a)
    BY DEF Tensors
  <1> HIDE DEF e1, e2, e3, eb, e4, e5, e6, e7, eh
  <1>1. p \in Seq(S) /\ Len(p) = 3 /\ p[1] = e1 /\ p[2] = e2 /\ p[3] = e3
    OBVIOUS
  <1>2. q \in Seq(S) /\ Len(q) = b /\ (b = 1 => q[1] = eb) /\ b \in {0, 1}
    <2>1. CASE a.bias
      <3>1. q = <<eb>> /\ b = 1
        BY <2>1 DEF Bias, NBias, eb
      <3> QED
        BY <3>1
    <2>2. CASE ~a.bias
      BY <2>2 DEF Bias, NBias
    <2> QED
      BY <2>1, <2>2
  <1>3. r \in Seq(S) /\ Len(r) = 4 /\ r[1] = e4 /\ r[2] = e5 /\ r[3] = e6 /\ r[4] = e7
    OBVIOUS
  <1>4. s \in Seq(S) /\ Len(s) = h /\ (h = 1 => s[1] = eh) /\ h \in {0, 1}
    <2>1. CASE ~a.tied
      <3>1. s = <<eh>> /\ h = 1
        BY <2>1 DEF LmHead, NHead, eh
      <3> QED
        BY <3>1
    <2>2. CASE a.tied
      BY <2>2 DEF LmHead, NHead
    <2> QED
      BY <2>1, <2>2
  <1> HIDE DEF S, p, q, r, s, b, h
  <1>5. /\ pq \in Seq(S) /\ Len(pq) = 3 + b
        /\ \A k \in 1 .. 3 : pq[k] = p[k]
        /\ \A k \in 1 .. b : pq[3 + k] = q[k]
    <2>1. p \in Seq(S) /\ q \in Seq(S)
      BY <1>1, <1>2
    <2>2. /\ pq \in Seq(S) /\ Len(pq) = Len(p) + Len(q)
          /\ \A k \in 1 .. Len(p) : pq[k] = p[k]
          /\ \A k \in 1 .. Len(q) : pq[Len(p) + k] = q[k]
      BY <2>1, ConcatIs
    <2> HIDE DEF pq
    <2> QED
      BY <1>1, <1>2, <2>2
  <1> HIDE DEF pq
  <1>6. /\ pqr \in Seq(S) /\ Len(pqr) = (3 + b) + 4
        /\ \A k \in 1 .. 3 + b : pqr[k] = pq[k]
        /\ \A k \in 1 .. 4 : pqr[(3 + b) + k] = r[k]
    <2>1. pq \in Seq(S) /\ r \in Seq(S)
      BY <1>3, <1>5
    <2>2. /\ pqr \in Seq(S) /\ Len(pqr) = Len(pq) + Len(r)
          /\ \A k \in 1 .. Len(pq) : pqr[k] = pq[k]
          /\ \A k \in 1 .. Len(r) : pqr[Len(pq) + k] = r[k]
      BY <2>1, ConcatIs
    <2> HIDE DEF pqr
    <2> QED
      BY <1>3, <1>5, <2>2
  <1> HIDE DEF pqr
  <1>7. /\ T \in Seq(S) /\ Len(T) = ((3 + b) + 4) + h
        /\ \A k \in 1 .. (3 + b) + 4 : T[k] = pqr[k]
        /\ \A k \in 1 .. h : T[((3 + b) + 4) + k] = s[k]
    <2>1. pqr \in Seq(S) /\ s \in Seq(S)
      BY <1>4, <1>6
    <2>2. /\ T \in Seq(S) /\ Len(T) = Len(pqr) + Len(s)
          /\ \A k \in 1 .. Len(pqr) : T[k] = pqr[k]
          /\ \A k \in 1 .. Len(s) : T[Len(pqr) + k] = s[k]
      BY <2>1, ConcatIs
    <2> HIDE DEF T
    <2> QED
      BY <1>4, <1>6, <2>2
  <1> HIDE DEF T
  <1>8. DOMAIN T = 1 .. Len(T) /\ Len(T) = 7 + b + h
    <2>1. Len(T) = 7 + b + h
      BY <1>2, <1>4, <1>7
    <2> QED
      BY <1>7, <2>1
  <1>9. T[1] = e1 /\ T[2] = e2 /\ T[3] = e3
    <2>1. \A k \in 1 .. 3 : k \in 1 .. 3 + b /\ k \in 1 .. (3 + b) + 4
      BY <1>2
    <2> QED
      BY <1>1, <1>5, <1>6, <1>7, <2>1
  <1>10. b = 1 => T[4] = eb
    <2> SUFFICES ASSUME b = 1 PROVE T[4] = eb
      OBVIOUS
    <2>1. 1 \in 1 .. b /\ 4 \in 1 .. 3 + b /\ 4 \in 1 .. (3 + b) + 4 /\ 3 + 1 = 4
      OBVIOUS
    <2>2. pq[4] = q[1]
      BY <1>5, <2>1
    <2> QED
      BY <1>2, <1>6, <1>7, <2>1, <2>2
  <1>11. T[4 + b] = e4 /\ T[5 + b] = e5 /\ T[6 + b] = e6 /\ T[7 + b] = e7
    <2>1. \A k \in 1 .. 4 : (3 + b) + k \in 1 .. (3 + b) + 4
      BY <1>2
    <2>2. \A k \in 1 .. 4 : T[(3 + b) + k] = r[k]
      BY <1>6, <1>7, <2>1
    <2>3. 4 + b = (3 + b) + 1 /\ 5 + b = (3 + b) + 2 /\ 6 + b = (3 + b) + 3 /\ 7 + b = (3 + b) + 4
      BY <1>2
    <2>4. 1 \in 1 .. 4 /\ 2 \in 1 .. 4 /\ 3 \in 1 .. 4 /\ 4 \in 1 .. 4
      OBVIOUS
    <2> QED
      BY <1>3, <2>2, <2>3, <2>4
  <1>12. h = 1 => T[8 + b] = eh
    <2> SUFFICES ASSUME h = 1 PROVE T[8 + b] = eh
      OBVIOUS
    <2>1. 1 \in 1 .. h /\ 8 + b = ((3 + b) + 4) + 1
      BY <1>2
    <2>2. T[((3 + b) + 4) + 1] = s[1]
      BY <1>7, <2>1
    <2> QED
      BY <1>4, <2>1, <2>2
  <1>13. /\ DOMAIN T = 1 .. Len(T) /\ Len(T) = 7 + b + h
         /\ T[1] = e1 /\ T[2] = e2 /\ T[3] = e3
         /\ (b = 1 => T[4] = eb)
         /\ T[4 + b] = e4 /\ T[5 + b] = e5 /\ T[6 + b] = e6 /\ T[7 + b] = e7
         /\ (h = 1 => T[8 + b] = eh)
    BY <1>8, <1>9, <1>10, <1>11, <1>12
  <1> QED
    BY <1>0, <1>13 DEF e1, e2, e3, eb, e4, e5, e6, e7, eh, b, h

\* The place of a tensor among the tensors of a.
PlaceOf(a, name) ==
  CASE name = "tok_embeddings" -> 1
    [] name = "attn_norm" -> 2
    [] name = "wq" -> 3
    [] name = "wq_bias" -> 4
    [] name = "ffn_norm" -> 4 + NBias(a)
    [] name = "w1" -> 5 + NBias(a)
    [] name = "w2" -> 6 + NBias(a)
    [] name = "final_norm" -> 7 + NBias(a)
    [] OTHER -> 8 + NBias(a)

\* What a tensor is read for says how it is named and shaped.
Shaped(t) ==
  /\ t.rows \in Nat /\ t.cols \in Nat
  /\ t.use \in {"embed", "norm", "matmul", "optional"}
  /\ t.use = "embed" => t.name = "tok_embeddings"
  /\ t.use \in {"norm", "optional"} => t.cols = 1

\* No two tensors have a name in common, and the last is a required one.
LEMMA TensorsProperties ==
  ASSUME NEW a \in Archs
  PROVE  LET T == Tensors(a)  n == Len(T) IN
         /\ n \in Nat \ {0} /\ DOMAIN T = 1 .. n
         /\ \A i \in 1 .. n : Shaped(T[i])
         /\ \A i, j \in 1 .. n : T[i].name = T[j].name => i = j
         /\ T[n].use # "optional"
         /\ T[1].name = "tok_embeddings" /\ T[1].use = "embed"
  <1> DEFINE T == Tensors(a)
             n == Len(T)
             b == NBias(a)
             h == NHead(a)
  <1>1. b \in {0, 1} /\ h \in {0, 1} /\ a.dim \in Nat /\ a.hidden \in Nat /\ a.vocab \in Nat
    BY ArchAssumption DEF NBias, NHead
  <1>2. /\ DOMAIN T = 1 .. Len(T) /\ Len(T) = 7 + b + h
        /\ T[1] = Tensor("tok_embeddings", a.vocab, a.dim, "embed")
        /\ T[2] = Tensor("attn_norm", a.dim, 1, "norm")
        /\ T[3] = Tensor("wq", a.dim, a.dim, "matmul")
        /\ b = 1 => T[4] = Tensor("wq_bias", a.dim, 1, "optional")
        /\ T[4 + b] = Tensor("ffn_norm", a.dim, 1, "norm")
        /\ T[5 + b] = Tensor("w1", a.hidden, a.dim, "matmul")
        /\ T[6 + b] = Tensor("w2", a.dim, a.hidden, "matmul")
        /\ T[7 + b] = Tensor("final_norm", a.dim, 1, "norm")
        /\ h = 1 => T[8 + b] = Tensor("lm_head", a.vocab, a.dim, "matmul")
    BY TensorsAre
  <1> HIDE DEF T
  <1>3. ASSUME NEW i \in 1 .. n
        PROVE  \/ i = 1 \/ i = 2 \/ i = 3 \/ (b = 1 /\ i = 4)
               \/ i = 4 + b \/ i = 5 + b \/ i = 6 + b \/ i = 7 + b \/ (h = 1 /\ i = 8 + b)
    BY <1>1, <1>2
  <1> HIDE DEF n, b, h
  <1>4. ASSUME NEW i \in 1 .. n
        PROVE  Shaped(T[i]) /\ PlaceOf(a, T[i].name) = i
    <2> USE DEF Shaped, PlaceOf, Tensor
    <2>1. CASE i = 1
      BY <1>1, <1>2, <2>1
    <2>2. CASE i = 2
      BY <1>1, <1>2, <2>2
    <2>3. CASE i = 3
      BY <1>1, <1>2, <2>3
    <2>4. CASE b = 1 /\ i = 4
      BY <1>1, <1>2, <2>4
    <2>5. CASE i = 4 + b
      BY <1>1, <1>2, <2>5 DEF b
    <2>6. CASE i = 5 + b
      BY <1>1, <1>2, <2>6 DEF b
    <2>7. CASE i = 6 + b
      BY <1>1, <1>2, <2>7 DEF b
    <2>8. CASE i = 7 + b
      BY <1>1, <1>2, <2>8 DEF b
    <2>9. CASE h = 1 /\ i = 8 + b
      BY <1>1, <1>2, <2>9 DEF b
    <2> QED
      BY <1>3, <2>1, <2>2, <2>3, <2>4, <2>5, <2>6, <2>7, <2>8, <2>9
  <1>5. \A i, j \in 1 .. n : T[i].name = T[j].name => i = j
    BY <1>4
  <1>6. n \in Nat \ {0} /\ DOMAIN T = 1 .. n
    BY <1>1, <1>2 DEF n
  <1>7. T[n].use # "optional"
    <2>1. CASE h = 1
      BY <1>1, <1>2, <2>1 DEF Tensor, n
    <2>2. CASE h = 0
      BY <1>1, <1>2, <2>2 DEF Tensor, n
    <2> QED
      BY <1>1, <2>1, <2>2
  <1>8. T[1].name = "tok_embeddings" /\ T[1].use = "embed"
    BY <1>2 DEF Tensor
  <1>9. \A i \in 1 .. n : Shaped(T[i])
    BY <1>4
  <1> QED
    BY <1>5, <1>6, <1>7, <1>8, <1>9 DEF T, n

-----------------------------------------------------------------------------
(* The file of a model, whoever wrote it. *)

\* The encodings a tensor may have.
Allowed(use) == CASE use = "embed" -> {"F32", "Q8_0"}
                  [] use = "matmul" -> Dtypes
                  [] OTHER -> {"F32"}

\* e describes the tensor t.
EntryOf(t, e) == /\ e.name = t.name /\ e.rows = t.rows /\ e.cols = t.cols
                 /\ e.dtype \in Allowed(t.use)
                 /\ e.nbytes = Bytes(e.dtype, e.rows, e.cols)

\* The entries are those of the tensors of a, and their data is where they say.
FileOf(a, f) ==
  LET T == Tensors(a)  n == Len(T) IN
  /\ f.tok_size \in Nat /\ f.n_tensors = n
  /\ f.table_off \in Nat /\ f.table_at = f.table_off
  /\ DOMAIN f.table = 1 .. n
  /\ f.at \in [1 .. n -> Nat]
  /\ \A i \in 1 .. n : /\ EntryOf(T[i], f.table[i])
                       /\ f.table[i].offset = f.at[i] /\ f.at[i] % 64 = 0
  /\ f.total = f.at[n] + f.table[n].nbytes

LEMMA EntryHasBytes ==
  ASSUME NEW t, Shaped(t), NEW e, EntryOf(t, e)
  PROVE  e.dtype \in Dtypes /\ e.nbytes \in Nat
  <1>1. e.dtype \in Dtypes
    BY DEF EntryOf, Allowed, Dtypes, Shaped
  <1>2. e.rows \in Nat /\ e.cols \in Nat /\ e.nbytes = Bytes(e.dtype, e.rows, e.cols)
    BY DEF EntryOf, Shaped
  <1>3. ASSUME NEW m \in Nat, NEW k \in Nat
        PROVE  /\ m * k * 4 \in Nat
               /\ m * (k \div 32) * 34 \in Nat /\ m * (k \div 32) * 18 \in Nat
    <2>1. k \div 32 \in Nat
      OBVIOUS
    <2>2. m * k \in Nat /\ m * (k \div 32) \in Nat
      BY <2>1
    <2> QED
      BY <2>2
  <1>4. Bytes(e.dtype, e.rows, e.cols) \in Nat
    <2>1. CASE e.dtype = "F32"
      BY <1>2, <1>3, <2>1 DEF Bytes
    <2>2. CASE e.dtype = "Q8_0"
      BY <1>2, <1>3, <2>2 DEF Bytes, EMBER_Q_BLOCK
    <2>3. CASE e.dtype = "Q4_0"
      BY <1>2, <1>3, <2>3 DEF Bytes, EMBER_Q_BLOCK
    <2> QED
      BY <1>1, <2>1, <2>2, <2>3 DEF Dtypes
  <1> QED
    BY <1>1, <1>2, <1>4

\* Both writers write the file of the model they were given.
LEMMA WrittenIsFileOf ==
  ASSUME NEW a \in Archs, NEW tok \in Nat, NEW out,
         DOMAIN out = 1 .. Len(Tensors(a)), Len(out) = Len(Tensors(a)),
         \A i \in 1 .. Len(Tensors(a)) : EntryOf(Tensors(a)[i], out[i])
  PROVE  /\ FileOf(a, Written(tok, out))
         /\ CutPoints(Written(tok, out)) \subseteq {k \in Int : k <= Written(tok, out).total}
  <1> DEFINE T == Tensors(a)
             n == Len(T)
             w == Written(tok, out)
  <1>1. n \in Nat \ {0} /\ \A i \in 1 .. n : Shaped(T[i])
    BY TensorsProperties
  <1> HIDE DEF T
  <1>2. \A i \in 1 .. n : EntryOf(T[i], out[i]) /\ out[i].nbytes \in Nat
    BY <1>1, EntryHasBytes DEF T
  <1>3. DOMAIN out = 1 .. n /\ Len(out) = n
    BY DEF T
  <1> HIDE DEF n
  <1>4. /\ w = [tok_off |-> HeaderSize, tok_size |-> tok, table_off |-> w.table_off,
                table_at |-> w.table_at, n_tensors |-> n, table |-> w.table, at |-> w.at,
                total |-> w.total]
        /\ w.table_off \in Nat /\ w.table_at = w.table_off
        /\ w.table = [i \in 1 .. n |->
                        [name |-> out[i].name, dtype |-> out[i].dtype, rows |-> out[i].rows,
                         cols |-> out[i].cols, nbytes |-> out[i].nbytes, offset |-> w.at[i]]]
        /\ w.at \in [1 .. n -> Nat] /\ \A i \in 1 .. n : w.at[i] % 64 = 0
        /\ w.total = w.at[n] + out[n].nbytes
        /\ CutPoints(w) \subseteq {k \in Int : k <= w.total}
    BY <1>1, <1>2, <1>3, WrittenIs
  <1> HIDE DEF w
  <1>5. \A i \in 1 .. n : EntryOf(T[i], w.table[i]) /\ w.table[i].offset = w.at[i]
    BY <1>2, <1>4 DEF EntryOf
  <1>6. w.tok_size = tok /\ w.n_tensors = n /\ DOMAIN w.table = 1 .. n
    BY <1>4
  <1>7. w.table[n].nbytes = out[n].nbytes
    <2>1. n \in 1 .. n
      BY <1>1
    <2> QED
      BY <1>4, <2>1
  <1> QED
    BY <1>4, <1>5, <1>6, <1>7 DEF FileOf, T, n, w

\* The converter stages the tensors of its model.
LEMMA StagedIs ==
  ASSUME NEW a \in Archs
  PROVE  LET T == Tensors(a) IN
         /\ DOMAIN Staged(a) = 1 .. Len(T) /\ Len(Staged(a)) = Len(T)
         /\ \A i \in 1 .. Len(T) : EntryOf(T[i], Staged(a)[i])
  <1> DEFINE T == Tensors(a)
             s == Staged(a)
             n == Len(T)
  <1>1. n \in Nat /\ DOMAIN T = 1 .. n /\ \A i \in 1 .. n : Shaped(T[i])
    BY TensorsProperties
  <1>2. s = [i \in DOMAIN T |-> [name |-> T[i].name, rows |-> T[i].rows, cols |-> T[i].cols,
                                 dtype |-> "F32", nbytes |-> Bytes("F32", T[i].rows, T[i].cols)]]
    BY DEF Staged
  <1> HIDE DEF T, n, s
  <1>3. DOMAIN s = 1 .. n /\ Len(s) = n
    <2>1. s \in [1 .. n -> {s[i] : i \in 1 .. n}]
      BY <1>1, <1>2
    <2> QED
      BY <1>1, <2>1
  <1>4. ASSUME NEW i \in 1 .. n PROVE EntryOf(T[i], s[i])
    <2>1. "F32" \in Allowed(T[i].use)
      BY <1>1 DEF Allowed, Dtypes, Shaped
    <2> QED
      BY <1>1, <1>2, <2>1 DEF EntryOf
  <1> QED
    BY <1>3, <1>4 DEF T, n, s

\* A quantized tensor has an encoding its readers know.
LEMMA OutTensorIs ==
  ASSUME NEW target \in Dtypes, NEW t, Shaped(t), NEW e, EntryOf(t, e)
  PROVE  EntryOf(t, OutTensor(target, e))
  <1> DEFINE o == OutTensor(target, e)
             wants == e.dtype = "F32" /\ e.rows > 1 /\ e.cols > 1 /\ e.cols % EMBER_Q_BLOCK = 0
  <1>1. o = [name |-> e.name, dtype |-> IF wants THEN Want(target, e) ELSE e.dtype,
             rows |-> e.rows, cols |-> e.cols,
             nbytes |-> Bytes(IF wants THEN Want(target, e) ELSE e.dtype, e.rows, e.cols)]
    BY DEF OutTensor
  <1>2. wants => t.use \in {"embed", "matmul"}
    BY DEF EntryOf, Shaped
  <1>3. t.use = "embed" => Want(target, e) \in {"F32", "Q8_0"}
    BY DEF EntryOf, Shaped, Want, Dtypes
  <1>4. Want(target, e) \in Dtypes
    BY DEF Want, Dtypes
  <1>5. wants => Want(target, e) \in Allowed(t.use)
    BY <1>2, <1>3, <1>4 DEF Allowed
  <1> HIDE DEF o, wants
  <1> QED
    BY <1>1, <1>5 DEF EntryOf, o

\* A tensor is looked up at its place.
LEMMA LookupIs ==
  ASSUME arch \in Archs, FileOf(arch, file), NEW i \in 1 .. Len(Tensors(arch))
  PROVE  Lookup(Tensors(arch)[i].name) = i
  <1> DEFINE T == Tensors(arch)
             found == {k \in DOMAIN file.table : file.table[k].name = T[i].name}
  <1>1. /\ DOMAIN file.table = 1 .. Len(T) /\ i \in Int
        /\ \A k \in 1 .. Len(T) : file.table[k].name = T[k].name
    BY DEF FileOf, EntryOf
  <1>2. \A k, l \in 1 .. Len(T) : T[k].name = T[l].name => k = l
    BY TensorsProperties
  <1>3. found = {i}
    <2> HIDE DEF T
    <2> QED
      BY <1>1, <1>2 DEF T
  <1>4. \A x \in {i} : (\A y \in {i} : x <= y) <=> x = i
    BY <1>1
  <1>5. Min({i}) = i
    BY <1>4 DEF Min
  <1>6. Lookup(T[i].name) = IF found = {} THEN 0 ELSE Min(found)
    BY DEF Lookup
  <1> HIDE DEF T, found
  <1>7. Lookup(T[i].name) = i
    BY <1>3, <1>5, <1>6
  <1> QED
    BY <1>7 DEF T

-----------------------------------------------------------------------------
(* The invariant. *)

\* The file is the one of the model; at most all of it is there, and all of it
\* once a run has begun.
FileInv ==
  /\ arch \in Archs
  /\ pc \in {"start", "file", "refused", "crashed", "died", "ready"}
  /\ pc # "start" => FileOf(arch, file) /\ size \in Int /\ size <= file.total
  /\ CutFileIsNotRun

\* What a writer leaves behind is a file of the model, or what there is of it.
LEMMA WriteStep ==
  ASSUME FileInv, NEW tok \in Nat, NEW out,
         DOMAIN out = 1 .. Len(Tensors(arch)), Len(out) = Len(Tensors(arch)),
         \A i \in 1 .. Len(Tensors(arch)) : EntryOf(Tensors(arch)[i], out[i]),
         file' = Written(tok, out), size' \in CutPoints(file'), pc' = "file", UNCHANGED arch
  PROVE  FileInv'
  <1>1. arch \in Archs
    BY DEF FileInv
  <1>2. FileOf(arch, file') /\ CutPoints(file') \subseteq {k \in Int : k <= file'.total}
    BY <1>1, WrittenIsFileOf
  <1>3. size' \in Int /\ size' <= file'.total
    BY <1>2
  <1> QED
    BY <1>1, <1>2, <1>3 DEF FileInv, CutFileIsNotRun

\* What quantize_tensor makes of a file's tensors.
LEMMA QuantizedIs ==
  ASSUME FileInv, pc = "file", NEW target \in Dtypes
  PROVE  LET T == Tensors(arch)
             out == [i \in DOMAIN file.table |-> OutTensor(target, file.table[i])]
         IN /\ DOMAIN out = 1 .. Len(T) /\ Len(out) = Len(T)
            /\ \A i \in 1 .. Len(T) : EntryOf(T[i], out[i])
  <1> DEFINE T == Tensors(arch)
             n == Len(T)
             out == [i \in DOMAIN file.table |-> OutTensor(target, file.table[i])]
  <1>1. n \in Nat /\ \A i \in 1 .. n : Shaped(T[i])
    BY TensorsProperties DEF FileInv
  <1>2. DOMAIN file.table = 1 .. n /\ \A i \in 1 .. n : EntryOf(T[i], file.table[i])
    BY DEF FileInv, FileOf
  <1> HIDE DEF T, n
  <1>3. ASSUME NEW i \in 1 .. n PROVE EntryOf(T[i], out[i])
    BY <1>1, <1>2, OutTensorIs
  <1>4. DOMAIN out = 1 .. n /\ Len(out) = n
    <2>1. out = [i \in 1 .. n |-> out[i]]
      BY <1>2
    <2> HIDE DEF out
    <2>2. out \in [1 .. n -> {out[i] : i \in 1 .. n}]
      BY <2>1
    <2> QED
      BY <1>1, <2>2
  <1> QED
    BY <1>3, <1>4 DEF T, n

\* A run begins with all of the file: its last tensor is one the run requires, and
\* nothing is behind the last tensor's data.
LEMMA ReadyIsWhole ==
  ASSUME FileInv, pc = "file", \A name \in Required : Resolves(name)
  PROVE  size = file.total
  <1> DEFINE T == Tensors(arch)
             n == Len(T)
  <1>1. arch \in Archs /\ FileOf(arch, file) /\ size \in Int /\ size <= file.total
    BY DEF FileInv
  <1>2. n \in Nat \ {0} /\ DOMAIN T = 1 .. n /\ T[n].use # "optional"
        /\ \A i \in 1 .. n : Shaped(T[i])
    BY <1>1, TensorsProperties
  <1>3. n \in 1 .. n
    BY <1>2
  <1>4. T[n].name \in Required
    BY <1>2, <1>3 DEF Required, TensorSet
  <1>5. Lookup(T[n].name) = n
    BY <1>1, <1>3, LookupIs
  <1>6. HasData(file.table[n])
    BY <1>4, <1>5 DEF Resolves
  <1>7. /\ EntryOf(T[n], file.table[n]) /\ file.table[n].offset = file.at[n]
        /\ file.at[n] \in Nat /\ file.total = file.at[n] + file.table[n].nbytes
    BY <1>1, <1>3 DEF FileOf
  <1>8. file.table[n].nbytes \in Nat
    BY <1>2, <1>3, <1>7, EntryHasBytes
  <1> HIDE DEF T, n
  <1> QED
    BY <1>1, <1>6, <1>7, <1>8 DEF HasData

\* Converting, quantizing, also in place, and opening keep the file what it is.
LEMMA FileInvariant == Spec => []FileInv
  <1>1. Init => FileInv
    BY DEF Init, FileInv, CutFileIsNotRun
  <1>2. FileInv /\ [Next]_vars => FileInv'
    <2> SUFFICES ASSUME FileInv, [Next]_vars PROVE FileInv'
      OBVIOUS
    <2>1. ASSUME NEW tok \in TokSizes, Convert(tok) PROVE FileInv'
      <3>1. tok \in Nat /\ arch \in Archs
        BY ArchAssumption DEF FileInv
      <3> QED
        BY <2>1, <3>1, StagedIs, WriteStep DEF Convert
    <2>2. ASSUME NEW target \in Dtypes, Quantize(target) PROVE FileInv'
      <3>1. CASE UNCHANGED <<file, size>> /\ pc' \in {"refused", "crashed"}
        BY <2>2, <3>1 DEF Quantize, FileInv, CutFileIsNotRun
      <3>2. CASE ~(UNCHANGED <<file, size>> /\ pc' \in {"refused", "crashed"})
        <4> DEFINE out == [i \in DOMAIN file.table |-> OutTensor(target, file.table[i])]
        <4>1. /\ pc = "file" /\ file' = Written(file.tok_size, out) /\ size' \in CutPoints(file')
              /\ pc' = "file" /\ UNCHANGED arch
          BY <2>2, <3>2 DEF Quantize
        <4>2. file.tok_size \in Nat
          BY <4>1 DEF FileInv, FileOf
        <4>3. /\ DOMAIN out = 1 .. Len(Tensors(arch)) /\ Len(out) = Len(Tensors(arch))
              /\ \A i \in 1 .. Len(Tensors(arch)) : EntryOf(Tensors(arch)[i], out[i])
          BY <4>1, QuantizedIs
        <4> HIDE DEF out
        <4> QED
          BY <4>1, <4>2, <4>3, WriteStep
      <3> QED
        BY <3>1, <3>2
    <2>3. CASE QuantizeInPlace
      <3>1. FileOf(arch, file) /\ pc = "file"
        BY <2>3 DEF QuantizeInPlace, FileInv
      <3>2. 0 <= file.total
        <4> DEFINE T == Tensors(arch)
                   n == Len(T)
        <4>1. n \in Nat \ {0} /\ \A i \in 1 .. n : Shaped(T[i])
          BY TensorsProperties DEF FileInv
        <4>2. n \in 1 .. n
          BY <4>1
        <4>3. /\ EntryOf(T[n], file.table[n]) /\ file.at[n] \in Nat
              /\ file.total = file.at[n] + file.table[n].nbytes
          BY <3>1, <4>2 DEF FileOf
        <4>4. file.table[n].nbytes \in Nat
          BY <4>1, <4>2, <4>3, EntryHasBytes
        <4> HIDE DEF T, n
        <4> QED
          BY <4>3, <4>4
      <3> QED
        BY <2>3, <3>1, <3>2 DEF QuantizeInPlace, FileInv, CutFileIsNotRun
    <2>4. CASE Open
      <3>1. pc = "file" /\ UNCHANGED <<arch, file, size>> /\ pc' \in {"refused", "ready", "died"}
        BY <2>4 DEF Open
      <3>2. pc' = "ready" => \A name \in Required : Resolves(name)
        BY <2>4 DEF Open
      <3>3. pc' = "ready" => size = file.total
        BY <3>1, <3>2, ReadyIsWhole
      <3> QED
        BY <3>1, <3>3 DEF FileInv, CutFileIsNotRun
    <2>5. CASE UNCHANGED vars
      BY <2>5 DEF vars, FileInv, CutFileIsNotRun
    <2> QED
      BY <2>1, <2>2, <2>3, <2>4, <2>5 DEF Next, Ended
  <1> QED
    BY <1>1, <1>2, PTL DEF Spec

\* A file of which the writer, or the download, left out a byte is not run,
\* whichever byte it is and however often the file was quantized
\* (ember_model_load of src/io.c and ember_state_new_ex of src/model.c).
THEOREM CutFilesAreNotRun == Spec => []CutFileIsNotRun
  <1>1. FileInv => CutFileIsNotRun
    BY DEF FileInv
  <1> QED
    BY <1>1, FileInvariant, PTL

\* Reads of the forward pass find the tensor that was written for them, at an
\* aligned place, in an encoding the reader takes it for: the offsets of the two
\* writers, the padding between the data and the lookup by name agree for every
\* architecture (write_ember of tools/convert.py, ember_quantize_file of
\* src/quant.c, ember_model_tensor of src/io.c).
THEOREM ReadsFindTensors == Spec => []ReadsFindTheirTensor
  <1>1. FileInv => ReadsFindTheirTensor
    <2> SUFFICES ASSUME FileInv, pc = "ready" PROVE ReadsFindTheirTensor
      BY DEF ReadsFindTheirTensor
    <2> DEFINE T == Tensors(arch)
               n == Len(T)
    <2>1. arch \in Archs /\ FileOf(arch, file)
      BY DEF FileInv
    <2>2. /\ n \in Nat \ {0} /\ DOMAIN T = 1 .. n /\ \A i \in 1 .. n : Shaped(T[i])
          /\ T[1].name = "tok_embeddings" /\ T[1].use = "embed"
      BY <2>1, TensorsProperties
    <2>3. 1 \in 1 .. n
      BY <2>2
    <2>4. \A i \in 1 .. n : Lookup(T[i].name) = i
      BY <2>1, LookupIs
    <2>5. \A i \in 1 .. n : /\ EntryOf(T[i], file.table[i])
                            /\ file.table[i].offset = file.at[i] /\ file.at[i] % 64 = 0
      BY <2>1 DEF FileOf
    <2>6. file.table_at = file.table_off
      BY <2>1 DEF FileOf
    <2>7. TensorSet = {T[i] : i \in 1 .. n}
      BY <2>2 DEF TensorSet
    <2> HIDE DEF T, n
    <2>8. ASSUME NEW i \in 1 .. n
          PROVE  LET e == file.table[i] IN
                 /\ ReadAs(T[i].use, e.dtype) = e.dtype
                 /\ Bytes(e.dtype, T[i].rows, T[i].cols) = e.nbytes
      <3>1. Shaped(T[i]) /\ EntryOf(T[i], file.table[i])
        BY <2>2, <2>5
      <3> QED
        BY <3>1 DEF Shaped, EntryOf, Allowed, Dtypes, ReadAs
    <2>9. ASSUME NEW t \in TensorSet
          PROVE  LET k == Lookup(t.name)  e == file.table[k] IN
                 /\ file.at[k] = e.offset /\ e.offset % 64 = 0
                 /\ ReadAs(t.use, e.dtype) = e.dtype
                 /\ Bytes(e.dtype, t.rows, t.cols) = e.nbytes
      <3>1. PICK i \in 1 .. n : t = T[i]
        BY <2>7
      <3>2. Lookup(t.name) = i
        BY <2>4, <3>1
      <3> QED
        BY <2>5, <2>8, <3>1, <3>2
    <2>10. LET e == file.table[Lookup("tok_embeddings")] IN ReadAs("matmul", e.dtype) = e.dtype
      <3>1. Lookup("tok_embeddings") = 1
        BY <2>2, <2>3, <2>4
      <3>2. file.table[1].dtype \in {"F32", "Q8_0"}
        BY <2>2, <2>3, <2>5 DEF EntryOf, Allowed
      <3> QED
        BY <3>1, <3>2 DEF ReadAs
    <2> QED
      BY <2>6, <2>9, <2>10 DEF ReadsFindTheirTensor
  <1> QED
    BY <1>1, FileInvariant, PTL

-----------------------------------------------------------------------------
(* Blocks of quantized weights. *)

LEMMA QuotientIs ==
  ASSUME NEW n \in Nat, NEW d \in Nat \ {0}
  PROVE  n \div d \in Nat /\ (n \div d) * d <= n /\ n < (n \div d) * d + d
  OBVIOUS

LEMMA MagIs ==
  ASSUME NEW n \in Int
  PROVE  /\ Mag(n) \in Nat /\ (n >= 0 => Mag(n) = n) /\ (n < 0 => Mag(n) = -n)
         /\ (Mag(n) = 0 <=> n = 0)
  BY DEF Mag

\* The scans leave a weight that no other exceeds.
LEMMA VmaxIs ==
  ASSUME NEW x \in Block
  PROVE  Vmax(x) \in Int /\ \A j \in Index : x[j] \in Int /\ Mag(x[j]) <= Mag(Vmax(x))
  <1> DEFINE First(i, n) == \A j \in 0 .. n : Mag(x[j]) < Mag(x[i]) \/ (Mag(x[j]) = Mag(x[i]) /\ i <= j)
             T == {n \in Index : \E i \in 0 .. n : First(i, n)}
  <1>0. QBlock - 1 \in Nat /\ QBlock \in Nat /\ Index = 0 .. QBlock - 1 /\ 0 \in Index
    BY BlockAssumption DEF Index
  <1>1. \A j \in Index : x[j] \in Int /\ Mag(x[j]) \in Nat
    <2> SUFFICES ASSUME NEW j \in Index PROVE x[j] \in Int /\ Mag(x[j]) \in Nat
      OBVIOUS
    <2>1. x[j] \in Weights
      BY DEF Block
    <2>2. x[j] \in Int
      BY <2>1, BlockAssumption
    <2> QED
      BY <2>2, MagIs
  <1>2. 0 \in T
    <2>1. First(0, 0)
      OBVIOUS
    <2>2. 0 \in 0 .. 0
      OBVIOUS
    <2> HIDE DEF First
    <2> QED
      BY <1>0, <2>1, <2>2
  <1>3. ASSUME NEW n \in 0 .. (QBlock - 1) - 1, n \in T PROVE n + 1 \in T
    <2>1. n + 1 \in Index /\ n \in Nat
      BY <1>0
    <2>2. PICK i \in 0 .. n : First(i, n)
      BY <1>3
    <2>3. i \in Index /\ i \in Nat /\ \A j \in 0 .. n + 1 : j \in Index /\ (j \in 0 .. n \/ j = n + 1)
      BY <1>0
    <2>4. CASE Mag(x[n + 1]) > Mag(x[i])
      <3>1. First(n + 1, n + 1)
        <4> SUFFICES ASSUME NEW j \in 0 .. n + 1
                     PROVE  Mag(x[j]) < Mag(x[n + 1]) \/ (Mag(x[j]) = Mag(x[n + 1]) /\ n + 1 <= j)
          OBVIOUS
        <4>1. CASE j = n + 1
          BY <2>1, <4>1
        <4>2. CASE j \in 0 .. n
          <5>1. Mag(x[j]) <= Mag(x[i])
            BY <1>1, <2>2, <2>3, <4>2
          <5> QED
            BY <1>1, <2>1, <2>3, <2>4, <5>1
        <4> QED
          BY <2>3, <4>1, <4>2
      <3>2. n + 1 \in 0 .. n + 1
        BY <2>1
      <3> HIDE DEF First
      <3> QED
        BY <2>1, <3>1, <3>2
    <2>5. CASE ~(Mag(x[n + 1]) > Mag(x[i]))
      <3>1. First(i, n + 1)
        <4> SUFFICES ASSUME NEW j \in 0 .. n + 1
                     PROVE  Mag(x[j]) < Mag(x[i]) \/ (Mag(x[j]) = Mag(x[i]) /\ i <= j)
          OBVIOUS
        <4>1. CASE j = n + 1
          <5>1. Mag(x[j]) <= Mag(x[i]) /\ i <= j
            BY <1>1, <2>1, <2>3, <2>5, <4>1
          <5> QED
            BY <1>1, <2>3, <5>1
        <4>2. CASE j \in 0 .. n
          BY <2>2, <4>2
        <4> QED
          BY <2>3, <4>1, <4>2
      <3>2. i \in 0 .. n + 1
        BY <2>1
      <3> HIDE DEF First
      <3> QED
        BY <2>1, <3>1, <3>2
    <2> QED
      BY <1>1, <2>1, <2>3, <2>4, <2>5
  <1>4. T = 0 .. QBlock - 1
    <2>1. T \in SUBSET (0 .. QBlock - 1)
      BY <1>0
    <2> HIDE DEF T
    <2> QED
      BY <1>0, <1>2, <1>3, <2>1, BoundedInduction
  <1>5. QBlock - 1 \in T
    <2> HIDE DEF T
    <2> QED
      BY <1>0, <1>4
  <1>6. \E i \in Index : First(i, QBlock - 1)
    <2> HIDE DEF First
    <2> QED
      BY <1>0, <1>5
  <1> DEFINE Largest(i) == \A j \in Index : Mag(x[j]) < Mag(x[i]) \/ (Mag(x[j]) = Mag(x[i]) /\ i <= j)
             k == CHOOSE i \in Index : Largest(i)
  <1>7. \E i \in Index : Largest(i)
    BY <1>0, <1>6
  <1>8. k \in Index /\ Largest(k)
    <2> HIDE DEF Largest
    <2> QED
      BY <1>7
  <1>9. Vmax(x) = x[k]
    BY DEF Vmax
  <1> HIDE DEF k
  <1>10. ASSUME NEW j \in Index PROVE Mag(x[j]) <= Mag(x[k])
    BY <1>1, <1>8
  <1> QED
    BY <1>1, <1>8, <1>9, <1>10

\* A weight of Q8_0 is at most half a step off.
LEMMA Q8Close ==
  ASSUME NEW w \in Int, NEW a \in Nat \ {0}, Mag(w) <= a
  PROVE  LET q == Clamp(Round(127 * w, a), -127, 127) IN
         q \in Int /\ 2 * Mag(127 * w - q * a) <= a
  <1> DEFINE m == Mag(w)
             r == (2 * Mag(127 * w) + a) \div (2 * a)
             e == r * a
  <1>1. m \in Nat /\ (w >= 0 => m = w) /\ (w < 0 => m = -w)
    BY MagIs
  <1>2. Mag(127 * w) = 127 * m
    BY DEF Mag
  <1> HIDE DEF m
  <1>3. r = (254 * m + a) \div (2 * a)
    BY <1>1, <1>2
  <1>4. 254 * m + a \in Nat /\ 2 * a \in Nat \ {0}
    BY <1>1
  <1>5. r \in Nat /\ r * (2 * a) <= 254 * m + a /\ 254 * m + a < r * (2 * a) + 2 * a
    BY <1>3, <1>4, QuotientIs
  <1> HIDE DEF r
  <1>6. r * (2 * a) = 2 * e /\ e \in Nat
    BY <1>5
  <1>7. m <= a
    BY DEF m
  <1>8. r <= 127
    <2> SUFFICES ASSUME r >= 128 PROVE FALSE
      BY <1>5
    <2>1. r * a >= 128 * a
      BY <1>5
    <2> QED
      BY <1>1, <1>5, <1>6, <1>7, <2>1
  <1> HIDE DEF e
  <1>9. 254 * m <= 2 * e + a /\ 2 * e <= 254 * m + a
    BY <1>1, <1>5, <1>6
  <1>10. CASE w >= 0
    <2>1. Round(127 * w, a) = r
      BY <1>10 DEF Round, r
    <2>2. Clamp(Round(127 * w, a), -127, 127) = r
      BY <1>5, <1>8, <2>1 DEF Clamp
    <2>3. 127 * w - r * a = 127 * m - e
      BY <1>1, <1>10 DEF e
    <2>4. 2 * Mag(127 * m - e) <= a
      BY <1>1, <1>6, <1>9 DEF Mag
    <2> QED
      BY <1>5, <2>2, <2>3, <2>4
  <1>11. CASE w < 0
    <2>1. Round(127 * w, a) = -r
      BY <1>11 DEF Round, r
    <2>2. Clamp(Round(127 * w, a), -127, 127) = -r
      BY <1>5, <1>8, <2>1 DEF Clamp
    <2>3. 127 * w - (-r) * a = e - 127 * m
      BY <1>1, <1>5, <1>11 DEF e
    <2>4. 2 * Mag(e - 127 * m) <= a
      BY <1>1, <1>6, <1>9 DEF Mag
    <2> QED
      BY <1>5, <2>2, <2>3, <2>4
  <1> QED
    BY <1>10, <1>11

\* A weight of Q4_0 is at most a step off, and half of one but for those that are
\* clamped.
LEMMA Q4Close ==
  ASSUME NEW w \in Int, NEW v \in Int, Mag(w) <= Mag(v)
  PROVE  LET q == Nibble(w, v) - 8 IN
         /\ q \in Int /\ Mag(8 * w + q * v) <= Mag(v)
         /\ w * v >= 0 \/ 16 * Mag(w) <= 15 * Mag(v) => 2 * Mag(8 * w + q * v) <= Mag(v)
  <1>1. CASE v = 0
    <2>1. Nibble(w, v) - 8 = 0
      BY <1>1 DEF Nibble
    <2>2. w = 0
      BY <1>1, MagIs
    <2>3. 8 * w + 0 * v = 0 /\ Mag(0) = 0 /\ Mag(v) = 0
      BY <1>1, <2>2 DEF Mag
    <2> QED
      BY <2>1, <2>3
  <1>2. CASE v # 0
    <2> DEFINE a == Mag(v)
               s == IF v < 0 THEN -1 ELSE 1
               u == w * s
               t == (17 * a - 16 * w * s) \div (2 * a)
               n == Nibble(w, v)
               e == t * a
               f == 8 * u + (n - 8) * a
    <2>1. a \in Nat \ {0} /\ v = s * a /\ s \in {1, -1}
      BY <1>2, MagIs
    <2>2. u \in Int /\ (u = w \/ u = -w) /\ Mag(u) = Mag(w)
      BY DEF Mag
    <2>3. -a <= u /\ u <= a
      <3>1. Mag(u) <= a
        BY <2>2
      <3> QED
        BY <2>1, <2>2, <3>1 DEF Mag
    <2>4. n = Clamp(t, 0, 15)
      BY <1>2 DEF Nibble
    <2>5. 16 * w * s = 16 * u
      OBVIOUS
    <2> HIDE DEF a, s, n
    <2>6. 17 * a - 16 * u \in Nat /\ 2 * a \in Nat \ {0} /\ t = (17 * a - 16 * u) \div (2 * a)
      <3> HIDE DEF u
      <3> QED
        BY <2>1, <2>2, <2>3, <2>5
    <2> HIDE DEF u
    <2>7. t \in Nat /\ t * (2 * a) <= 17 * a - 16 * u /\ 17 * a - 16 * u < t * (2 * a) + 2 * a
      BY <2>6, QuotientIs
    <2> HIDE DEF t
    <2>8. t * (2 * a) = 2 * e /\ e \in Nat
      BY <2>1, <2>7
    <2>9. t <= 16
      <3> SUFFICES ASSUME t >= 17 PROVE FALSE
        BY <2>7
      <3>1. t * a >= 17 * a
        BY <2>1, <2>7
      <3> QED
        BY <2>1, <2>2, <2>3, <2>7, <2>8, <3>1
    <2>10. n \in Int /\ n = IF t = 16 THEN 15 ELSE t
      BY <2>4, <2>7, <2>9 DEF Clamp
    <2>11. Mag(8 * w + (n - 8) * v) = Mag(f) /\ f \in Int
      <3>1. f \in Int
        BY <2>1, <2>2, <2>10
      <3>2. CASE s = 1
        <4>1. u = w /\ v = a
          BY <2>1, <3>2 DEF u
        <4> QED
          BY <3>1, <4>1
      <3>3. CASE s = -1
        <4>1. w = -u /\ v = -a
          BY <2>1, <3>3 DEF u
        <4>2. 8 * w + (n - 8) * v = -f
          BY <2>1, <2>2, <2>10, <4>1
        <4>3. Mag(-f) = Mag(f)
          BY <3>1 DEF Mag
        <4> QED
          BY <3>1, <4>2, <4>3
      <3> QED
        BY <2>1, <3>2, <3>3
    <2>12. CASE t # 16
      <3>1. f = 8 * u + e - 8 * a
        BY <2>1, <2>2, <2>7, <2>10, <2>12
      <3> HIDE DEF e
      <3>2. 2 * Mag(8 * u + e - 8 * a) <= a
        BY <2>1, <2>2, <2>7, <2>8 DEF Mag
      <3>3. Mag(f) \in Nat /\ 2 * Mag(f) <= a
        BY <2>11, <3>1, <3>2, MagIs
      <3>4. Mag(f) <= a
        BY <2>1, <3>3
      <3> QED
        BY <2>10, <2>11, <3>3, <3>4 DEF a, n
    <2>13. CASE t = 16
      <3>1. f = 8 * u + 7 * a
        BY <2>1, <2>2, <2>10, <2>13
      <3>2. e = 16 * a
        BY <2>1, <2>13
      <3> HIDE DEF e, f
      <3>3. 16 * u <= -(15 * a)
        BY <2>1, <2>2, <2>7, <2>8, <3>2
      <3>4. Mag(f) <= a
        BY <2>1, <2>2, <2>3, <3>1, <3>3 DEF Mag
      <3>5. ~(w * v >= 0)
        <4>1. u < 0
          BY <2>1, <2>2, <3>3
        <4>2. w * v = u * a
          BY <2>1 DEF u
        <4>3. u * a < 0
          BY <2>1, <2>2, <4>1
        <4> QED
          BY <4>2, <4>3
      <3>6. 16 * Mag(w) <= 15 * a => 2 * Mag(f) <= a
        <4> SUFFICES ASSUME 16 * Mag(w) <= 15 * a PROVE 2 * Mag(f) <= a
          OBVIOUS
        <4>1. 16 * u >= -(15 * a)
          BY <2>1, <2>2 DEF Mag
        <4>2. 2 * f = -a
          BY <2>1, <2>2, <3>1, <3>3, <4>1
        <4> QED
          BY <2>1, <2>11, <4>2 DEF Mag
      <3> QED
        BY <2>10, <2>11, <3>4, <3>5, <3>6 DEF a, n
    <2> QED
      BY <2>12, <2>13
  <1> QED
    BY <1>1, <1>2

\* What ember_quantize_q8_0 and ember_quantize_q4_0 make of a block of any
\* weights, the dot products read back as near as the format allows
\* (kernels.c:72-115, 153-186).
LEMMA BlocksComeBack == \A x \in Block : BlocksAreClose(x)
  <1> SUFFICES ASSUME NEW x \in Block, NEW i \in Index
               PROVE  LET v == Vmax(x)  q8 == QuantizeQ8(x)  q4 == QuantizeQ4(x) IN
                      /\ 2 * Mag(127 * x[i] - ReadQ8(q8, i) * Mag(v)) <= Mag(v)
                      /\ Mag(8 * x[i] + ReadQ4(q4, i) * v) <= Mag(v)
                      /\ x[i] * v >= 0 \/ 16 * Mag(x[i]) <= 15 * Mag(v) =>
                            2 * Mag(8 * x[i] + ReadQ4(q4, i) * v) <= Mag(v)
    BY DEF BlocksAreClose
  <1> DEFINE v == Vmax(x)
             a == Mag(v)
             w == x[i]
  <1>1. v \in Int /\ w \in Int /\ Mag(w) <= a
    BY VmaxIs
  <1>2. a \in Nat /\ (a = 0 => Mag(w) = 0)
    <2>1. Mag(w) \in Nat /\ a \in Nat
      BY <1>1, MagIs
    <2> QED
      BY <1>1, <2>1
  <1>3. 2 * Mag(127 * w - ReadQ8(QuantizeQ8(x), i) * a) <= a
    <2>1. ReadQ8(QuantizeQ8(x), i) = IF a = 0 THEN 0 ELSE Clamp(Round(127 * w, a), -127, 127)
      BY DEF ReadQ8, QuantizeQ8
    <2> HIDE DEF a, w
    <2>2. CASE a = 0
      <3>1. w = 0
        BY <1>1, <1>2, <2>2, MagIs
      <3>2. 127 * w - 0 * a = 0 /\ Mag(0) = 0
        BY <2>2, <3>1 DEF Mag
      <3> QED
        BY <2>1, <2>2, <3>2
    <2>3. CASE a # 0
      <3>1. a \in Nat \ {0}
        BY <1>2, <2>3
      <3> QED
        BY <1>1, <2>1, <2>3, <3>1, Q8Close
    <2> QED
      BY <2>2, <2>3
  <1>4. ReadQ4(QuantizeQ4(x), i) = Nibble(w, v) - 8
    <2>1. Half \in Nat /\ Half + Half = QBlock /\ QBlock \in Nat
      BY BlockAssumption DEF Half
    <2>2. CASE i < Half
      <3>1. i \in 0 .. Half - 1
        BY <2>1, <2>2 DEF Index
      <3>2. QuantizeQ4(x)[i] = [low |-> Nibble(x[i], v), high |-> Nibble(x[i + Half], v)]
        BY <3>1 DEF QuantizeQ4
      <3> QED
        BY <2>2, <3>2 DEF ReadQ4
    <2>3. CASE ~(i < Half)
      <3>1. i - Half \in 0 .. Half - 1 /\ (i - Half) + Half = i
        BY <2>1, <2>3 DEF Index
      <3>2. QuantizeQ4(x)[i - Half] = [low |-> Nibble(x[i - Half], v), high |-> Nibble(x[(i - Half) + Half], v)]
        BY <3>1 DEF QuantizeQ4
      <3> QED
        BY <2>3, <3>1, <3>2 DEF ReadQ4
    <2> QED
      BY <2>2, <2>3
  <1>5. /\ Mag(8 * w + (Nibble(w, v) - 8) * v) <= a
        /\ w * v >= 0 \/ 16 * Mag(w) <= 15 * a => 2 * Mag(8 * w + (Nibble(w, v) - 8) * v) <= a
    <2> HIDE DEF w, v
    <2> QED
      BY <1>1, Q4Close
  <1> QED
    BY <1>3, <1>4, <1>5

-----------------------------------------------------------------------------
(* Scales in half precision.  SMT is cited by name where the numbers are   *)
(* those of a float: Zenon counts in units.                                *)

Off(n) == IF n < 0 THEN -n ELSE n

\* A quotient is rounded to the nearest, and to the even one of two.
LEMMA RoundHalfIs ==
  ASSUME NEW n \in Nat, NEW unit \in Nat \ {0}
  PROVE  LET h == RoundHalf(n, unit) IN
         /\ h \in Nat /\ 2 * Off(h * unit - n) <= unit
         /\ \A k \in {h - 1, h + 1} :
               Off(h * unit - n) < Off(k * unit - n) \/ (Off(h * unit - n) = Off(k * unit - n) /\ h % 2 = 0)
         /\ h \in {n \div unit, n \div unit + 1}
         /\ (n % unit = 0 => h = n \div unit)
  <1> DEFINE q == n \div unit
             r == n % unit
             e == q * unit
             up == 2 * r > unit \/ (2 * r = unit /\ q % 2 = 1)
             h == RoundHalf(n, unit)
  <1>1. q \in Nat /\ e \in Nat /\ r \in Nat /\ r < unit /\ n = e + r
    OBVIOUS
  <1>2. h = q + (IF up THEN 1 ELSE 0)
    BY DEF RoundHalf
  <1>3. (q + 1) * unit = e + unit /\ (q - 1) * unit = e - unit /\ ((q + 1) + 1) * unit = e + 2 * unit
        /\ ((q + 1) - 1) * unit = e
    BY <1>1
  <1>4. q % 2 = 0 \/ (q % 2 = 1 /\ (q + 1) % 2 = 0)
    BY <1>1
  <1> HIDE DEF q, r, h
  <1>5. CASE up
    <2>1. h = q + 1 /\ h * unit = e + unit /\ (h - 1) * unit = e /\ (h + 1) * unit = e + 2 * unit
      BY <1>2, <1>3, <1>5
    <2>2. h * unit - n = unit - r /\ (h - 1) * unit - n = -r /\ (h + 1) * unit - n = 2 * unit - r
      BY <1>1, <2>1
    <2> HIDE DEF e
    <2>3. Off(h * unit - n) = unit - r /\ Off((h - 1) * unit - n) = r /\ Off((h + 1) * unit - n) = 2 * unit - r
      BY <1>1, <2>2 DEF Off
    <2>4. 2 * (unit - r) <= unit /\ unit - r < 2 * unit - r /\ (unit - r < r \/ (unit - r = r /\ h % 2 = 0))
      BY <1>1, <1>4, <1>5, <2>1
    <2>5. h \in Nat /\ r # 0
      BY <1>1, <1>5, <2>1
    <2> QED
      BY <2>1, <2>3, <2>4, <2>5 DEF h, q, r
  <1>6. CASE ~up
    <2>1. h = q /\ h * unit = e /\ (h - 1) * unit = e - unit /\ (h + 1) * unit = e + unit
      BY <1>1, <1>2, <1>3, <1>6
    <2>2. h * unit - n = -r /\ (h - 1) * unit - n = -(unit + r) /\ (h + 1) * unit - n = unit - r
      BY <1>1, <2>1
    <2> HIDE DEF e
    <2>3. Off(h * unit - n) = r /\ Off((h - 1) * unit - n) = unit + r /\ Off((h + 1) * unit - n) = unit - r
      BY <1>1, <2>2 DEF Off
    <2>4. 2 * r <= unit /\ r < unit + r /\ (r < unit - r \/ (r = unit - r /\ h % 2 = 0))
      BY <1>1, <1>4, <1>6, <2>1
    <2> QED
      BY <1>1, <2>1, <2>3, <2>4 DEF h, q
  <1> QED
    BY <1>5, <1>6

LEMMA RoundExact ==
  ASSUME NEW m \in Nat, NEW unit \in Nat \ {0}
  PROVE  RoundHalf(m * unit, unit) = m
  <1>1. m * unit \in Nat /\ (m * unit) % unit = 0 /\ (m * unit) \div unit = m
    OBVIOUS
  <1> QED
    BY <1>1, RoundHalfIs

\* An element of a block of 1024 halves.
LEMMA BinadeIs ==
  ASSUME NEW e \in Nat, NEW d \in 0 .. 1023, NEW k, k = e * 1024 + d
  PROVE  k \div 1024 = e /\ k % 1024 = d
  <1>1. k \in Nat
    OBVIOUS
  <1> QED
    BY <1>1

\* The powers of two, as a function of the exponent.
Pow(x) == 2^x

LEMMA PowerIs ==
  ASSUME NEW j, NEW k, j = k
  PROVE  2^j = Pow(k)
  BY Zenon DEF Pow

LEMMA ValueIs ==
  ASSUME NEW k, NEW exp
  PROVE  ValueAt(k, exp) = IF k \div 1024 = 0 THEN k * (2^(126 - exp))
                           ELSE (1024 + (k % 1024)) * (2^((k \div 1024) + 125 - exp))
  BY Zenon DEF ValueAt
LEMMA NormalValue ==
  ASSUME NEW k \in Nat, NEW exp \in Nat, NEW b \in Nat, NEW d \in Nat, NEW x \in Nat,
         k \div 1024 = b, b # 0, k % 1024 = d, b + 125 - exp = x
  PROVE  ValueAt(k, exp) = (1024 + d) * Pow(x)
  <1> DEFINE y == k * (2^(126 - exp))
             u == 2^((k \div 1024) + 125 - exp)
             t == k % 1024
             z == (1024 + t) * u
             q == k \div 1024
  <1>1. ValueAt(k, exp) = IF q = 0 THEN y ELSE z
    BY ValueIs
  <1>2. u = Pow(x)
    <2> DEFINE w == (k \div 1024) + 125 - exp
    <2>1. w = x
      OBVIOUS
    <2> HIDE DEF w
    <2>2. 2^w = Pow(x)
      BY <2>1, PowerIs
    <2> QED
      BY <2>2 DEF w
  <1>4. t = d /\ q # 0
    OBVIOUS
  <1> HIDE DEF u, y, t, q
  <1>3. z = (1024 + d) * Pow(x)
    BY <1>2, <1>4
  <1> HIDE DEF z
  <1> QED
    BY <1>1, <1>3, <1>4

LEMMA SubnormalValue ==
  ASSUME NEW k \in Nat, NEW exp \in Nat, NEW x \in Nat, k \div 1024 = 0, 126 - exp = x
  PROVE  ValueAt(k, exp) = k * Pow(x)
  <1> DEFINE y == 2^(126 - exp)
             z == (1024 + (k % 1024)) * (2^((k \div 1024) + 125 - exp))
             q == k \div 1024
  <1>1. ValueAt(k, exp) = IF q = 0 THEN k * y ELSE z
    BY ValueIs
  <1>2. y = Pow(x)
    BY PowerIs
  <1>3. q = 0
    OBVIOUS
  <1> HIDE DEF y, z, q
  <1> QED
    BY <1>1, <1>2, <1>3

LEMMA PowersAre ==
  /\ Pow(12) = 4096 /\ Pow(13) = 8192 /\ Pow(14) = 16384 /\ Pow(25) = 33554432 /\ Pow(26) = 67108864
  /\ \A k \in 14 .. 24 : Pow(k) \in Nat \ {0} /\ Pow(k) >= 16384
  <1>12. Pow(12) = 4096
    BY SMT DEF Pow
  <1>13. Pow(13) = 8192
    BY SMT DEF Pow
  <1>14. Pow(14) = 16384
    BY SMT DEF Pow
  <1>15. Pow(15) = 32768
    BY SMT DEF Pow
  <1>16. Pow(16) = 65536
    BY SMT DEF Pow
  <1>17. Pow(17) = 131072
    BY SMT DEF Pow
  <1>18. Pow(18) = 262144
    BY SMT DEF Pow
  <1>19. Pow(19) = 524288
    BY SMT DEF Pow
  <1>20. Pow(20) = 1048576
    BY SMT DEF Pow
  <1>21. Pow(21) = 2097152
    BY SMT DEF Pow
  <1>22. Pow(22) = 4194304
    BY SMT DEF Pow
  <1>23. Pow(23) = 8388608
    BY SMT DEF Pow
  <1>24. Pow(24) = 16777216
    BY SMT DEF Pow
  <1>25. Pow(25) = 33554432
    BY SMT DEF Pow
  <1>26. Pow(26) = 67108864
    BY SMT DEF Pow
  <1>27. ASSUME NEW k \in 14 .. 24 PROVE Pow(k) \in Nat \ {0} /\ Pow(k) >= 16384
    <2>1. CASE k = 14
      BY <1>14, <2>1
    <2>2. CASE k = 15
      BY <1>15, <2>2
    <2>3. CASE k = 16
      BY <1>16, <2>3
    <2>4. CASE k = 17
      BY <1>17, <2>4
    <2>5. CASE k = 18
      BY <1>18, <2>5
    <2>6. CASE k = 19
      BY <1>19, <2>6
    <2>7. CASE k = 20
      BY <1>20, <2>7
    <2>8. CASE k = 21
      BY <1>21, <2>8
    <2>9. CASE k = 22
      BY <1>22, <2>9
    <2>10. CASE k = 23
      BY <1>23, <2>10
    <2>11. CASE k = 24
      BY <1>24, <2>11
    <2> QED
      BY <2>1, <2>2, <2>3, <2>4, <2>5, <2>6, <2>7, <2>8, <2>9, <2>10, <2>11
  <1> QED
    BY <1>12, <1>13, <1>14, <1>25, <1>26, <1>27


\* The values of the halves of an exponent e and of the one that follows.
ValuesOf(e, exp) == \A k \in e * 1024 .. (e + 1) * 1024 : ValueAt(k, exp) = (k - (e - 1) * 1024) * 8192

\* The values of halves around the normal numbers of an exponent e.
LEMMA NormalValues ==
  ASSUME NEW e \in 1 .. 30
  PROVE  /\ ValuesOf(e, e + 112)
         /\ ValueAt((e + 1) * 1024 + 1, e + 112) = 1025 * 16384
         /\ ValueAt(e * 1024 - 1, e + 112) = IF e = 1 THEN 1023 * 8192 ELSE 2047 * 4096
  <1>1. ASSUME NEW k \in e * 1024 .. e * 1024 + 1023
        PROVE  ValueAt(k, e + 112) = (k - (e - 1) * 1024) * 8192
    <2>1. /\ k - e * 1024 \in 0 .. 1023 /\ k = e * 1024 + (k - e * 1024)
          /\ e \in Nat /\ e + 125 - (e + 112) = 13 /\ e # 0
      OBVIOUS
    <2>2. k \div 1024 = e /\ k % 1024 = k - e * 1024
      <3> DEFINE d == k - e * 1024
      <3>1. d \in 0 .. 1023 /\ k = e * 1024 + d
        BY <2>1
      <3> HIDE DEF d
      <3>2. k \div 1024 = e /\ k % 1024 = d
        BY SMTT(30), <2>1, <3>1
      <3> QED
        BY <3>2 DEF d
    <2>3. ValueAt(k, e + 112) = (1024 + (k - e * 1024)) * Pow(13)
      BY <2>1, <2>2, NormalValue
    <2> QED
      BY <2>3, PowersAre
  <1>2. ASSUME NEW d \in 0 .. 1
        PROVE  ValueAt((e + 1) * 1024 + d, e + 112) = (1024 + d) * 16384
    <2> DEFINE k == (e + 1) * 1024 + d
    <2>1. /\ e + 1 \in Nat /\ d \in 0 .. 1023 /\ k = (e + 1) * 1024 + d
          /\ (e + 1) + 125 - (e + 112) = 14 /\ e + 1 # 0
      OBVIOUS
    <2> HIDE DEF k
    <2>2. k \div 1024 = e + 1 /\ k % 1024 = d
      BY SMTT(30), <2>1
    <2>3. ValueAt(k, e + 112) = (1024 + d) * Pow(14)
      BY <2>1, <2>2, NormalValue
    <2> QED
      BY <2>3, PowersAre DEF k
  <1>3. ValueAt((e + 1) * 1024, e + 112) = ((e + 1) * 1024 - (e - 1) * 1024) * 8192
    <2>1. (e + 1) * 1024 + 0 = (e + 1) * 1024 /\ 0 \in 0 .. 1
      OBVIOUS
    <2>2. ValueAt((e + 1) * 1024, e + 112) = (1024 + 0) * 16384
      BY <1>2, <2>1
    <2> QED
      BY <2>2
  <1>4. ValueAt(e * 1024 - 1, e + 112) = IF e = 1 THEN 1023 * 8192 ELSE 2047 * 4096
    <2> DEFINE k == e * 1024 - 1
    <2>1. CASE e = 1
      <3>1. k = 1023 /\ k \div 1024 = 0 /\ 126 - (e + 112) = 13
        BY <2>1
      <3> HIDE DEF k
      <3>2. ValueAt(k, e + 112) = k * Pow(13)
        BY <3>1, SubnormalValue
      <3> QED
        BY <2>1, <3>1, <3>2, PowersAre DEF k
    <2>2. CASE e # 1
      <3>1. /\ e - 1 \in Nat /\ 1023 \in 0 .. 1023 /\ k = (e - 1) * 1024 + 1023
            /\ (e - 1) + 125 - (e + 112) = 12 /\ e - 1 # 0
        BY <2>2
      <3> HIDE DEF k
      <3>2. k \div 1024 = e - 1 /\ k % 1024 = 1023
        BY <3>1, BinadeIs
      <3>3. ValueAt(k, e + 112) = (1024 + 1023) * Pow(12)
        BY <3>1, <3>2, NormalValue
      <3> QED
        BY <2>2, <3>3, PowersAre DEF k
    <2> QED
      BY <2>1, <2>2
  <1>5. ASSUME NEW k \in e * 1024 .. (e + 1) * 1024 PROVE ValueAt(k, e + 112) = (k - (e - 1) * 1024) * 8192
    <2>1. k \in e * 1024 .. e * 1024 + 1023 \/ k = (e + 1) * 1024
      OBVIOUS
    <2> QED
      BY <1>1, <1>3, <2>1
  <1>6. ValueAt((e + 1) * 1024 + 1, e + 112) = 1025 * 16384
    BY <1>2
  <1>7. ValuesOf(e, e + 112)
    BY <1>5 DEF ValuesOf
  <1> QED
    BY <1>4, <1>6, <1>7

\* How far half k is from the float of these bits.
Away(k, exp, mant) == Off(ValueAt(k, exp) - (mant + 8388608))

LEMMA NearestIs ==
  ASSUME NEW exp, NEW mant, NEW h, h = ToHalf(Float(exp, mant)),
         \A k \in {h - 1, h + 1} \cap 0 .. 31744 :
            Away(h, exp, mant) < Away(k, exp, mant) \/ (Away(h, exp, mant) = Away(k, exp, mant) /\ h % 2 = 0)
  PROVE  IsNearest(Float(exp, mant))
  <1>1. 2^23 = 8388608 /\ 31 * 1024 = 31744
    OBVIOUS
  <1>2. Float(exp, mant).exp = exp /\ Float(exp, mant).mant = mant
    BY DEF Float
  <1> QED
    BY <1>1, <1>2 DEF IsNearest, Away, Off

\* The same for a half that has a name.
LEMMA RoundedIs ==
  ASSUME NEW n \in Nat, NEW unit \in Nat \ {0}, NEW h, h = RoundHalf(n, unit)
  PROVE  /\ h \in Nat /\ 2 * Off(h * unit - n) <= unit
         /\ \A k \in {h - 1, h + 1} :
               Off(h * unit - n) < Off(k * unit - n) \/ (Off(h * unit - n) = Off(k * unit - n) /\ h % 2 = 0)
         /\ h \in {n \div unit, n \div unit + 1}
         /\ (n % unit = 0 => h = n \div unit)
  BY RoundHalfIs, Zenon

LEMMA ToHalfIs ==
  ASSUME NEW exp \in Int, NEW mant \in Nat
  PROVE  /\ exp - 112 < -10 => ToHalf(Float(exp, mant)) = 0
         /\ exp - 112 \in -10 .. 0 =>
               ToHalf(Float(exp, mant)) = RoundHalf(mant + 8388608, Pow(126 - exp))
         /\ exp - 112 \in 1 .. 30 =>
               ToHalf(Float(exp, mant)) = RoundHalf((exp - 112) * 8388608 + mant, 8192)
         /\ exp - 112 > 30 => ToHalf(Float(exp, mant)) = 31744
  <1> DEFINE e == exp - 112
             w == 14 - e
             u == 2^w
             h == ToHalf(Float(exp, mant))
  <1>1. 2^23 = 8388608 /\ 31 * 1024 = 31744 /\ 2^13 = 8192
    OBVIOUS
  <1>2. h = CASE e < -10 -> 0
              [] e \in -10 .. 0 -> RoundHalf(mant + 2^23, u)
              [] e \in 1 .. 30 -> RoundHalf(e * (2^23) + mant, 2^13)
              [] OTHER -> 31 * 1024
    BY DEF ToHalf, Float
  <1>3. u = Pow(126 - exp)
    <2>1. w = 126 - exp
      OBVIOUS
    <2> HIDE DEF w
    <2> QED
      BY <2>1, PowerIs
  <1>4. e \in Int
    OBVIOUS
  <1> HIDE DEF u, e, h
  <1>5. e < -10 => h = 0
    BY <1>2, <1>4
  <1>6. e \in -10 .. 0 => h = RoundHalf(mant + 8388608, u)
    BY <1>1, <1>2, <1>4
  <1>7. e \in 1 .. 30 => h = RoundHalf(e * 8388608 + mant, 8192)
    BY <1>1, <1>2, <1>4
  <1>8. e > 30 => h = 31744
    BY <1>1, <1>2, <1>4
  <1> QED
    BY <1>3, <1>5, <1>6, <1>7, <1>8 DEF e, h

\* The 23 bits of a mantissa.
Fractions == {m \in Nat : m < 8388608}

\* Normal halves.
LEMMA NormalNearest ==
  ASSUME NEW exp \in 113 .. 142, NEW mant \in Fractions
  PROVE  IsNearest(Float(exp, mant))
  <1> DEFINE e == exp - 112
             n == e * 8388608 + mant
             h == ToHalf(Float(exp, mant))
             Dist(k) == Off(k * 8192 - n)
             Closer(k) == Away(h, exp, mant) < Away(k, exp, mant)
                          \/ (Away(h, exp, mant) = Away(k, exp, mant) /\ h % 2 = 0)
  <1>0. e \in 1 .. 30 /\ exp = e + 112 /\ mant \in Nat /\ mant < 8388608 /\ n \in Nat
    <2>1. mant \in Nat /\ mant < 8388608
      BY SMT DEF Fractions
    <2>2. e \in 1 .. 30 /\ exp = e + 112
      BY SMT
    <2> HIDE DEF e, h
    <2>3. n \in Nat
      BY <2>1, <2>2, SMT
    <2> QED
      BY SMT, <2>1, <2>2, <2>3
  <1>1. h = RoundHalf(n, 8192)
    <2>1. exp \in Int /\ mant \in Nat /\ exp - 112 \in 1 .. 30
      BY SMT, <1>0
    <2>2. ToHalf(Float(exp, mant)) = RoundHalf((exp - 112) * 8388608 + mant, 8192)
      BY <2>1, ToHalfIs, SMT
    <2> QED
      BY <2>2, SMT
  <1>2. /\ h \in Nat /\ 2 * Off(h * 8192 - n) <= 8192
        /\ \A k \in {h - 1, h + 1} : Dist(h) < Dist(k) \/ (Dist(h) = Dist(k) /\ h % 2 = 0)
    <2> DEFINE w == 8192
    <2>0. w \in Nat \ {0}
      BY SMT
    <2>w. w = 8192
      BY SMT
    <2>1. n \in Nat /\ h = RoundHalf(n, w)
      BY <1>0, <1>1
    <2> HIDE DEF h, n, w
    <2>2. /\ h \in Nat /\ 2 * Off(h * w - n) <= w
          /\ \A k \in {h - 1, h + 1} :
                Off(h * w - n) < Off(k * w - n) \/ (Off(h * w - n) = Off(k * w - n) /\ h % 2 = 0)
      BY <2>0, <2>1, RoundedIs, Zenon
    <2> QED
      BY SMT, <2>w, <2>2
  <1>3. n >= e * 8388608 /\ n < (e + 1) * 8388608
    BY SMT, <1>0
  <1>4. /\ ValuesOf(e, exp)
        /\ ValueAt((e + 1) * 1024 + 1, exp) = 1025 * 16384
        /\ ValueAt(e * 1024 - 1, exp) = IF e = 1 THEN 1023 * 8192 ELSE 2047 * 4096
    <2>1. e \in 1 .. 30 /\ exp = e + 112
      BY SMT, <1>0
    <2> HIDE DEF e
    <2>2. ValuesOf(e, e + 112)
      BY SMT, <2>1, NormalValues
    <2>3. ValueAt((e + 1) * 1024 + 1, e + 112) = 1025 * 16384
      BY SMT, <2>1, NormalValues
    <2>4. ValueAt(e * 1024 - 1, e + 112) = IF e = 1 THEN 1023 * 8192 ELSE 2047 * 4096
      BY SMT, <2>1, NormalValues
    <2>5. e + 112 = exp
      BY SMT, <2>1
    <2>6. ValuesOf(e, exp)
      BY SMT, <2>2, <2>5
    <2>7. ValueAt((e + 1) * 1024 + 1, exp) = 1025 * 16384
      BY SMT, <2>3, <2>5
    <2>8. ValueAt(e * 1024 - 1, exp) = IF e = 1 THEN 1023 * 8192 ELSE 2047 * 4096
      BY SMT, <2>4, <2>5
    <2> QED
      BY SMT, <2>6, <2>7, <2>8
  <1>n. n = e * 8388608 + mant
    BY SMT
  <1> HIDE DEF h, e, n
  <1>5. h \in e * 1024 .. (e + 1) * 1024
    <2>1. h * 8192 - n <= 4096 /\ n - h * 8192 <= 4096
      BY SMT, <1>0, <1>2 DEF Off
    <2> QED
      BY SMT, <1>0, <1>2, <1>3, <2>1
  <1>6. \A k \in e * 1024 .. (e + 1) * 1024 : Away(k, exp, mant) = Dist(k)
    <2> SUFFICES ASSUME NEW k \in e * 1024 .. (e + 1) * 1024 PROVE Away(k, exp, mant) = Dist(k)
      BY SMT
    <2>1. ValueAt(k, exp) - (mant + 8388608) = k * 8192 - n
      BY SMT, <1>0, <1>4, <1>n DEF ValuesOf
    <2> QED
      BY SMT, <2>1 DEF Away
  <1>7. Closer(h - 1)
    <2>1. CASE h = e * 1024
      <3>1. Away(h, exp, mant) = mant
        <4>1. h * 8192 - n = -mant
          BY SMT, <1>0, <1>n, <2>1
        <4> QED
          BY SMT, <1>0, <1>5, <1>6, <4>1 DEF Off
      <3>2. Away(h - 1, exp, mant) > mant
        <4>1. ValueAt(h - 1, exp) = IF e = 1 THEN 1023 * 8192 ELSE 2047 * 4096
          BY SMT, <1>4, <2>1
        <4>2. ValueAt(h - 1, exp) - (mant + 8388608) = -mant - 8192
              \/ ValueAt(h - 1, exp) - (mant + 8388608) = -mant - 4096
          BY SMT, <1>0, <4>1
        <4> QED
          BY SMT, <1>0, <4>2 DEF Away, Off
      <3>3. Away(h, exp, mant) < Away(h - 1, exp, mant)
        BY SMT, <3>1, <3>2
      <3> QED
        BY SMT, <3>3
    <2>2. CASE h # e * 1024
      <3>1. h - 1 \in e * 1024 .. (e + 1) * 1024
        BY SMT, <1>0, <1>5, <2>2
      <3> QED
        BY SMT, <1>2, <1>5, <1>6, <3>1
    <2> QED
      BY SMT, <2>1, <2>2
  <1>8. Closer(h + 1)
    <2>1. CASE h = (e + 1) * 1024
      <3>1. Away(h, exp, mant) = 8388608 - mant
        <4>1. h * 8192 - n = 8388608 - mant
          BY SMT, <1>0, <1>n, <2>1
        <4> QED
          BY SMT, <1>0, <1>5, <1>6, <4>1 DEF Off
      <3>2. Away(h + 1, exp, mant) > 8388608 - mant
        <4>1. ValueAt(h + 1, exp) - (mant + 8388608) = 8388608 + 16384 - mant
          BY SMT, <1>0, <1>4, <2>1
        <4> QED
          BY SMT, <1>0, <4>1 DEF Away, Off
      <3>3. Away(h, exp, mant) < Away(h + 1, exp, mant)
        BY SMT, <3>1, <3>2
      <3> QED
        BY SMT, <3>3
    <2>2. CASE h # (e + 1) * 1024
      <3>1. h + 1 \in e * 1024 .. (e + 1) * 1024
        BY SMT, <1>0, <1>5, <2>2
      <3> QED
        BY SMT, <1>2, <1>5, <1>6, <3>1
    <2> QED
      BY SMT, <2>1, <2>2
  <1> QED
    BY SMT, <1>7, <1>8, NearestIs DEF h

\* Halves below the smallest normal one.
LEMMA SubnormalNearest ==
  ASSUME NEW exp \in 102 .. 112, NEW mant \in Fractions
  PROVE  IsNearest(Float(exp, mant))
  <1> DEFINE u == Pow(126 - exp)
             n == mant + 8388608
             h == ToHalf(Float(exp, mant))
             Dist(k) == Off(k * u - n)
             Closer(k) == Away(h, exp, mant) < Away(k, exp, mant)
                          \/ (Away(h, exp, mant) = Away(k, exp, mant) /\ h % 2 = 0)
  <1>0. 126 - exp \in 14 .. 24 /\ mant \in Nat /\ n \in Nat /\ n < 16777216 /\ exp \in Nat /\ 126 - exp \in Nat
    <2>1. mant \in Nat /\ mant < 8388608
      BY SMT DEF Fractions
    <2>2. 126 - exp \in 14 .. 24 /\ exp \in Nat /\ 126 - exp \in Nat
      BY SMT
    <2>3. n \in Nat /\ n < 16777216
      BY <2>1, SMT
    <2> QED
      BY SMT, <2>1, <2>2, <2>3
  <1>1. u \in Nat \ {0} /\ u >= 16384
    BY SMT, <1>0, PowersAre
  <1>2. h = RoundHalf(n, u)
    <2>1. exp \in Int /\ mant \in Nat /\ exp - 112 \in -10 .. 0
      BY SMT, <1>0
    <2>2. ToHalf(Float(exp, mant)) = RoundHalf(mant + 8388608, Pow(126 - exp))
      BY <2>1, ToHalfIs, SMT
    <2> QED
      BY <2>2, SMT
  <1>3. \A k \in 0 .. 2047 : ValueAt(k, exp) = k * u
    <2> SUFFICES ASSUME NEW k \in 0 .. 2047 PROVE ValueAt(k, exp) = k * u
      BY SMT
    <2>1. CASE k < 1024
      <3>1. k \div 1024 = 0 /\ k \in Nat
        BY SMT, <2>1
      <3> QED
        BY SMT, <1>0, <3>1, SubnormalValue
    <2>2. CASE k >= 1024
      <3> DEFINE d == k - 1024
      <3>1. d \in Nat /\ k \in Nat /\ k \div 1024 = 1 /\ k % 1024 = d /\ 1024 + d = k
        BY SMT, <2>2
      <3>2. 1 + 125 - exp = 126 - exp
        BY SMT, <1>0
      <3> HIDE DEF d, u
      <3>3. ValueAt(k, exp) = (1024 + d) * Pow(126 - exp)
        BY SMT, <1>0, <3>1, <3>2, NormalValue
      <3> QED
        BY SMT, <3>1, <3>3 DEF u
    <2> QED
      BY SMT, <2>1, <2>2
  <1> HIDE DEF u, h
  <1>4. /\ h \in Nat
        /\ \A k \in {h - 1, h + 1} : Dist(h) < Dist(k) \/ (Dist(h) = Dist(k) /\ h % 2 = 0)
        /\ h \in {n \div u, n \div u + 1}
    <2>1. n \in Nat /\ u \in Nat \ {0} /\ h = RoundHalf(n, u)
      BY SMT, <1>0, <1>1, <1>2
    <2> HIDE DEF n
    <2> QED
      BY <2>1, RoundedIs, Zenon
  <1>5. h <= 1024
    <2> DEFINE q == n \div u
    <2>1. q \in Nat /\ q * u <= n
      BY SMT, <1>0, <1>1, QuotientIs
    <2> HIDE DEF q
    <2>2. q < 1024
      <3> SUFFICES ASSUME q >= 1024 PROVE FALSE
        BY SMT, <2>1
      <3>1. q * u >= 1024 * u
        BY SMT, <1>1, <2>1
      <3> QED
        BY SMT, <1>0, <1>1, <2>1, <3>1
    <2> QED
      BY SMT, <1>4, <2>1, <2>2 DEF q
  <1>6. \A k \in 0 .. 2047 : Away(k, exp, mant) = Dist(k)
    BY SMT, <1>3 DEF Away
  <1>7. \A k \in {h - 1, h + 1} \cap 0 .. 31744 : Closer(k)
    <2> SUFFICES ASSUME NEW k \in {h - 1, h + 1} \cap 0 .. 31744 PROVE Closer(k)
      BY SMT
    <2>1. h \in 0 .. 2047 /\ k \in 0 .. 2047
      BY SMT, <1>4, <1>5
    <2>2. Away(h, exp, mant) = Dist(h) /\ Away(k, exp, mant) = Dist(k)
      BY SMT, <1>6, <2>1
    <2> HIDE DEF n
    <2> QED
      BY SMT, <1>4, <2>2
  <1> QED
    BY SMT, <1>7, NearestIs DEF h

\* Below half of the smallest half, and from 2^16 on.
LEMMA ZeroNearest ==
  ASSUME NEW exp \in 100 .. 101, NEW mant \in Fractions
  PROVE  IsNearest(Float(exp, mant))
  <1> DEFINE h == ToHalf(Float(exp, mant))
  <1>1. mant \in Nat /\ mant < 8388608 /\ exp \in Int /\ exp \in Nat
    BY SMT DEF Fractions
  <1>2. h = 0
    BY SMT, <1>1, ToHalfIs
  <1> HIDE DEF h
  <1>3. ValueAt(0, exp) = 0 /\ (ValueAt(1, exp) = 33554432 \/ ValueAt(1, exp) = 67108864)
    <2>1. 0 \div 1024 = 0 /\ 1 \div 1024 = 0 /\ 126 - exp \in {25, 26} /\ 126 - exp \in Nat
      BY SMT
    <2> DEFINE x == 126 - exp
    <2>2. x \in {25, 26} /\ x \in Nat
      BY SMT
    <2>3. Pow(x) = 33554432 \/ Pow(x) = 67108864
      <3>1. Pow(25) = 33554432 /\ Pow(26) = 67108864
        BY SMT, PowersAre
      <3> HIDE DEF x
      <3>2. CASE x = 25
        BY SMT, <3>1, <3>2
      <3>3. CASE x = 26
        BY SMT, <3>1, <3>3
      <3> QED
        BY SMT, <2>2, <3>2, <3>3
    <2>4. 126 - exp = x
      BY SMT
    <2> HIDE DEF x
    <2>5. ValueAt(0, exp) = 0 * Pow(x)
      BY SMT, <1>1, <2>1, <2>2, <2>4, SubnormalValue
    <2>6. ValueAt(1, exp) = 1 * Pow(x)
      BY SMT, <1>1, <2>1, <2>2, <2>4, SubnormalValue
    <2> QED
      BY SMT, <2>3, <2>5, <2>6
  <1>4. Away(0, exp, mant) = mant + 8388608 /\ Away(1, exp, mant) > mant + 8388608
    <2>1. Away(0, exp, mant) = mant + 8388608
      BY SMT, <1>1, <1>3 DEF Away, Off
    <2>2. Away(1, exp, mant) > mant + 8388608
      BY SMT, <1>1, <1>3 DEF Away, Off
    <2> QED
      BY SMT, <2>1, <2>2
  <1>5. \A k \in {h - 1, h + 1} \cap 0 .. 31744 : Away(h, exp, mant) < Away(k, exp, mant)
    <2> SUFFICES ASSUME NEW k \in {h - 1, h + 1} \cap 0 .. 31744
                 PROVE  Away(h, exp, mant) < Away(k, exp, mant)
      BY SMT
    <2>1. k = 1
      BY SMT, <1>2
    <2> QED
      BY SMT, <1>1, <1>2, <1>4, <2>1
  <1> QED
    BY SMT, <1>5, NearestIs DEF h

LEMMA InfinityNearest ==
  ASSUME NEW mant \in Fractions
  PROVE  IsNearest(Float(143, mant))
  <1> DEFINE exp == 143
             h == ToHalf(Float(exp, mant))
  <1>1. mant \in Nat /\ mant < 8388608
    BY SMT DEF Fractions
  <1>2. h = 31744
    BY SMT, <1>1, ToHalfIs
  <1>3. ValueAt(31744, exp) = 8388608 /\ ValueAt(31743, exp) = 8384512
    <2>1. 31744 \div 1024 = 31 /\ 31744 % 1024 = 0 /\ 31743 \div 1024 = 30 /\ 31743 % 1024 = 1023
      BY SMT
    <2>2. ValueAt(31744, exp) = (1024 + 0) * Pow(13)
      BY SMT, <2>1, NormalValue
    <2>3. ValueAt(31743, exp) = (1024 + 1023) * Pow(12)
      BY SMT, <2>1, NormalValue
    <2> QED
      BY SMT, <2>2, <2>3, PowersAre
  <1>e. exp = 143
    BY SMT
  <1> HIDE DEF h, exp
  <1>4. Away(31744, exp, mant) = mant
    BY SMT, <1>1, <1>3 DEF Away, Off
  <1>5. Away(31743, exp, mant) = mant + 4096
    BY SMT, <1>1, <1>3 DEF Away, Off
  <1>6. \A k \in {h - 1, h + 1} \cap 0 .. 31744 : Away(h, exp, mant) < Away(k, exp, mant)
    <2> SUFFICES ASSUME NEW k \in {h - 1, h + 1} \cap 0 .. 31744
                 PROVE  Away(h, exp, mant) < Away(k, exp, mant)
      BY SMT
    <2>1. k = 31743
      BY SMT, <1>2
    <2> QED
      BY SMT, <1>1, <1>2, <1>4, <1>5, <2>1
  <1>7. IsNearest(Float(exp, mant))
    BY SMT, <1>6, NearestIs DEF h
  <1> QED
    BY SMT, <1>e, <1>7

\* A scale becomes the nearest half, from below half of the smallest one to infinity.
LEMMA ScalesAreNearest ==
  ASSUME NEW exp \in 100 .. 143, NEW mant \in Fractions
  PROVE  IsNearest(Float(exp, mant))
  <1>1. CASE exp \in 100 .. 101
    BY SMT, <1>1, ZeroNearest
  <1>2. CASE exp \in 102 .. 112
    BY SMT, <1>2, SubnormalNearest
  <1>3. CASE exp \in 113 .. 142
    BY SMT, <1>3, NormalNearest
  <1>4. CASE exp = 143
    BY SMT, <1>4, InfinityNearest
  <1> QED
    BY SMT, <1>1, <1>2, <1>3, <1>4

-----------------------------------------------------------------------------
(* Products. *)

\* A row or a token and a place in it, and the cell of an array.
LEMMA CellIs ==
  ASSUME NEW n \in Nat \ {0}, NEW b \in Nat, NEW j \in 0 .. n - 1
  PROVE  b * n + j \in Nat /\ (b * n + j) \div n = b /\ (b * n + j) % n = j
  <1> DEFINE c == b * n + j
             q == c \div n
             r == c % n
  <1>1. c \in Nat /\ b * n \in Nat
    OBVIOUS
  <1> HIDE DEF c
  <1>2. q \in Nat /\ r \in 0 .. n - 1 /\ c = q * n + r
    BY <1>1
  <1> HIDE DEF q, r
  <1>3. c = b * n + j
    BY DEF c
  <1>4. q = b
    <2>1. q < b => q * n + n <= b * n
      <3> SUFFICES ASSUME q < b PROVE q * n + n <= b * n
        OBVIOUS
      <3>1. b - (q + 1) \in Nat
        BY <1>2
      <3>2. (b - (q + 1)) * n \in Nat
        BY <3>1
      <3>3. (b - (q + 1)) * n = b * n - (q * n + n)
        BY <1>2
      <3>4. q * n \in Nat
        BY <1>2
      <3> QED
        BY <1>1, <3>2, <3>3, <3>4
    <2>2. b < q => b * n + n <= q * n
      <3> SUFFICES ASSUME b < q PROVE b * n + n <= q * n
        OBVIOUS
      <3>1. q - (b + 1) \in Nat
        BY <1>2
      <3>2. (q - (b + 1)) * n \in Nat
        BY <3>1
      <3>3. (q - (b + 1)) * n = q * n - (b * n + n)
        BY <1>2
      <3>4. q * n \in Nat
        BY <1>2
      <3> QED
        BY <1>1, <3>2, <3>3, <3>4
    <2>3. q * n \in Nat
      BY <1>2
    <2> QED
      BY <1>1, <1>2, <1>3, <2>1, <2>2, <2>3
  <1>5. r = j
    BY <1>1, <1>2, <1>3, <1>4
  <1> QED
    BY <1>1, <1>4, <1>5 DEF c, q, r

LEMMA CellBelow ==
  ASSUME NEW n \in Nat \ {0}, NEW B \in Nat, NEW b \in 0 .. B - 1, NEW j \in 0 .. n - 1
  PROVE  b * n + j \in 0 .. B * n - 1
  <1>1. B - 1 - b \in Nat /\ b \in Nat
    OBVIOUS
  <1>2. (B - 1 - b) * n \in Nat /\ b * n \in Nat
    BY <1>1
  <1>3. (B - 1 - b) * n = B * n - n - b * n
    BY <1>1
  <1>4. B * n \in Nat
    OBVIOUS
  <1> QED
    BY <1>2, <1>3, <1>4

LEMMA CellFrom ==
  ASSUME NEW n \in Nat \ {0}, NEW B \in Nat, NEW k \in 0 .. B * n - 1
  PROVE  k \div n \in 0 .. B - 1 /\ k % n \in 0 .. n - 1 /\ k = (k \div n) * n + (k % n)
  <1> DEFINE q == k \div n
             r == k % n
  <1>1. k \in Nat /\ B * n \in Nat /\ k < B * n
    OBVIOUS
  <1>2. q \in Nat /\ r \in 0 .. n - 1 /\ k = q * n + r
    BY <1>1
  <1> HIDE DEF q, r
  <1>3. q < B
    <2> SUFFICES ASSUME q >= B PROVE FALSE
      BY <1>2
    <2>1. q - B \in Nat
      BY <1>2
    <2>2. (q - B) * n \in Nat
      BY <2>1
    <2>3. (q - B) * n = q * n - B * n /\ q * n \in Nat
      BY <1>2
    <2> QED
      BY <1>1, <1>2, <2>2, <2>3
  <1> QED
    BY <1>2, <1>3 DEF q, r

\* A product of whole cells.
OfCells(m) ==
  /\ m \in [quantized : BOOLEAN, n_in : Nat \ {0}, d_out : Nat \ {0}, B : Nat \ {0}]
  /\ m.quantized => m.n_in % QBlock = 0

LEMMA CellsAre ==
  ASSUME NEW m, OfCells(m)
  PROVE  /\ Unit(m) \in Nat \ {0} /\ CellsPerRow(m) \in Nat \ {0}
         /\ CellsPerRow(m) * Unit(m) = m.n_in
  <1> DEFINE u == Unit(m)
             n == m.n_in
             q == n \div u
  <1>1. n \in Nat \ {0} /\ m.quantized \in BOOLEAN
    BY DEF OfCells
  <1>2. u \in Nat \ {0} /\ n % u = 0
    <2>1. CASE m.quantized
      BY <2>1, BlockAssumption DEF OfCells, Unit
    <2>2. CASE ~m.quantized
      <3>1. u = 1
        BY <2>2 DEF Unit
      <3> QED
        BY <1>1, <3>1
    <2> QED
      BY <2>1, <2>2
  <1> HIDE DEF u, n
  <1>3. q \in Nat /\ n = q * u + (n % u)
    BY <1>1, <1>2
  <1>4. q * u = n /\ q # 0
    BY <1>1, <1>2, <1>3
  <1> QED
    BY <1>2, <1>3, <1>4 DEF CellsPerRow, n, u

\* The numbers of row i and of token b, term by term.
Terms(m, i, b) == [e \in 0 .. m.n_in - 1 |-> <<i * m.n_in + e, b * m.n_in + e>>]

LEMMA DotIs ==
  ASSUME NEW m, OfCells(m), NEW b \in 0 .. m.B - 1, NEW i \in Nat
  PROVE  Dot(m, i * CellsPerRow(m), b * CellsPerRow(m)) = Terms(m, i, b)
  <1> DEFINE u == Unit(m)
             n == m.n_in
             nb == CellsPerRow(m)
  <1>0. n \in Nat \ {0} /\ m.B \in Nat \ {0} /\ b \in Nat
    BY DEF OfCells
  <1>1. u \in Nat \ {0} /\ nb \in Nat \ {0} /\ nb * u = n
    BY CellsAre
  <1>2. ASSUME NEW e \in 0 .. n - 1
        PROVE  << (i * nb + (e \div u)) * u + (e % u), Activations(m)[b * nb + (e \div u)] + (e % u) >>
                 = <<i * n + e, b * n + e>>
    <2> DEFINE j == e \div u
               r == e % u
               c == b * nb + j
    <2>1. j \in 0 .. nb - 1 /\ r \in 0 .. u - 1 /\ e = j * u + r
      <3>1. e \in 0 .. nb * u - 1
        BY <1>1
      <3> HIDE DEF u, nb, n
      <3> QED
        BY <1>1, <3>1, CellFrom
    <2> HIDE DEF j, r
    <2>2. c \in 0 .. m.B * nb - 1 /\ c \div nb = b /\ c % nb = j
      <3> HIDE DEF nb, u, n
      <3> QED
        BY <1>0, <1>1, <2>1, CellIs, CellBelow
    <2>3. Activations(m)[c] = b * n + j * u
      <3>1. Activations(m)[c] = (c \div nb) * n + (c % nb) * u
        <4> HIDE DEF c
        <4> QED
          BY <2>2 DEF Activations
      <3> HIDE DEF c, nb, u, n
      <3> QED
        BY <2>2, <3>1
    <2>4. (i * nb + j) * u = i * n + j * u
      <3>1. i * nb \in Nat /\ (i * nb) * u = i * (nb * u)
        <4> HIDE DEF nb, u, n
        <4> QED
          BY <1>1
      <3>2. (i * nb + j) * u = (i * nb) * u + j * u
        <4> HIDE DEF nb, u, n
        <4> QED
          BY <1>1, <2>1, <3>1
      <3> HIDE DEF nb, u, n
      <3> QED
        BY <1>1, <3>1, <3>2
    <2>5. (i * nb + j) * u + r = i * n + e /\ Activations(m)[c] + r = b * n + e
      <3>1. i * n \in Nat /\ b * n \in Nat /\ j * u \in Nat
        <4> HIDE DEF nb, u, n
        <4> QED
          BY <1>0, <1>1, <2>1
      <3> HIDE DEF nb, u, n, c
      <3> QED
        BY <2>1, <2>3, <2>4, <3>1
    <2> HIDE DEF u, nb, n
    <2> QED
      BY <2>5 DEF j, r, c
  <1> QED
    BY <1>2 DEF Dot, Terms

LEMMA BatchIs ==
  ASSUME NEW m, OfCells(m)
  PROVE  /\ \A b \in 0 .. m.B - 1, i \in 0 .. m.d_out - 1 : <<b * m.d_out + i, Terms(m, i, b)>> \in Batch(m)
         /\ \A w \in Batch(m) : \E b \in 0 .. m.B - 1, i \in 0 .. m.d_out - 1 :
               w = <<b * m.d_out + i, Terms(m, i, b)>>
  <1>1. ASSUME NEW b \in 0 .. m.B - 1, NEW i \in 0 .. m.d_out - 1
        PROVE  Dot(m, i * CellsPerRow(m), b * CellsPerRow(m)) = Terms(m, i, b)
    <2>1. i \in Nat
      BY DEF OfCells
    <2> QED
      BY <2>1, DotIs
  <1>2. \A i \in 0 .. m.d_out - 1 :
           MmbRow(m, i) = {<<b * m.d_out + i, Terms(m, i, b)>> : b \in 0 .. m.B - 1}
    BY <1>1 DEF MmbRow
  <1>3. ASSUME NEW b \in 0 .. m.B - 1, NEW i \in 0 .. m.d_out - 1
        PROVE  <<b * m.d_out + i, Terms(m, i, b)>> \in Batch(m)
    <2>1. <<b * m.d_out + i, Terms(m, i, b)>> \in MmbRow(m, i)
      BY <1>2
    <2> QED
      BY <2>1 DEF Batch
  <1>4. ASSUME NEW w \in Batch(m)
        PROVE  \E b \in 0 .. m.B - 1, i \in 0 .. m.d_out - 1 : w = <<b * m.d_out + i, Terms(m, i, b)>>
    <2>1. PICK i \in 0 .. m.d_out - 1 : w \in MmbRow(m, i)
      BY DEF Batch
    <2>2. PICK b \in 0 .. m.B - 1 : w = <<b * m.d_out + i, Terms(m, i, b)>>
      BY <1>2, <2>1
    <2> QED
      BY <2>2
  <1> QED
    BY <1>3, <1>4

LEMMA AloneIs ==
  ASSUME NEW m, OfCells(m), NEW i \in 0 .. m.d_out - 1
  PROVE  <<i, [e \in 0 .. m.n_in - 1 |-> <<i * m.n_in + e, e>>]>> \in Single([m EXCEPT !.B = 1])
  <1> DEFINE s == [m EXCEPT !.B = 1]
  <1>1. s.n_in = m.n_in /\ s.d_out = m.d_out /\ s.B = 1
    BY DEF OfCells
  <1>2. OfCells(s)
    BY <1>1 DEF OfCells
  <1>3. m.n_in \in Nat /\ i \in Nat
    BY DEF OfCells
  <1> HIDE DEF s
  <1>4. CellsPerRow(s) \in Nat
    BY <1>2, CellsAre
  <1>5. 0 \in 0 .. s.B - 1 /\ 0 * CellsPerRow(s) = 0
    BY <1>1, <1>4
  <1>6. Dot(s, i * CellsPerRow(s), 0) = Terms(s, i, 0)
    BY <1>2, <1>3, <1>5, DotIs
  <1>7. Terms(s, i, 0) = [e \in 0 .. m.n_in - 1 |-> <<i * m.n_in + e, e>>]
    <2>1. ASSUME NEW e \in 0 .. m.n_in - 1 PROVE 0 * m.n_in + e = e
      BY <1>3
    <2> QED
      BY <1>1, <2>1 DEF Terms
  <1>8. <<i, Dot(s, i * CellsPerRow(s), 0)>> \in MmRow(s, i)
    BY DEF MmRow
  <1>9. <<i, Dot(s, i * CellsPerRow(s), 0)>> \in Single(s)
    BY <1>1, <1>8 DEF Single
  <1> QED
    BY <1>6, <1>7, <1>9 DEF s

LEMMA CellsAreCounted ==
  ASSUME NEW m, OfCells(m)
  PROVE  /\ Cardinality(Batch(m)) = m.B * m.d_out
         /\ {w[1] : w \in Batch(m)} = 0 .. m.B * m.d_out - 1
  <1> DEFINE d == m.d_out
             K == 0 .. m.B * d - 1
             cell(k) == <<k, Terms(m, k % d, k \div d)>>
             f == [k \in K |-> cell(k)]
  <1>0. d \in Nat \ {0} /\ m.B \in Nat \ {0}
    BY DEF OfCells
  <1>1. ASSUME NEW k \in K PROVE cell(k) \in Batch(m)
    <2>1. k \div d \in 0 .. m.B - 1 /\ k % d \in 0 .. d - 1 /\ k = (k \div d) * d + (k % d)
      <3> HIDE DEF d
      <3> QED
        BY <1>0, CellFrom
    <2>2. <<(k \div d) * d + (k % d), Terms(m, k % d, k \div d)>> \in Batch(m)
      BY <2>1, BatchIs
    <2> QED
      BY <2>1, <2>2
  <1>2. ASSUME NEW w \in Batch(m) PROVE w[1] \in K /\ w = cell(w[1])
    <2>1. PICK b \in 0 .. m.B - 1, i \in 0 .. d - 1 : w = <<b * d + i, Terms(m, i, b)>>
      BY BatchIs
    <2> DEFINE k == b * d + i
    <2>2. k \in K /\ k \div d = b /\ k % d = i
      <3>1. b \in Nat
        BY <1>0
      <3> HIDE DEF d
      <3> QED
        BY <1>0, <3>1, CellIs, CellBelow
    <2>3. w[1] = k /\ w = <<k, Terms(m, i, b)>>
      BY <2>1
    <2> HIDE DEF k, d
    <2> QED
      BY <2>2, <2>3
  <1>3. {w[1] : w \in Batch(m)} = K
    <2>1. \A k \in K : cell(k)[1] = k
      OBVIOUS
    <2> HIDE DEF cell, K
    <2> QED
      BY <1>1, <1>2, <2>1
  <1>4. f \in Bijection(K, Batch(m))
    <2>1. f \in [K -> Batch(m)]
      BY <1>1
    <2>2. \A k, l \in K : f[k] = f[l] => k = l
      <3>1. \A k \in K : f[k] = cell(k) /\ cell(k)[1] = k
        OBVIOUS
      <3> HIDE DEF f, K, cell
      <3> QED
        BY <3>1
    <2>3. \A w \in Batch(m) : \E k \in K : f[k] = w
      <3> SUFFICES ASSUME NEW w \in Batch(m) PROVE f[w[1]] = w /\ w[1] \in K
        OBVIOUS
      <3> QED
        BY <1>2
    <2> HIDE DEF f, K
    <2> QED
      BY <2>1, <2>2, <2>3 DEF Bijection, Injection, Surjection, IsInjective
  <1>5. IsFiniteSet(K) /\ Cardinality(K) = m.B * d
    <2>1. m.B * d \in Nat /\ m.B * d > 0
      <3> HIDE DEF d
      <3> QED
        BY <1>0
    <2> DEFINE t == m.B * d
    <2> HIDE DEF t
    <2>2. t \in Nat /\ t > 0
      BY <2>1 DEF t
    <2>3. IsFiniteSet(0 .. t - 1) /\ Cardinality(0 .. t - 1) = t
      <3>1. 0 \in Int /\ t - 1 \in Int /\ ~(0 > t - 1) /\ (t - 1) - 0 + 1 = t
        BY <2>2
      <3> QED
        BY <3>1, FS_Interval
    <2> QED
      BY <2>3 DEF t
  <1>6. ExistsBijection(K, Batch(m))
    BY <1>4 DEF ExistsBijection
  <1>7. Cardinality(Batch(m)) = Cardinality(K)
    <2> HIDE DEF K
    <2> QED
      BY <1>5, <1>6, FS_Bijection
  <1> QED
    BY <1>3, <1>5, <1>7

\* Every product is that of its rows and its tokens.
LEMMA ProductsMatch ==
  ASSUME NEW m, OfCells(m)
  PROVE  ProductsAreRows(m)
  <1>1. ASSUME NEW b \in 0 .. m.B - 1, NEW i \in 0 .. m.d_out - 1
        PROVE  LET row == [e \in 0 .. m.n_in - 1 |-> <<i * m.n_in + e, b * m.n_in + e>>] IN
               /\ <<b * m.d_out + i, row>> \in Batch(m)
               /\ <<i, [e \in DOMAIN row |-> <<row[e][1], e>>]>> \in Single([m EXCEPT !.B = 1])
    <2> DEFINE row == [e \in 0 .. m.n_in - 1 |-> <<i * m.n_in + e, b * m.n_in + e>>]
    <2>1. <<b * m.d_out + i, row>> \in Batch(m)
      BY BatchIs DEF Terms
    <2>2. [e \in DOMAIN row |-> <<row[e][1], e>>] = [e \in 0 .. m.n_in - 1 |-> <<i * m.n_in + e, e>>]
      OBVIOUS
    <2> HIDE DEF row
    <2>3. <<i, [e \in DOMAIN row |-> <<row[e][1], e>>]>> \in Single([m EXCEPT !.B = 1])
      BY <2>2, AloneIs
    <2> QED
      BY <2>1, <2>3 DEF row
  <1> QED
    BY <1>1, CellsAreCounted DEF ProductsAreRows

-----------------------------------------------------------------------------
(* Halves that come back. *)

\* The recursion that shifts a mantissa to its hidden bit.
LEMMA NormalisedIs ==
  /\ \A m \in 1024 .. 2047 : Normalised(m) = Float(113, (m - 1024) * 8192)
  /\ \A m \in 1 .. 1023 : Normalised(m) = Lower(Normalised(2 * m))
  <1> DEFINE D == 1 .. 2047
             shl == 2^13
             Fields == [exp : Int, mant : Int]
             left == [m \in D |-> 2048 - m]
             stop == {m \in D : m >= 1024}
             next == [m \in D |-> IF m >= 1024 THEN m ELSE 2 * m]
             end == [m \in D |-> Float(113, (m - 1024) * shl)]
             wrap == [mr \in D \X Fields |-> Lower(mr[2])]
             Is(f) == f = [m \in D |-> IF m >= 1024 THEN Float(113, (m - 1024) * shl)
                                       ELSE Lower(f[2 * m])]
             up == CHOOSE f : Is(f)
  <1>0. shl = 8192
    BY SMT
  <1>1. shl \in Int
    BY SMT
  <1>2. \A m : Normalised(m) = up[m]
    BY Zenon DEF Normalised
  <1> HIDE DEF shl
  <1>3. \A m \in D : m \in Nat /\ m >= 1 /\ m <= 2047 /\ (m < 1024 => 2 * m \in D)
    OBVIOUS
  <1>d. (1024 .. 2047) \subseteq D /\ (1 .. 1023) \subseteq D
    OBVIOUS
  <1> HIDE DEF D
  <1>4. left \in [D -> Nat] /\ \A m \in D : left[m] = 2048 - m
    BY <1>3
  <1>5. \A m \in D : m >= 1024 <=> m \in stop
    OBVIOUS
  <1>6. \A m \in D : next[m] = IF m >= 1024 THEN m ELSE 2 * m
    OBVIOUS
  <1>7. next \in [D -> D]
    <2>1. \A m \in D : (IF m >= 1024 THEN m ELSE 2 * m) \in D
      BY <1>3
    <2> QED
      BY <2>1
  <1>8. \A m \in D : end[m] = Float(113, (m - 1024) * shl)
    OBVIOUS
  <1>9. end \in [D -> Fields]
    <2>1. \A m \in D : Float(113, (m - 1024) * shl) \in Fields
      BY <1>1, <1>3 DEF Float
    <2> HIDE DEF Fields
    <2> QED
      BY <2>1
  <1>10. wrap \in [D \X Fields -> Fields]
    <2>1. \A r \in Fields : Lower(r) \in Fields
      BY DEF Lower, Float
    <2> HIDE DEF Fields
    <2> QED
      BY <2>1
  <1>11. \A m \in D, r \in Fields : wrap[<<m, r>>] = Lower(r)
    <2> HIDE DEF Fields
    <2> QED
      OBVIOUS
  <1> HIDE DEF left, stop, next, end, wrap, Fields
  <1>12. \A m \in D : m \notin stop => left[next[m]] < left[m]
    <2> SUFFICES ASSUME NEW m \in D, m \notin stop PROVE left[next[m]] < left[m]
      OBVIOUS
    <2>1. m < 1024 /\ m >= 1 /\ m \in Nat /\ 2 * m \in D
      <3>1. m \in Nat /\ ~(m >= 1024)
        BY <1>3, <1>5
      <3> QED
        BY <1>3, <3>1
    <2>2. next[m] = 2 * m
      BY <1>6, <2>1
    <2>3. left[m] = 2048 - m /\ left[2 * m] = 2048 - 2 * m
      BY <1>4, <2>1
    <2> QED
      BY <2>1, <2>2, <2>3
  <1>13. PICK f : Unfolds(f, D, Fields, stop, end, next, wrap)
    <2>1. Shrinks(D, left, stop, next)
      BY <1>4, <1>7, <1>12 DEF Shrinks
    <2> QED
      BY <1>9, <1>10, <2>1, SizeRecursion
  <1>14. ASSUME NEW m \in D
         PROVE  f[m] = IF m >= 1024 THEN Float(113, (m - 1024) * shl)
                       ELSE Lower(f[2 * m])
    <2>1. CASE m >= 1024
      <3>1. m \in stop
        BY <1>5, <2>1
      <3>2. f[m] = end[m]
        BY <1>13, <3>1 DEF Unfolds
      <3> QED
        BY <1>8, <2>1, <3>2
    <2>2. CASE ~(m >= 1024)
      <3>1. m \notin stop /\ next[m] = 2 * m /\ 2 * m \in D
        BY <1>3, <1>5, <1>6, <2>2
      <3>2. f[2 * m] \in Fields /\ f[m] = wrap[<<m, f[2 * m]>>]
        BY <1>13, <3>1 DEF Unfolds
      <3>3. f[m] = Lower(f[2 * m])
        BY <1>11, <3>2
      <3> QED
        BY <2>2, <3>3
    <2> QED
      BY <2>1, <2>2
  <1>15. Is(f)
    <2>1. f = [m \in D |-> f[m]]
      BY <1>13 DEF Unfolds
    <2> QED
      BY <1>14, <2>1
  <1>16. Is(up)
    <2> HIDE DEF Is
    <2> QED
      BY <1>15
  <1> HIDE DEF up
  <1>17. ASSUME NEW m \in D
         PROVE  up[m] = IF m >= 1024 THEN Float(113, (m - 1024) * shl)
                        ELSE Lower(up[2 * m])
    <2> DEFINE Body(k) == IF k >= 1024 THEN Float(113, (k - 1024) * shl)
                          ELSE Lower(up[2 * k])
    <2>1. up = [k \in D |-> Body(k)]
      BY <1>16
    <2> HIDE DEF Body
    <2>2. up[m] = Body(m)
      BY <2>1
    <2> QED
      BY <2>2 DEF Body
  <1>18. ASSUME NEW m \in 1024 .. 2047 PROVE Normalised(m) = Float(113, (m - 1024) * 8192)
    <2>1. m \in D /\ m >= 1024
      BY <1>d
    <2>2. up[m] = Float(113, (m - 1024) * shl)
      BY <1>17, <2>1
    <2> QED
      BY SMT, <1>0, <1>2, <2>2
  <1>19. ASSUME NEW m \in 1 .. 1023 PROVE Normalised(m) = Lower(Normalised(2 * m))
    <2>1. m \in D /\ ~(m >= 1024)
      BY <1>d
    <2>2. up[m] = Lower(up[2 * m])
      BY <1>17, <2>1
    <2> QED
      BY SMT, <1>2, <2>2
  <1> QED
    BY SMT, <1>18, <1>19

\* A mantissa that s shifts, a multiplication by p, bring to its hidden bit.
Becomes(m, s, p) == Normalised(m) = Float(113 - s, (m * p - 1024) * 8192)
Reaches(m, p) == 1024 <= m * p /\ m * p < 2048
Mantissas == 1 .. 2047
Shifted(s, p) == \A m \in Mantissas : Reaches(m, p) => Becomes(m, s, p)

LEMMA ShiftOnce ==
  ASSUME NEW s \in Nat, NEW p \in Nat \ {0}, Shifted(s, p)
  PROVE  Shifted(s + 1, 2 * p)
  <1> SUFFICES ASSUME NEW m \in Mantissas, Reaches(m, 2 * p) PROVE Becomes(m, s + 1, 2 * p)
    BY Zenon DEF Shifted
  <1>0. m \in Nat \ {0} /\ 1024 <= m * (2 * p) /\ m * (2 * p) < 2048
    BY SMT DEF Mantissas, Reaches
  <1> DEFINE n == 2 * m
             t == n * p
  <1>1. n * p = m * (2 * p) /\ n <= n * p
    <2>1. (p - 1) * n \in Nat
      BY SMT, <1>0
    <2>2. (p - 1) * n = n * p - n
      BY SMT, <1>0
    <2> QED
      BY SMT, <1>0, <2>1, <2>2
  <1>2. n \in 1 .. 2047 /\ m \in 1 .. 1023 /\ n = 2 * m
    BY SMT, <1>0, <1>1
  <1>3. t \in Nat /\ 1024 <= t /\ t < 2048 /\ t = m * (2 * p)
    BY SMT, <1>0, <1>1
  <1> HIDE DEF n
  <1>4. Normalised(n) = Float(113 - s, (t - 1024) * 8192)
    <2>1. n \in Mantissas /\ Reaches(n, p)
      BY SMT, <1>2, <1>3 DEF Mantissas, Reaches
    <2>2. Becomes(n, s, p)
      BY Zenon, <2>1 DEF Shifted
    <2> QED
      BY SMT, <2>2 DEF Becomes
  <1> HIDE DEF t
  <1>5. Normalised(m) = Lower(Normalised(n))
    BY SMT, <1>2, NormalisedIs
  <1>6. Normalised(m) = Float(113 - s - 1, (t - 1024) * 8192)
    BY SMT, <1>4, <1>5 DEF Float, Lower
  <1>7. 113 - s - 1 = 113 - (s + 1)
    BY SMT
  <1> QED
    BY SMT, <1>3, <1>6, <1>7 DEF Becomes

\* The shifts are those of the unit that p is of.
Doubles(s, p) == s \in 1 .. 10 /\ p \in Nat \ {0} /\ Shifted(s, p) /\ Pow(13 + s) = p * 8192
Subnormals == 1 .. 1023

LEMMA SubnormalBack ==
  ASSUME NEW m \in Subnormals, NEW s, NEW p, Doubles(s, p), Reaches(m, p)
  PROVE  ToHalf(Normalised(m)) = m
  <1> DEFINE t == m * p
             exp == 113 - s
             mant == (t - 1024) * 8192
             u == p * 8192
  <1>0. /\ m \in 1 .. 1023 /\ s \in 1 .. 10 /\ p \in Nat \ {0}
        /\ 1024 <= m * p /\ m * p < 2048 /\ Pow(13 + s) = p * 8192
    BY SMT DEF Doubles, Reaches, Subnormals
  <1>s. Shifted(s, p) /\ m \in Mantissas
    BY SMT DEF Doubles, Subnormals, Mantissas
  <1>1. t \in Nat /\ 1024 <= t /\ t < 2048 /\ m \in Nat
    BY SMT, <1>0
  <1>2. Normalised(m) = Float(exp, mant)
    <2>1. Becomes(m, s, p)
      <3> HIDE DEF t
      <3> QED
        BY Zenon, <1>s DEF Shifted
    <2> QED
      BY SMT, <2>1 DEF Becomes
  <1>3. mant \in Nat /\ exp \in Int /\ exp - 112 \in -10 .. 0 /\ 126 - exp = 13 + s
        /\ mant + 8388608 = t * 8192
    <2> HIDE DEF t
    <2> QED
      BY SMT, <1>0, <1>1
  <1>4. t * 8192 = m * u /\ u \in Nat \ {0}
    BY SMT, <1>0
  <1>5. Pow(13 + s) = u
    BY SMT, <1>0
  <1> HIDE DEF t, exp, mant, u
  <1>6. ToHalf(Float(exp, mant)) = RoundHalf(mant + 8388608, Pow(126 - exp))
    BY SMT, <1>3, ToHalfIs
  <1>7. RoundHalf(m * u, u) = m
    BY SMT, <1>1, <1>4, RoundExact
  <1> QED
    BY SMT, <1>1, <1>2, <1>3, <1>4, <1>5, <1>6, <1>7

\* Lines 34-36 reach the hidden bit after one to ten shifts.
LEMMA ShiftsAre ==
  /\ Doubles(1, 2)
  /\ Doubles(2, 4)
  /\ Doubles(3, 8)
  /\ Doubles(4, 16)
  /\ Doubles(5, 32)
  /\ Doubles(6, 64)
  /\ Doubles(7, 128)
  /\ Doubles(8, 256)
  /\ Doubles(9, 512)
  /\ Doubles(10, 1024)
  <1>0. Shifted(0, 1)
    <2> SUFFICES ASSUME NEW m \in Mantissas, Reaches(m, 1) PROVE Becomes(m, 0, 1)
      BY Zenon DEF Shifted
    <2>1. m \in 1024 .. 2047 /\ m * 1 = m /\ 113 - 0 = 113
      BY SMT DEF Mantissas, Reaches
    <2> QED
      BY SMT, <2>1, NormalisedIs DEF Becomes
  <1>1. Shifted(1, 2)
    <2>1. 0 + 1 = 1 /\ 2 * 1 = 2 /\ 0 \in Nat /\ 1 \in Nat \ {0}
      BY SMT
    <2>2. Shifted(0 + 1, 2 * 1)
      BY SMT, <1>0, <2>1, ShiftOnce
    <2> QED
      BY SMT, <2>1, <2>2
  <1>2. Shifted(2, 4)
    <2>1. 1 + 1 = 2 /\ 2 * 2 = 4 /\ 1 \in Nat /\ 2 \in Nat \ {0}
      BY SMT
    <2>2. Shifted(1 + 1, 2 * 2)
      BY SMT, <1>1, <2>1, ShiftOnce
    <2> QED
      BY SMT, <2>1, <2>2
  <1>3. Shifted(3, 8)
    <2>1. 2 + 1 = 3 /\ 2 * 4 = 8 /\ 2 \in Nat /\ 4 \in Nat \ {0}
      BY SMT
    <2>2. Shifted(2 + 1, 2 * 4)
      BY SMT, <1>2, <2>1, ShiftOnce
    <2> QED
      BY SMT, <2>1, <2>2
  <1>4. Shifted(4, 16)
    <2>1. 3 + 1 = 4 /\ 2 * 8 = 16 /\ 3 \in Nat /\ 8 \in Nat \ {0}
      BY SMT
    <2>2. Shifted(3 + 1, 2 * 8)
      BY SMT, <1>3, <2>1, ShiftOnce
    <2> QED
      BY SMT, <2>1, <2>2
  <1>5. Shifted(5, 32)
    <2>1. 4 + 1 = 5 /\ 2 * 16 = 32 /\ 4 \in Nat /\ 16 \in Nat \ {0}
      BY SMT
    <2>2. Shifted(4 + 1, 2 * 16)
      BY SMT, <1>4, <2>1, ShiftOnce
    <2> QED
      BY SMT, <2>1, <2>2
  <1>6. Shifted(6, 64)
    <2>1. 5 + 1 = 6 /\ 2 * 32 = 64 /\ 5 \in Nat /\ 32 \in Nat \ {0}
      BY SMT
    <2>2. Shifted(5 + 1, 2 * 32)
      BY SMT, <1>5, <2>1, ShiftOnce
    <2> QED
      BY SMT, <2>1, <2>2
  <1>7. Shifted(7, 128)
    <2>1. 6 + 1 = 7 /\ 2 * 64 = 128 /\ 6 \in Nat /\ 64 \in Nat \ {0}
      BY SMT
    <2>2. Shifted(6 + 1, 2 * 64)
      BY SMT, <1>6, <2>1, ShiftOnce
    <2> QED
      BY SMT, <2>1, <2>2
  <1>8. Shifted(8, 256)
    <2>1. 7 + 1 = 8 /\ 2 * 128 = 256 /\ 7 \in Nat /\ 128 \in Nat \ {0}
      BY SMT
    <2>2. Shifted(7 + 1, 2 * 128)
      BY SMT, <1>7, <2>1, ShiftOnce
    <2> QED
      BY SMT, <2>1, <2>2
  <1>9. Shifted(9, 512)
    <2>1. 8 + 1 = 9 /\ 2 * 256 = 512 /\ 8 \in Nat /\ 256 \in Nat \ {0}
      BY SMT
    <2>2. Shifted(8 + 1, 2 * 256)
      BY SMT, <1>8, <2>1, ShiftOnce
    <2> QED
      BY SMT, <2>1, <2>2
  <1>10. Shifted(10, 1024)
    <2>1. 9 + 1 = 10 /\ 2 * 512 = 1024 /\ 9 \in Nat /\ 512 \in Nat \ {0}
      BY SMT
    <2>2. Shifted(9 + 1, 2 * 512)
      BY SMT, <1>9, <2>1, ShiftOnce
    <2> QED
      BY SMT, <2>1, <2>2
  <1>11. Doubles(1, 2)
    <2>1. Pow(14) = 2 * 8192
      BY SMT DEF Pow
    <2>2. 13 + 1 = 14
      BY SMT
    <2>3. 1 \in 1 .. 10 /\ 2 \in Nat \ {0}
      BY SMT
    <2> QED
      BY SMT, <1>1, <2>1, <2>2, <2>3 DEF Doubles
  <1>12. Doubles(2, 4)
    <2>1. Pow(15) = 4 * 8192
      BY SMT DEF Pow
    <2>2. 13 + 2 = 15
      BY SMT
    <2>3. 2 \in 1 .. 10 /\ 4 \in Nat \ {0}
      BY SMT
    <2> QED
      BY SMT, <1>2, <2>1, <2>2, <2>3 DEF Doubles
  <1>13. Doubles(3, 8)
    <2>1. Pow(16) = 8 * 8192
      BY SMT DEF Pow
    <2>2. 13 + 3 = 16
      BY SMT
    <2>3. 3 \in 1 .. 10 /\ 8 \in Nat \ {0}
      BY SMT
    <2> QED
      BY SMT, <1>3, <2>1, <2>2, <2>3 DEF Doubles
  <1>14. Doubles(4, 16)
    <2>1. Pow(17) = 16 * 8192
      BY SMT DEF Pow
    <2>2. 13 + 4 = 17
      BY SMT
    <2>3. 4 \in 1 .. 10 /\ 16 \in Nat \ {0}
      BY SMT
    <2> QED
      BY SMT, <1>4, <2>1, <2>2, <2>3 DEF Doubles
  <1>15. Doubles(5, 32)
    <2>1. Pow(18) = 32 * 8192
      BY SMT DEF Pow
    <2>2. 13 + 5 = 18
      BY SMT
    <2>3. 5 \in 1 .. 10 /\ 32 \in Nat \ {0}
      BY SMT
    <2> QED
      BY SMT, <1>5, <2>1, <2>2, <2>3 DEF Doubles
  <1>16. Doubles(6, 64)
    <2>1. Pow(19) = 64 * 8192
      BY SMT DEF Pow
    <2>2. 13 + 6 = 19
      BY SMT
    <2>3. 6 \in 1 .. 10 /\ 64 \in Nat \ {0}
      BY SMT
    <2> QED
      BY SMT, <1>6, <2>1, <2>2, <2>3 DEF Doubles
  <1>17. Doubles(7, 128)
    <2>1. Pow(20) = 128 * 8192
      BY SMT DEF Pow
    <2>2. 13 + 7 = 20
      BY SMT
    <2>3. 7 \in 1 .. 10 /\ 128 \in Nat \ {0}
      BY SMT
    <2> QED
      BY SMT, <1>7, <2>1, <2>2, <2>3 DEF Doubles
  <1>18. Doubles(8, 256)
    <2>1. Pow(21) = 256 * 8192
      BY SMT DEF Pow
    <2>2. 13 + 8 = 21
      BY SMT
    <2>3. 8 \in 1 .. 10 /\ 256 \in Nat \ {0}
      BY SMT
    <2> QED
      BY SMT, <1>8, <2>1, <2>2, <2>3 DEF Doubles
  <1>19. Doubles(9, 512)
    <2>1. Pow(22) = 512 * 8192
      BY SMT DEF Pow
    <2>2. 13 + 9 = 22
      BY SMT
    <2>3. 9 \in 1 .. 10 /\ 512 \in Nat \ {0}
      BY SMT
    <2> QED
      BY SMT, <1>9, <2>1, <2>2, <2>3 DEF Doubles
  <1>20. Doubles(10, 1024)
    <2>1. Pow(23) = 1024 * 8192
      BY SMT DEF Pow
    <2>2. 13 + 10 = 23
      BY SMT
    <2>3. 10 \in 1 .. 10 /\ 1024 \in Nat \ {0}
      BY SMT
    <2> QED
      BY SMT, <1>10, <2>1, <2>2, <2>3 DEF Doubles
  <1> QED
    BY Zenon, <1>11, <1>12, <1>13, <1>14, <1>15, <1>16, <1>17, <1>18, <1>19, <1>20

LEMMA SubnormalsComeBack ==
  ASSUME NEW m \in Subnormals
  PROVE  ToHalf(Normalised(m)) = m
  <1>1. CASE Reaches(m, 2)
    <2>1. Doubles(1, 2)
      BY SMT, ShiftsAre
    <2> QED
      BY SMT, <1>1, <2>1, SubnormalBack
  <1>2. CASE Reaches(m, 4)
    <2>1. Doubles(2, 4)
      BY SMT, ShiftsAre
    <2> QED
      BY SMT, <1>2, <2>1, SubnormalBack
  <1>3. CASE Reaches(m, 8)
    <2>1. Doubles(3, 8)
      BY SMT, ShiftsAre
    <2> QED
      BY SMT, <1>3, <2>1, SubnormalBack
  <1>4. CASE Reaches(m, 16)
    <2>1. Doubles(4, 16)
      BY SMT, ShiftsAre
    <2> QED
      BY SMT, <1>4, <2>1, SubnormalBack
  <1>5. CASE Reaches(m, 32)
    <2>1. Doubles(5, 32)
      BY SMT, ShiftsAre
    <2> QED
      BY SMT, <1>5, <2>1, SubnormalBack
  <1>6. CASE Reaches(m, 64)
    <2>1. Doubles(6, 64)
      BY SMT, ShiftsAre
    <2> QED
      BY SMT, <1>6, <2>1, SubnormalBack
  <1>7. CASE Reaches(m, 128)
    <2>1. Doubles(7, 128)
      BY SMT, ShiftsAre
    <2> QED
      BY SMT, <1>7, <2>1, SubnormalBack
  <1>8. CASE Reaches(m, 256)
    <2>1. Doubles(8, 256)
      BY SMT, ShiftsAre
    <2> QED
      BY SMT, <1>8, <2>1, SubnormalBack
  <1>9. CASE Reaches(m, 512)
    <2>1. Doubles(9, 512)
      BY SMT, ShiftsAre
    <2> QED
      BY SMT, <1>9, <2>1, SubnormalBack
  <1>10. CASE Reaches(m, 1024)
    <2>1. Doubles(10, 1024)
      BY SMT, ShiftsAre
    <2> QED
      BY SMT, <1>10, <2>1, SubnormalBack
  <1> QED
    BY SMT, <1>1, <1>2, <1>3, <1>4, <1>5, <1>6, <1>7, <1>8, <1>9, <1>10 DEF Reaches, Subnormals

\* The halves that are numbers.
Numbers == 0 .. 31743

LEMMA HalvesComeBack ==
  ASSUME NEW h \in Numbers
  PROVE  ComesBack(h)
  <1> DEFINE e == h \div 1024
             mant == h % 1024
             f == mant * 8192
  <1>0. 2^13 = 8192
    BY SMT
  <1>1. e \in 0 .. 30 /\ mant \in 0 .. 1023 /\ h = e * 1024 + mant /\ h \in Nat
    <2>1. h \in Nat /\ h <= 31743
      BY SMT DEF Numbers
    <2> QED
      BY SMT, <2>1
  <1>2. ToFloat(h) = CASE e = 0 /\ mant = 0 -> Float(0, 0)
                       [] e = 0 /\ mant # 0 -> Normalised(mant)
                       [] e = 31 -> Float(255, mant * 8192)
                       [] OTHER -> Float(e + 112, mant * 8192)
    BY SMT, <1>0 DEF ToFloat
  <1>3. f \in Nat
    BY SMT, <1>1
  <1> HIDE DEF e, mant
  <1>4. CASE e = 0 /\ mant = 0
    <2>1. ToFloat(h) = Float(0, 0) /\ h = 0
      BY SMT, <1>1, <1>2, <1>4
    <2>2. ToHalf(Float(0, 0)) = 0
      BY SMT, ToHalfIs
    <2> QED
      BY SMT, <2>1, <2>2 DEF ComesBack
  <1>5. CASE e = 0 /\ mant # 0
    <2>1. h = mant /\ mant \in Subnormals
      BY SMT, <1>1, <1>5 DEF Subnormals
    <2>2. ToHalf(Normalised(mant)) = mant
      BY SMT, <2>1, SubnormalsComeBack
    <2>3. ToFloat(h) = Normalised(mant)
      BY SMT, <1>2, <1>5
    <2> QED
      BY SMT, <2>1, <2>2, <2>3 DEF ComesBack
  <1>6. CASE e # 0
    <2> DEFINE x == e + 112
    <2>1. ToFloat(h) = Float(x, f)
      BY SMT, <1>1, <1>2, <1>6
    <2>2. x \in Int /\ x - 112 \in 1 .. 30 /\ x - 112 = e
      BY SMT, <1>1, <1>6
    <2>3. e * 8388608 + f = h * 8192 /\ h \in Nat /\ 8192 \in Nat \ {0}
      BY SMT, <1>1
    <2> HIDE DEF f, x
    <2>4. ToHalf(Float(x, f)) = RoundHalf((x - 112) * 8388608 + f, 8192)
      BY SMT, <1>3, <2>2, ToHalfIs
    <2>5. RoundHalf(h * 8192, 8192) = h
      BY SMT, <2>3, RoundExact
    <2> QED
      BY SMT, <2>1, <2>2, <2>3, <2>4, <2>5 DEF ComesBack
  <1> QED
    BY SMT, <1>4, <1>5, <1>6

\* The halves of the checks are numbers.
LEMMA HalvesAreNumbers == \A h \in Halves : h \in Numbers
  <1> DEFINE last == 31743
  <1>1. last \in Nat /\ \A h \in Halves : h \in Nat /\ h <= last
    BY SMT, HalvesAssumption
  <1>2. Numbers = 0 .. last
    BY SMT DEF Numbers
  <1> HIDE DEF last
  <1> QED
    BY SMT, <1>1, <1>2

\* What the forward pass multiplies with is the weights of the file, for blocks of
\* any even size and any weights, every scale that is not far below the smallest
\* half, every half, and products of any shape (the block formats, the conversions
\* and the matrix products of src/kernels.c).
THEOREM WeightsComeBack == Spec => []WeightsSurvive
  <1>1. \A f \in Floats : IsNearest(f)
    <2> SUFFICES ASSUME NEW f \in Floats PROVE IsNearest(f)
      OBVIOUS
    <2>1. f = Float(f.exp, f.mant) /\ f.exp \in 100 .. 143 /\ f.mant \in Fractions
      <3>1. 2^23 = 8388608
        BY SMT
      <3> QED
        BY SMT, FloatsAssumption, <3>1 DEF Fractions
    <2>2. IsNearest(Float(f.exp, f.mant))
      BY SMT, <2>1, ScalesAreNearest
    <2> QED
      BY SMT, <2>1, <2>2
  <1>2. \A h \in Halves : ComesBack(h)
    <2> SUFFICES ASSUME NEW h \in Halves PROVE ComesBack(h)
      OBVIOUS
    <2>1. h \in Numbers
      BY Zenon, HalvesAreNumbers
    <2> QED
      BY SMT, <2>1, HalvesComeBack
  <1>3. \A m \in Products(MaxBlocks, MaxRows, MaxBatch) : ProductsAreRows(m)
    <2> SUFFICES ASSUME NEW m \in Products(MaxBlocks, MaxRows, MaxBatch) PROVE ProductsAreRows(m)
      OBVIOUS
    <2>0. MaxBlocks \in Nat /\ MaxRows \in Nat /\ MaxBatch \in Nat
      BY Zenon, BoundsAssumption
    <2>1. MaxBlocks * QBlock \in Nat
      BY <2>0, BlockAssumption
    <2>2. OfCells(m)
      BY <2>0, <2>1 DEF Products, OfCells
    <2> QED
      BY <2>2, ProductsMatch
  <1>4. WeightsSurvive
    BY <1>1, <1>2, <1>3, BlocksComeBack DEF WeightsSurvive
  <1> QED
    BY <1>4, PTL
=============================================================================
