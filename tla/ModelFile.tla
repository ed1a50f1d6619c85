----------------------------- MODULE ModelFile ------------------------------
(***************************************************************************)
(* The .ember file from the tools that write it to the forward pass that   *)
(* reads it: write_ember of tools/convert.py, ember_quantize_file of       *)
(* src/quant.c, ember_model_load of src/io.c, and ember_state_new_ex of    *)
(* src/model.c, which resolves the tensors by name.                        *)
(*                                                                         *)
(* A file is its header, its tensor table, where the writer put each piece *)
(* and how many bytes of it there are: a killed writer, a full disk or a   *)
(* download that stopped leaves a prefix.  Sizes and offsets are the real  *)
(* ones; what the bytes of a piece are is left out, but for the encoding.  *)
(***************************************************************************)
EXTENDS Integers, Sequences, FiniteSets, FiniteSetsExt, Matmul, HalfFloat

CONSTANTS Archs,         \* records [dim, hidden, vocab, tied, bias] of models
          TokSizes,      \* the sizes of tokenizer blobs
          MaxBlocks, MaxRows, MaxBatch,   \* bounds of the products looked at
          Floats, Halves                 \* the scales looked at

ASSUME ArchAssumption ==
    /\ \A a \in Archs : /\ a.dim \in Nat \ {0, 1} /\ a.hidden \in Nat \ {0, 1}
                        /\ a.vocab \in Nat \ {0, 1} /\ {a.tied, a.bias} \subseteq BOOLEAN
    /\ TokSizes \subseteq Nat

ASSUME BoundsAssumption == {MaxBlocks, MaxRows, MaxBatch} \subseteq Nat

\* Scales from well below the smallest half, which are rounded to zero, to the
\* first that are infinite.
ASSUME FloatsAssumption ==
    \A f \in Floats : /\ f = Float(f.exp, f.mant) /\ f.exp \in 100 .. 143
                     /\ f.mant \in Nat /\ f.mant < 2^23

\* Halves that are numbers.
ASSUME HalvesAssumption == \A h \in Halves : h \in Nat /\ h < 31 * 1024

HeaderSize == 256
TensorSize == 88
EMBER_Q_BLOCK == 32

\* The dtypes of tensors.
Dtypes == {"F32", "Q8_0", "Q4_0"}

Bytes(dtype, rows, cols) ==
    CASE dtype = "F32" -> rows * cols * 4
      [] dtype = "Q8_0" -> rows * (cols \div EMBER_Q_BLOCK) * 34
      [] dtype = "Q4_0" -> rows * (cols \div EMBER_Q_BLOCK) * 18

-----------------------------------------------------------------------------
(* What the forward pass needs of a model, in the order of the converter:  *)
(* which tensors, their rows and columns and what reads them.              *)

Tensor(name, rows, cols, use) == [name |-> name, rows |-> rows, cols |-> cols, use |-> use]

Bias(a) == IF a.bias THEN << Tensor("wq_bias", a.dim, 1, "optional") >> ELSE <<>>
LmHead(a) == IF a.tied THEN <<>> ELSE << Tensor("lm_head", a.vocab, a.dim, "matmul") >>

\* The tensors of a model of one layer.
Tensors(a) ==
    << Tensor("tok_embeddings", a.vocab, a.dim, "embed"),
       Tensor("attn_norm", a.dim, 1, "norm"),
       Tensor("wq", a.dim, a.dim, "matmul") >> \o Bias(a) \o
    << Tensor("ffn_norm", a.dim, 1, "norm"),
       Tensor("w1", a.hidden, a.dim, "matmul"),
       Tensor("w2", a.dim, a.hidden, "matmul"),
       Tensor("final_norm", a.dim, 1, "norm") >> \o LmHead(a)

\* What an F32 writer stages: the tensors with their sizes in bytes.
Staged(a) == [i \in DOMAIN Tensors(a) |->
                LET t == Tensors(a)[i] IN
                [name |-> t.name, rows |-> t.rows, cols |-> t.cols, dtype |-> "F32",
                 nbytes |-> Bytes("F32", t.rows, t.cols)]]

-----------------------------------------------------------------------------
(* Writing a file. *)

AlignUp(x, a) == ((x + a - 1) \div a) * a

\* Padding goes forward only: what is written behind p lands at p or at o.
PadTo(p, o) == Max({p, o})

\* The offsets of the tensors' data, each aligned to 64 bytes.
Offsets(start, out) ==
    LET off[i \in DOMAIN out] ==
          AlignUp(IF i = 1 THEN start ELSE off[i - 1] + out[i - 1].nbytes, 64)
    IN off

\* Where the data is written, one after another.
Positions(start, off, out) ==
    LET at[i \in DOMAIN out] ==
          PadTo(IF i = 1 THEN start ELSE at[i - 1] + out[i - 1].nbytes, off[i])
    IN at

\* The header says where tokenizer and table are; table_at and at are where they
\* and the data were written.
Written(tok, out) ==
    LET n == Len(out)
        table_off == AlignUp(HeaderSize + tok, 8)
        table_at == PadTo(HeaderSize + tok, table_off)
        data_start == AlignUp(table_off + n * TensorSize, 64)
        off == Offsets(data_start, out)
        at == Positions(PadTo(table_at + n * TensorSize, data_start), off, out)
    IN [tok_off |-> HeaderSize, tok_size |-> tok,
        table_off |-> table_off, table_at |-> table_at, n_tensors |-> n,
        table |-> [i \in 1 .. n |->
                     [name |-> out[i].name, dtype |-> out[i].dtype, rows |-> out[i].rows,
                      cols |-> out[i].cols, nbytes |-> out[i].nbytes, offset |-> off[i]]],
        at |-> at,
        total |-> at[n] + out[n].nbytes]

\* A writer may stop at any byte; those around the ends of pieces tell all
\* cases apart.
CutPoints(f) ==
    LET ends == {HeaderSize, HeaderSize + f.tok_size, f.table_at,
                 f.table_at + f.n_tensors * TensorSize}
                \cup {f.at[i] : i \in DOMAIN f.at}
                \cup {f.at[i] + f.table[i].nbytes : i \in DOMAIN f.at}
    IN {n \in {0} \cup UNION {{e - 1, e, e + 1} : e \in ends} : n <= f.total}

-----------------------------------------------------------------------------
VARIABLES pc,            \* "start", "file", or how using the file ended
          arch,          \* the model
          file,          \* the file, as its writer meant it
          size           \* how many of its bytes there are

vars == <<pc, arch, file, size>>

\* The tensors of the model, in no order.
TensorSet == {Tensors(arch)[i] : i \in DOMAIN Tensors(arch)}

Init == /\ pc = "start"
        /\ arch \in Archs
        /\ file = <<>>
        /\ size = 0

\* write_ember
Convert(tok) ==
    /\ pc = "start"
    /\ file' = Written(tok, Staged(arch))
    /\ size' \in CutPoints(file')
    /\ pc' = "file"
    /\ UNCHANGED arch

\* ember_model_load, lines 34-60.
Loads == /\ size >= HeaderSize
         /\ file.table_off <= size
         /\ file.n_tensors * TensorSize <= size - file.table_off
         /\ file.tok_off <= size /\ file.tok_size <= size - file.tok_off

\* ember_model_data finds the whole of t inside the file.
HasData(t) == t.offset + t.nbytes <= size

\* Mutant: every matrix takes the target encoding.
WantTarget(target, t) == target

\* The encoding asked for: the embedding and output tables stay at Q8_0.
Want(target, t) ==
    IF target = "Q4_0" /\ t.name \in {"tok_embeddings", "lm_head"} THEN "Q8_0" ELSE target

\* quantize_tensor: matrices whose rows are whole blocks; what is quantized
\* already is copied through.
OutTensor(target, t) ==
    LET dtype == IF t.dtype = "F32" /\ t.rows > 1 /\ t.cols > 1 /\ t.cols % EMBER_Q_BLOCK = 0
                 THEN Want(target, t) ELSE t.dtype
    IN [name |-> t.name, dtype |-> dtype, rows |-> t.rows, cols |-> t.cols,
        nbytes |-> Bytes(dtype, t.rows, t.cols)]

\* ember_quantize_file: a tensor cut off in the input is copied from NULL.
Quantize(target) ==
    /\ pc = "file"
    /\ IF ~Loads THEN pc' = "refused" /\ UNCHANGED <<file, size>>
       ELSE IF \E i \in DOMAIN file.table : ~HasData(file.table[i])
       THEN pc' = "crashed" /\ UNCHANGED <<file, size>>
       ELSE /\ file' = Written(file.tok_size,
                                [i \in DOMAIN file.table |-> OutTensor(target, file.table[i])])
            /\ size' \in CutPoints(file')
            /\ pc' = "file"
    /\ UNCHANGED arch

\* The output is the input: fopen truncates the file under the mapping, and the
\* tokenizer blob is read from what is no longer there.
QuantizeInPlace ==
    /\ pc = "file"
    /\ Loads /\ \A i \in DOMAIN file.table : HasData(file.table[i])
    /\ file.tok_size > 0
    /\ size' = 0
    /\ UNCHANGED <<pc, arch, file>>

\* ember_model_tensor: the first entry of the name, 0 when there is none.
Lookup(name) ==
    LET found == {i \in DOMAIN file.table : file.table[i].name = name} IN
    IF found = {} THEN 0 ELSE Min(found)

\* tref: the tensor is there, and so is all of its data.
Resolves(name) == Lookup(name) # 0 /\ HasData(file.table[Lookup(name)])

\* Mutant: only the tensors of the layers are required.
RequiredOfLayers == {t.name : t \in {u \in TensorSet : u.use # "optional"}}
                       \ {"tok_embeddings", "final_norm", "lm_head"}

\* The tensors the forward pass dereferences without asking, lines 163-171.
Required == {t.name : t \in {u \in TensorSet : u.use # "optional"}}

\* Loading for a run: ember_model_load and ember_state_new_ex.
Open == /\ pc = "file"
        /\ pc' = IF ~Loads THEN "refused"
                 ELSE IF \A name \in Required : Resolves(name) THEN "ready"
                 ELSE "died"
        /\ UNCHANGED <<arch, file, size>>

\* The process has ended.
Ended == pc \in {"refused", "crashed", "died", "ready"} /\ UNCHANGED vars

Next == \/ \E tok \in TokSizes : Convert(tok)
        \/ \E target \in Dtypes : Quantize(target)
        \/ QuantizeInPlace
        \/ Open \/ Ended

Spec == Init /\ [][Next]_vars

-----------------------------------------------------------------------------
(* Properties *)

\* A file that lacks any byte of a piece is never run: it is refused, missing a
\* tensor, or the quantizer does not come through (io.c:47-49 "the forward pass
\* can trust its pointers"), although the data of tensors is not compared with
\* the file until each is looked up, and optional ones are passed over.
CutFileIsNotRun == pc = "ready" => size = file.total

\* How the forward pass reads a tensor: embed_row knows F32 and takes the rest
\* for Q8_0, the matrix products take what is neither F32 nor Q8_0 for Q4_0, and
\* norms and biases are taken for F32.
ReadAs(use, dtype) ==
    CASE use = "embed" -> IF dtype = "F32" THEN "F32" ELSE "Q8_0"
      [] use = "matmul" -> IF dtype \in {"F32", "Q8_0"} THEN dtype ELSE "Q4_0"
      [] OTHER -> "F32"

\* Every tensor the forward pass reads is the one that was written for it: at its
\* offset, aligned, in the encoding the reader takes it for, and as large as the
\* rows the reader will ask for, after any number of quantizations.
ReadsFindTheirTensor ==
    pc = "ready" =>
        /\ file.table_at = file.table_off
        /\ \A t \in TensorSet :
              LET k == Lookup(t.name)  e == file.table[k] IN
              /\ file.at[k] = e.offset /\ e.offset % 64 = 0
              /\ ReadAs(t.use, e.dtype) = e.dtype
              /\ Bytes(e.dtype, t.rows, t.cols) = e.nbytes
        /\ arch.tied => LET e == file.table[Lookup("tok_embeddings")] IN
              ReadAs("matmul", e.dtype) = e.dtype

\* What the forward pass multiplies with is the weights of the file: a quantized
\* block gives the block back, to the step of its scale; the scale is the nearest half,
\* and a half is read back as it is; and the products, of one token or of a batch,
\* take every row and every token from where they lie.
WeightsSurvive ==
    pc = "start" => /\ \A x \in Block : BlocksAreClose(x)
                    /\ \A f \in Floats : IsNearest(f)
                    /\ \A h \in Halves : ComesBack(h)
                    /\ \A m \in Products(MaxBlocks, MaxRows, MaxBatch) : ProductsAreRows(m)
=============================================================================
