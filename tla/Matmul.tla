------------------------------- MODULE Matmul -------------------------------
(***************************************************************************)
(* The matrix products of src/kernels.c: which weights meet which          *)
(* activations, and where the sums go.  Prefill multiplies a batch of B    *)
(* tokens at once, decoding one; the pool's threads share the rows.        *)
(*                                                                         *)
(* Memory is addresses: w and x are arrays of numbers, w row by row and x  *)
(* token by token, and a quantized array has one cell per block.  A sum is *)
(* the sequence of the pairs it adds up, so that two equal sums are equal  *)
(* to the last bit.                                                        *)
(***************************************************************************)
EXTENDS Integers, FiniteSets, QuantBlock

\* Products: their encoding, the length of a row, the rows and the tokens; the
\* rows of a quantized matrix are whole blocks.
Products(maxBlocks, maxRows, maxBatch) ==
    {m \in [quantized : BOOLEAN, n_in : 1 .. maxBlocks * QBlock,
            d_out : 1 .. maxRows, B : 1 .. maxBatch] :
        m.quantized => m.n_in % QBlock = 0}

\* Numbers of a cell, and cells of a row.
Unit(m) == IF m.quantized THEN QBlock ELSE 1
CellsPerRow(m) == m.n_in \div Unit(m)

\* x itself, or xq: where the numbers of each cell come from.  Token b is
\* quantized from x + b * n_in to xq + b * nb.
Activations(m) ==
    LET nb == CellsPerRow(m) IN
    [c \in 0 .. m.B * nb - 1 |-> (c \div nb) * m.n_in + (c % nb) * Unit(m)]

\* dot_f32, vecdot_q8 and vecdot_q4 over the row at cell w and the token at cell x.
Dot(m, w, x) ==
    [e \in 0 .. m.n_in - 1 |->
        LET j == e \div Unit(m)  r == e % Unit(m) IN
        << (w + j) * Unit(m) + r, Activations(m)[x + j] + r >>]

\* What row i writes: mm_rows for one token, mmb_rows for a batch.
MmRow(m, i) == {<<i, Dot(m, i * CellsPerRow(m), 0)>>}

\* Mutant: the results of a batch lie n_in cells apart.
MmbRowWide(m, i) ==
    {<<b * m.n_in + i, Dot(m, i * CellsPerRow(m), b * CellsPerRow(m))>> : b \in 0 .. m.B - 1}

MmbRow(m, i) ==
    {<<b * m.d_out + i, Dot(m, i * CellsPerRow(m), b * CellsPerRow(m))>> : b \in 0 .. m.B - 1}

\* ember_matmul_batch and ember_matmul: every row once, on whatever thread.
Batch(m) == UNION {MmbRow(m, i) : i \in 0 .. m.d_out - 1}
Single(m) == UNION {MmRow(m, i) : i \in 0 .. m.d_out - 1}

\* No two rows, and so no two threads, write the same cell and none is left out;
\* cell b * d_out + i is row i times token b, term by term the sum that decoding
\* computes for the token alone.
ProductsAreRows(m) ==
    LET batch == Batch(m)
        alone == Single([m EXCEPT !.B = 1]) IN
    /\ Cardinality(batch) = m.B * m.d_out
    /\ {w[1] : w \in batch} = 0 .. m.B * m.d_out - 1
    /\ \A b \in 0 .. m.B - 1, i \in 0 .. m.d_out - 1 :
          LET row == [e \in 0 .. m.n_in - 1 |-> <<i * m.n_in + e, b * m.n_in + e>>] IN
          /\ <<b * m.d_out + i, row>> \in batch
          /\ <<i, [e \in DOMAIN row |-> <<row[e][1], e>>]>> \in alone
=============================================================================
