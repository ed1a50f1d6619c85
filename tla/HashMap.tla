------------------------------- MODULE HashMap -------------------------------
(***************************************************************************)
(* The string hash map of src/tokenizer.c: open addressing, linear         *)
(* probing, no removal, no growth.  A map is the number of its hash       *)
(* function and its slots, counted from 0.                                 *)
(***************************************************************************)
EXTENDS Integers, FiniteSets, FiniteSetsExt

CONSTANTS MinCap,      \* the smallest capacity: 16 in the code
          Hash(_, _)   \* Hash(h, key): what fnv1a may be, one function for each h

Free == [val |-> -1]

\* hmap_init: a power of two times MinCap, at least twice what is wanted.
HmapInit(want, hash) ==
    LET cap[c \in Nat] == IF c < 2 * want THEN cap[2 * c] ELSE c
    IN  [hash |-> hash, e |-> [s \in 0 .. cap[MinCap] - 1 |-> Free]]

Cap(m) == Cardinality(DOMAIN m.e)

\* The slot that is probed n steps behind a key's own.
Probe(m, key, n) == (Hash(m.hash, key) + n) % Cap(m)

Holds(m, s, key) == m.e[s] # Free /\ m.e[s].key = key

\* Mutant: the key alone is looked for, behind its own slot and up to the end.
FindUpToEnd(m, key) ==
    LET here == {s \in Hash(m.hash, key) % Cap(m) .. Cap(m) - 1 : m.e[s] = Free \/ Holds(m, s, key)}
    IN  IF here = {} THEN Cap(m) - 1 ELSE Min(here)

\* Where probing ends: the first slot that is free or holds the key.
Find(m, key) ==
    Probe(m, key, Min({n \in 0 .. Cap(m) - 1 :
                          m.e[Probe(m, key, n)] = Free \/ Holds(m, Probe(m, key, n), key)}))

HmapPut(m, key, val) == [m EXCEPT !.e[Find(m, key)] = [key |-> key, val |-> val]]
HmapGet(m, key) == m.e[Find(m, key)].val
=============================================================================
