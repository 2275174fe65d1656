------------------------------ MODULE PcValue ------------------------------
(***************************************************************************)
(* The tables from PCs to values of src/pcvaluetab, in Go's varint form and *)
(* in the alternate "linear index" form, and the lookups in both.  A byte   *)
(* has W bits: 8 in the code, fewer here, so that a byte, a chunk of PCs    *)
(* and the offsets into the data reach their limits in small tables.  A     *)
(* byte of lengths is the tuple of the lengths' two-bit codes.  Sequences   *)
(* start at 1, offsets at 0.                                                *)
(***************************************************************************)
EXTENDS Integers, Sequences, SequencesExt, FiniteSets, FiniteSetsExt

CONSTANT W

B == 2^W                        \* a byte, and the PCs of a chunk
MaxByte == B - 1

-----------------------------------------------------------------------------
(* symtab.go *)

\* A table [pcs, vals, textLen] from its varint form: pairs of a value delta
\* and a PC delta.
decodeVarintPCData(raw) ==
  LET add(acc, d) == [pc |-> acc.pc + d[2], val |-> acc.val + d[1],
                      pcs |-> Append(acc.pcs, acc.pc), vals |-> Append(acc.vals, acc.val + d[1])]
      end == FoldLeft(add, [pc |-> 0, val |-> -1, pcs |-> <<>>, vals |-> <<>>], raw)
  IN  [pcs |-> end.pcs, vals |-> end.vals, textLen |-> end.pc]

Lookup(tab, pc) ==
  LET after == {i \in DOMAIN tab.pcs : tab.pcs[i] > pc}
  IN  IF after = {} THEN Last(tab.vals) ELSE tab.vals[Min(after) - 1]

step(at, d) == [pc |-> at.pc + d[2], val |-> at.val + d[1]]

\* Without the cache: the first pair whose PC is beyond pc ends the search.
lookupVarintPCData(raw, pc) ==
  LET at(k) == FoldLeft(step, [pc |-> 0, val |-> -1], SubSeq(raw, 1, k))
  IN  at(Min({k \in DOMAIN raw : pc < at(k).pc})).val

-----------------------------------------------------------------------------
(* alt.go *)

Digits(v, n) == [i \in 1..n |-> (v \div B^(i - 1)) % B]

\* Slip: off by one at the largest value of a byte.
Code_inclusive(v) == IF -(B \div 2) <= v /\ v <= B \div 2 THEN 1 ELSE IF -(B^2 \div 2) <= v /\ v < B^2 \div 2 THEN 2 ELSE 3

\* encodeValue: the code of the length, and the bytes.
Code(v) == IF -(B \div 2) <= v /\ v < B \div 2 THEN 1 ELSE IF -(B^2 \div 2) <= v /\ v < B^2 \div 2 THEN 2 ELSE 3
Length(code) == IF code = 3 THEN 4 ELSE code
count0124(codes) == FoldLeft(LAMBDA a, c : a + Length(c), 0, codes)

\* Two bits for each value, four values to a byte.
encodeGroup(vals) ==
  LET code(i) == IF i \in DOMAIN vals THEN Code(vals[i]) ELSE 0
      bytes == (2 * Len(vals) + 7) \div 8
  IN  [k \in 1..bytes |-> [j \in 1..4 |-> code(4 * (k - 1) + j)]]
      \o FlattenSeq([i \in DOMAIN vals |-> Digits(vals[i], Length(Code(vals[i])))])

\* One chunk: acc holds the data, the index and the constant chunks so far.
Chunk(tab, acc, c) ==
  LET in == {i \in DOMAIN tab.pcs : tab.pcs[i] \div B = c}
      explicit == {i \in in : tab.pcs[i] % B # 0}
      before == {i \in DOMAIN tab.pcs : tab.pcs[i] <= c * B}
      start == IF before = {} THEN -1 ELSE tab.vals[Max(before)]
      is == [k \in 1..Cardinality(explicit) |-> Min(explicit) + k - 1]
      here == Len(acc.data)
      known == {k \in acc.const : k[1] = start}
      index(off) == IF c = 0 THEN acc.index ELSE Append(acc.index, off)
  IN  IF explicit = {} /\ known # {}
      THEN [acc EXCEPT !.index = Append(@, (CHOOSE k \in known : TRUE)[2])]
      ELSE [data |-> acc.data \o <<Len(is)>> \o [k \in DOMAIN is |-> tab.pcs[is[k]] % B]
                     \o encodeGroup(<<start>> \o [k \in DOMAIN is |-> tab.vals[is[k]] - start]),
            index |-> index(here),
            const |-> IF explicit = {} THEN acc.const \cup {<<start, here>>} ELSE acc.const]

indexSize(index) ==
  IF \E i \in DOMAIN index : index[i] > B^2 - 1 THEN 4
  ELSE IF \E i \in DOMAIN index : index[i] > MaxByte \/ (i = 1 /\ index[i] >= MaxByte - 1) THEN 2 ELSE 1

Chunks(textLen) == (textLen + B - 1) \div B

linearIndex(tab) ==
  LET all == FoldLeft(LAMBDA acc, c : Chunk(tab, acc, c - 1), [data |-> <<>>, index |-> <<>>, const |-> {}],
                      [c \in 1..Chunks(tab.textLen) |-> c])
      size == indexSize(all.index)
      marker == IF size = 1 THEN <<>> ELSE IF size = 2 THEN <<MaxByte - 1>> ELSE <<MaxByte>>
  IN  marker \o FlattenSeq([i \in DOMAIN all.index |-> Digits(all.index[i], size)]) \o all.data

\* n bytes from offset off, as an unsigned or a signed number.
Unsigned(data, off, n) == FoldLeft(LAMBDA a, i : a + data[off + i] * B^(i - 1), 0, [i \in 1..n |-> i])
Signed(data, off, n) ==
  LET u == Unsigned(data, off, n) IN IF u >= B^n \div 2 THEN u - B^n ELSE u

chunkOffset(data, chunks, id) ==
  LET entry(base, size) == base + (chunks - 1) * size + (IF id = 0 THEN 0 ELSE Unsigned(data, base + (id - 1) * size, size))
  IN  IF chunks = 1 THEN 0
      ELSE IF data[1] < MaxByte - 1 THEN entry(0, 1)
      ELSE IF data[1] = MaxByte - 1 THEN entry(1, 2)
      ELSE entry(1, 4)

\* The count n of PCs is a byte: 1 + n wraps around at the largest n, and
\* slicing fails.
lookupLinearIndex(data, textLen, pc) ==
  LET off == chunkOffset(data, Chunks(textLen), pc \div B)
      n == data[off + 1]
      after == {i \in 1..n : data[off + 1 + i] > pc % B}
      index == IF after = {} THEN n ELSE Min(after) - 1
      lensOff == off + 1 + n
      groupBytes == (2 * ((n + 1) % B) + 7) \div 8
      codes == FlattenSeq(SubSeq(data, lensOff + 1, lensOff + groupBytes))
      valsOff == lensOff + groupBytes
      bias == Signed(data, valsOff, Length(codes[1]))
      valOff == valsOff + count0124(SubSeq(codes, 1, index))
  IN  IF (n + 1) % B = 0 THEN <<>>
      ELSE IF index = 0 THEN <<bias>>
      ELSE <<Signed(data, valOff, Length(codes[index + 1])) + bias>>

-----------------------------------------------------------------------------
\* The varint form of the tables: changes at increasing PCs, to other values.
Raws(pcs, vals, n) ==
  {raw \in UNION {[1..k -> vals \X pcs] : k \in 1..n} : \A i \in 2..Len(raw) : raw[i][1] # 0}

\* The check that main makes with debugCheckDecode: the alternate form gives the
\* value of the original at every PC, unless every PC of a chunk but the first
\* starts a new value, where the lookup fails.  The search in the varint form
\* gives the same.
LookupsAgree(raw) ==
  LET tab == decodeVarintPCData(raw)
      alt == linearIndex(tab)
      full(c) == \A pc \in (c * B + 1)..(c * B + MaxByte) : \E i \in DOMAIN tab.pcs : tab.pcs[i] = pc
  IN  \A pc \in 0..(tab.textLen - 1) :
        /\ lookupVarintPCData(raw, pc) = Lookup(tab, pc)
        /\ lookupLinearIndex(alt, tab.textLen, pc)
             = IF full(pc \div B) THEN <<>> ELSE <<Lookup(tab, pc)>>
=============================================================================
