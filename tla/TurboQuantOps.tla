---------------------------- MODULE TurboQuantOps ----------------------------
(***************************************************************************)
(* The TurboQuant codec of the Ascend KV cache                              *)
(* (vllm_ascend/quantization/methods/turboquant_ops.py): 4-bit Lloyd-Max    *)
(* indices, packed two to a byte, and the fp16 norm of the vector, for the  *)
(* key and the value of a token and head side by side in one slot.          *)
(*                                                                         *)
(* A vector is what the random rotation leaves of it: its coordinates y, as *)
(* integers in some fixed-point scale, and its norm, as the int16 with the  *)
(* bits of the fp16. Normalising and rotating are not modelled.             *)
(***************************************************************************)
EXTENDS Integers, Sequences, FiniteSets

MSE_BITS == 4

\* The bits of the norms there are: fp16 numbers without a sign.
MaxNorm == 32767

Norms == 0 .. MaxNorm

mse_bytes(D) == (D * MSE_BITS + 7) \div 8

per_vector(D) == mse_bytes(D) + 2

compute_paper_slot_size(D) ==
    LET slot == 2 * per_vector(D) IN slot + (slot % 2)
-----------------------------------------------------------------------------
(* Bit packing *)

pack_4bit(indices) ==
    [i \in 1 .. Len(indices) \div 2 |->
       (indices[2 * i - 1] % 16) + 16 * (indices[2 * i] % 16)]

unpack_4bit(packed, D) ==
    [j \in 1 .. D |->
       IF j % 2 = 1 THEN packed[(j + 1) \div 2] % 16
       ELSE (packed[j \div 2] \div 16) % 16]

\* The int16 with the low 16 bits of n.
int16(n) == IF n % 65536 < 32768 THEN n % 65536 ELSE (n % 65536) - 65536

fp16_to_bytes(h) == <<h % 256, (h \div 256) % 256>>

\* The second byte is shifted in 16 bits: it brings the sign back.
bytes_to_fp16(b) == b[1] + int16(256 * b[2])
-----------------------------------------------------------------------------
(* Scalar quantisation. centroids is sorted, as solve_lloyd_max makes it. *)

\* Decision boundaries, in half units of the coordinates.
compute_midpoints(centroids) ==
    [i \in 1 .. Len(centroids) - 1 |-> centroids[i] + centroids[i + 1]]

below(y, midpoints) == {i \in DOMAIN midpoints : midpoints[i] < 2 * y}

\* torch.bucketize: the number of boundaries below y.
bucketize(y, midpoints) == Cardinality(below(y, midpoints))

\* Variant: a coordinate goes to the centroid above it.
quantize_up(y, centroids) ==
    LET n == Cardinality({i \in DOMAIN centroids : centroids[i] < y})
    IN  IF n > Len(centroids) - 1 THEN Len(centroids) - 1 ELSE n

\* The index (from 0) of a coordinate, clamped to the centroids there are.
quantize(y, centroids) ==
    LET n == bucketize(y, compute_midpoints(centroids))
    IN  IF n > Len(centroids) - 1 THEN Len(centroids) - 1 ELSE n

indices(vector, centroids) ==
    [j \in DOMAIN vector.y |-> quantize(vector.y[j], centroids)]

_quantize_single_vector(vector, centroids) ==
    pack_4bit(indices(vector, centroids)) \o fp16_to_bytes(vector.norm)

\* The key, then the value.
slot_data(key, value, centroids) ==
    _quantize_single_vector(key, centroids) \o _quantize_single_vector(value, centroids)

\* What dequant_paged_kv reads of a slot, for the vector at this offset.
read_vector(slot, offset, D) ==
    LET norm == offset + mse_bytes(D)
    IN  [indices |-> unpack_4bit(SubSeq(slot, offset + 1, norm), D),
         norm    |-> bytes_to_fp16(SubSeq(slot, norm + 1, norm + 2))]

\* Variant: the value is read where the key's norm is.
read_slot_early(slot, D) ==
    [key |-> read_vector(slot, 0, D), value |-> read_vector(slot, mse_bytes(D), D)]

read_slot(slot, D) ==
    [key |-> read_vector(slot, 0, D), value |-> read_vector(slot, per_vector(D), D)]
-----------------------------------------------------------------------------
(* What the codec promises *)

IsSorted(c) == \A i, j \in DOMAIN c : i <= j => c[i] <= c[j]

Distance(a, b) == IF a < b THEN b - a ELSE a - b

Nearest(y, centroids) ==
    \A k \in DOMAIN centroids :
      Distance(y, centroids[quantize(y, centroids) + 1]) <= Distance(y, centroids[k])

quantized(vector, centroids) == [indices |-> indices(vector, centroids), norm |-> vector.norm]
=============================================================================
