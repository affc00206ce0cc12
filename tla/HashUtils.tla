----------------------------- MODULE HashUtils -----------------------------
(***************************************************************************)
(* HashUtils (src/src/utils/hash_utils.cpp) as the project builds it.      *)
(* hash_utils.h does not include xxhash.h, so XXHASH_H is never defined    *)
(* and xxhash is the fallback loop, djb2: hash = hash * 33 + c from 5381,  *)
(* over the bytes as signed chars, in uint64_t arithmetic.                 *)
(*                                                                         *)
(* A string is a sequence of char values.  The 64-bit result is computed   *)
(* modulo 2^w: since 2^w divides 2^64, this is exactly the low w bits of   *)
(* the code's hash.  TLC's integers hold h * 33 + 127 for w <= 25.         *)
(***************************************************************************)
EXTENDS Integers, SequencesExt

\* for (char c : data) hash = ((hash << 5) + hash) + c;  from hash = 5381.
Xxhash(data, w) ==
    FoldLeft(LAMBDA h, c : (h * 33 + c) % (2 ^ w), 5381 % (2 ^ w), data)

\* hash_url and hash_content both return xxhash of their argument.
HashUrl(url, w) == Xxhash(url, w)

HashContent(content, w) == Xxhash(content, w)

=============================================================================
