------------------------------- MODULE HashHeads -------------------------------
(***************************************************************************)
(* How Qwen3_8FlashNextNGramEmbedding.__init__ lays out one table of rows  *)
(* for the hash heads of a layer: every head hashes modulo a prime of its  *)
(* own and has as many rows, one head after the other, rounded up to a     *)
(* multiple of Divisor.  Heads and layers count from 0.                    *)
(*                                                                         *)
(* _is_prime_64 is taken for what it computes on 64-bit numbers.           *)
(***************************************************************************)
EXTENDS Integers, FiniteSetsExt

CONSTANTS
  Heads,      \* ngram_heads, of every layer
  VocabBase,  \* ngram_vocab_size_base
  Divisor     \* make_ngram_vocab_size_divisible_by

ASSUME HeadsAssumption ==
  Heads \in Nat \ {0} /\ VocabBase \in Nat \ {0} /\ Divisor \in Nat \ {0}

IsPrime(n) == n >= 2 /\ \A d \in 2 .. (n - 1) : n % d # 0

(* There is a prime between n and 2n, so the search ends. *)
NthPrimeAfter(start, count) ==
  LET prime[k \in 0 .. count] ==
        IF k = 0 THEN start
        ELSE LET p == prime[k - 1] IN Min({c \in (p + 1) .. (2 * p + 2) : IsPrime(c)})
  IN  prime[count]

HeadSize(layer, head) == NthPrimeAfter(VocabBase - 1, layer * Heads + head + 1)

HeadOffset(layer, head) ==
  LET offset[h \in 0 .. Heads] ==
        IF h = 0 THEN 0 ELSE offset[h - 1] + HeadSize(layer, h - 1)
  IN  offset[head]

CeilDiv(a, b) == (a + b - 1) \div b

TableRows(layer) == CeilDiv(HeadOffset(layer, Heads), Divisor) * Divisor

-----------------------------------------------------------------------------
(* The multipliers of the hash.  A limit of 2^63 - 1 is the code's; TLC's  *)
(* integers are smaller, so it is a parameter.                             *)

HalfBound(limit, vocab) ==
  LET half == (limit \div vocab) \div 2 IN IF half > 1 THEN half ELSE 1

(* A multiplier, from the 64 random bits of splitmix64. *)
Multiplier(limit, vocab, bits) == 2 * (bits % HalfBound(limit, vocab)) + 1

(* A token is hashed by its product with a multiplier. *)
Product(limit, vocab, bits, token) == token * Multiplier(limit, vocab, bits)

=============================================================================
