------------------------------- MODULE RsaArith -------------------------------
(***************************************************************************)
(* The arithmetic of RSA keys (oxicrypt-rsa): Montgomery contexts and      *)
(* exponentiation, the search for primes, the private exponent and the CRT *)
(* components derived from two primes, and exponentiation with them.  All  *)
(* three key sizes run the same algorithms; here a word has WordBits bits  *)
(* in place of 64, a prime HalfWords words and a modulus twice as many, so *)
(* that every value of the reduced width can be tried.  Sums and products  *)
(* wrap at the width of the type that holds them.                          *)
(***************************************************************************)
EXTENDS Integers, FiniteSets

CONSTANTS
  WordBits,     \* bits of a word (64), at least 2
  HalfWords,    \* words of a prime (16, 24 or 32)
  NewtonRounds, \* steps of the inversion of a word: 2^NewtonRounds >= WordBits (6)
  NibbleBits,   \* bits of a window of the secret exponent (4)
  SMALL_PRIMES  \* the primes of the sieve

Word == 2^WordBits
HalfWidth == Word^HalfWords          \* 2^1024 for RSA-2048
FullWidth == HalfWidth * HalfWidth   \* 2^2048

\* The type of words-many words: 2^(64 * words).
WidthOf(words) == Word^words

\* ct_sub_if_ge
ReduceOnce(x, m) == IF x >= m THEN x - m ELSE x

\* MontCtx::new takes an odd modulus with its top bit set.
IsModulus(n, words) == n % 2 = 1 /\ 2 * n >= WidthOf(words) /\ n < WidthOf(words)

\* -n^-1 modulo a word, by Newton's iteration on the lowest word.
NPrime(n) ==
  LET inv[k \in 0..NewtonRounds] ==
        IF k = 0 THEN 1 ELSE (inv[k-1] * ((2 - (n % Word) * inv[k-1]) % Word)) % Word
  IN (0 - inv[NewtonRounds]) % Word

\* R^2 mod n: R mod n doubled once per bit, the carry out of the type taken into account.
RSquared(n, words) ==
  LET R == WidthOf(words)
      acc[k \in 0..WordBits * words] ==
        IF k = 0 THEN R - n
        ELSE LET doubled == (2 * acc[k-1]) % R
                 carry == (2 * acc[k-1]) \div R
             IN IF carry = 1 \/ doubled >= n THEN (doubled - n) % R ELSE doubled
  IN acc[WordBits * words]

MontCtx(n, words) ==
  [n |-> n, words |-> words, nPrime |-> NPrime(n), one |-> WidthOf(words) - n,
   r2 |-> RSquared(n, words)]

\* mont_mul: word by word, a multiple of n clears the lowest word, which is shifted out.
MontMul(c, a, b) ==
  LET R == WidthOf(c.words)
      t[i \in 0..c.words] ==
        IF i = 0 THEN 0
        ELSE LET sum == t[i-1] + a * ((b \div Word^(i-1)) % Word)
                 m == ((sum % Word) * c.nPrime) % Word
             IN (sum + m * c.n) \div Word
      low == t[c.words] % R
  IN IF t[c.words] >= R THEN (low - c.n) % R ELSE ReduceOnce(low, c.n)

ToMont(c, x) == MontMul(c, x, c.r2)
FromMont(c, x) == MontMul(c, x, 1)

\* pow_public: square and multiply from the bit below the exponent's top one.
PowPublic(c, base, exp) ==
  LET b == ToMont(c, base)
      acc[e \in Nat] ==
        IF e = 1 THEN b
        ELSE LET sq == MontMul(c, acc[e \div 2], acc[e \div 2])
             IN IF e % 2 = 1 THEN MontMul(c, sq, b) ELSE sq
  IN IF exp = 0 THEN 1 ELSE FromMont(c, acc[exp])

\* pow_secret: a fixed window, the table entry of a zero window is multiplied too.
PowSecret(c, base, exp) ==
  LET window == 2^NibbleBits
      table[i \in 0..window-1] == IF i = 0 THEN c.one
                                  ELSE IF i = 1 THEN ToMont(c, base)
                                  ELSE MontMul(c, table[i-1], table[1])
      nibbles == (WordBits * c.words) \div NibbleBits
      power[x \in Nat, k \in 0..NibbleBits] == IF k = 0 THEN x
                                               ELSE LET y == power[x, k-1] IN MontMul(c, y, y)
      acc[i \in 0..nibbles] ==
        IF i = 0 THEN c.one
        ELSE MontMul(c, power[acc[i-1], NibbleBits],
                     table[(exp \div window^(nibbles - i)) % window])
  IN FromMont(c, acc[nibbles])

-----------------------------------------------------------------------------

HasSmallFactor(p) == \E sp \in SMALL_PRIMES : p % sp = 0

\* sample_candidate: the top two bits and the lowest one of the drawn bytes are set.
Candidate(drawn) ==
  LET low == drawn % (HalfWidth \div 4)
  IN 3 * (HalfWidth \div 4) + (IF low % 2 = 0 THEN low + 1 ELSE low)

\* One round of miller_rabin with the witness a, 2 <= a <= n - 2.
WitnessAccepts(n, a) ==
  LET split[d \in Nat] == IF d % 2 = 1 THEN <<d, 0>> ELSE <<split[d \div 2][1], split[d \div 2][2] + 1>>
      d == split[n - 1][1]
      s == split[n - 1][2]
      c == MontCtx(n, HalfWords)
      x[k \in 0..s] == IF k = 0 THEN PowPublic(c, a, d)
                       ELSE LET m == ToMont(c, x[k-1]) IN FromMont(c, MontMul(c, m, m))
  IN \/ x[0] \in {1, n - 1}
     \/ \E k \in 1..s-1 : x[k] = n - 1 /\ \A j \in 1..k-1 : x[j] # 1

\* gen_probable_prime keeps a candidate: sieve, exponent, Miller-Rabin.
Acceptable(p, e, witnesses) ==
  /\ ~HasSmallFactor(p)
  /\ (p - 1) % e # 0
  /\ \A a \in witnesses : WitnessAccepts(p, a)

\* u2048_mod_u1024: shift and subtract, the bit shifted out of the half width kept.
HalfMod(a, m) ==
  LET bits == 2 * WordBits * HalfWords
      acc[k \in 0..bits] ==
        IF k = 0 THEN 0
        ELSE LET twice == 2 * acc[k-1] + ((a \div 2^(bits - k)) % 2)
                 shifted == twice % HalfWidth
             IN IF twice >= HalfWidth \/ shifted >= m THEN (shifted - m) % HalfWidth ELSE shifted
  IN acc[bits]

\* The extended Euclidean chain on (e, r0): gcd and both coefficients.
Bezout(e, r0) ==
  LET chain[oldR \in Nat, r \in Nat, oldS \in Int, s \in Int, oldT \in Int, t \in Int] ==
        IF r = 0 THEN [gcd |-> oldR, s |-> oldS, t |-> oldT]
        ELSE LET q == oldR \div r
             IN chain[r, oldR - q * r, s, oldS - q * s, t, oldT - q * t]
  IN chain[e, r0, 1, 0, 0, 1]

\* Fault: a value above the modulus is taken for a negative one.
IsNegative_AboveModulus(x, m) == x >= m

\* is_u2048_negative: the top bit is the sign.
IsNegative(x, m) == 2 * x >= FullWidth

NoInverse == -1

\* modinv_small_e
ModInverse(e, m) ==
  LET q0 == m \div e
      r0 == m % e
      b == Bezout(e, r0)
      step == (b.s - b.t * q0) % FullWidth \* the two cases of the sign of t, wrapping
      reduced == IF IsNegative(step, m) THEN (step + m) % FullWidth ELSE step
  IN IF e = 0 \/ m = 0 \/ r0 = 0 \/ b.gcd # 1 THEN NoInverse ELSE ReduceOnce(reduced, m)

\* generate_2048_internal from its two primes on.
KeyMaterial(p, q, e) ==
  LET d == ModInverse(e, (p - 1) * (q - 1))
      c == MontCtx(p, HalfWords)
  IN [n |-> p * q, p |-> p, q |-> q, d |-> d,
      dp |-> HalfMod(d, p - 1), dq |-> HalfMod(d, q - 1),
      qinv |-> PowPublic(c, IF q < p THEN q ELSE q - p, p - 2)]

\* Garner's recombination.
Recombine(k, yp, yq) ==
  LET c == MontCtx(k.p, HalfWords)
      yqModP == IF yq < k.p THEN yq ELSE yq - k.p
      diff == IF yp < yqModP THEN (((yp + k.p) % HalfWidth) - yqModP) % HalfWidth ELSE yp - yqModP
      h == FromMont(c, MontMul(c, ToMont(c, k.qinv), ToMont(c, diff)))
  IN (yq + k.q * h) % FullWidth

NoResult == -1

\* rsa_crt_2048_private_exp_internal
CrtExp(k, e, x) ==
  LET n == MontCtx(k.n, 2 * HalfWords)
      yp == PowSecret(MontCtx(k.p, HalfWords), HalfMod(x, k.p), k.dp)
      yq == PowSecret(MontCtx(k.q, HalfWords), HalfMod(x, k.q), k.dq)
      y == Recombine(k, yp, yq)
  IN IF ~IsModulus(k.n, 2 * HalfWords) \/ x >= k.n \/ PowPublic(n, y, e) # x THEN NoResult ELSE y

-----------------------------------------------------------------------------

\* The definitions the algorithms are compared with.
IsPrime(n) == n > 1 /\ \A k \in 2..n-1 : n % k # 0

PowerMod(base, exp, n) ==
  LET acc[k \in 0..exp] == IF k = 0 THEN 1 % n ELSE (acc[k-1] * base) % n
  IN acc[exp]

\* For a modulus and an operand of the half width, products and powers in Montgomery form
\* are those of the integers: no carry is lost although the top bit of a modulus is set.
MontgomeryAgrees(n, a) ==
  LET c == MontCtx(n, HalfWords)
  IN IsModulus(n, HalfWords) /\ a < n =>
       /\ \A b \in 0..n-1 :
            LET r == MontMul(c, a, b) IN r < n /\ (r * HalfWidth - a * b) % n = 0
       /\ \A exp \in 0..9 : PowPublic(c, a, exp) = PowerMod(a, exp, n)
       /\ \A exp \in {0, 1, n - 2} : PowSecret(c, a, exp) = PowerMod(a, exp, n)

\* A prime passes Miller-Rabin with every witness; three witnesses in four catch a composite.
WitnessesDecide(n) ==
  LET accepting == {a \in 2..n-2 : WitnessAccepts(n, a)}
  IN IsModulus(n, HalfWords) =>
       IF IsPrime(n) THEN accepting = 2..n-2 ELSE 4 * Cardinality(accepting) < n

\* The key material of two primes is that of one RSA key, and the checked exponentiation
\* with it never refuses a representative and gives its d-th power.
KeyAgrees(p, q, e) ==
  LET k == KeyMaterial(p, q, e)
      phi == (p - 1) * (q - 1)
  IN /\ k.d \in 1..phi-1 /\ (k.d * e) % phi = 1
     /\ k.dp = k.d % (p - 1) /\ k.dq = k.d % (q - 1) /\ (k.qinv * q) % p = 1
     /\ \A x \in {0, 1, 2, p, q, k.n \div 3, k.n - 1} :
          LET y == CrtExp(k, e, x)
          IN y \in 0..k.n-1 /\ y % p = PowerMod(x % p, k.dp, p) /\ y % q = PowerMod(x % q, k.dq, q)
=============================================================================
