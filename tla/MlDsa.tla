-------------------------------- MODULE MlDsa --------------------------------
(***************************************************************************)
(* ML-DSA (oxicrypt-ml-dsa): rounding and hints modulo the real q, the     *)
(* encodings that have a canonical form, and key generation, signing with  *)
(* its rejections and verification over polynomials of N coefficients in   *)
(* place of 256.                                                           *)
(*                                                                         *)
(* Coefficients are residues: every value is reduced before it is compared *)
(* or encoded, and the Montgomery products are those of the residues.  The *)
(* hashes are a parameter: Hash takes a sequence of numbers, the first of  *)
(* which names the use, to a number.                                       *)
(***************************************************************************)
EXTENDS Integers, Sequences, FiniteSets

CONSTANTS
  N,              \* coefficients of a polynomial (256): a power of two up to 8
  K, L,           \* rows and columns of the matrix
  TAU, ETA,       \* weight of a challenge, size of a secret coefficient
  GAMMA1, GAMMA2, \* size of the mask; half a rounding bin, (q-1)/32 or (q-1)/88
  BETA, OMEGA,    \* what a challenge adds to a secret; hints of one signature
  MaxIters,       \* attempts at one signature (1000)
  Hash(_)         \* SHAKE-128 and SHAKE-256

Q == 8380417
D == 13 \* bits that Power2Round drops

\* Number i of what a hash expands.
Squeeze(input, i) == Hash(input \o <<i>>)

\* The uses of the hash.
ForA == 1
ForSecret == 2
ForTr == 3
ForMu == 4
ForRhoPP == 5
ForMask == 6
ForChallenge == 7
ForBall == 8

Vector(n, f(_)) == <<>> \o [i \in 1..n |-> f(i - 1)]
VecK(f(_), v) == Vector(K, LAMBDA i : f(v[i + 1]))
VecL(f(_), v) == Vector(L, LAMBDA i : f(v[i + 1]))

Centered(x) == IF x > (Q - 1) \div 2 THEN x - Q ELSE x

-----------------------------------------------------------------------------
(* field.rs and ntt.rs                                                     *)

\* reduce32: one approximate quotient, one conditional addition.
reduce32(a) ==
  LET r == a - ((a + 4194304) \div 8388608) * Q
  IN IF r < 0 THEN r + Q ELSE r

\* A product modulo q, seven bits of a factor at a time.
MulMod(a, b) ==
  LET x == a % Q
      digit(i) == ((b % Q) \div 128^(4 - i)) % 128
      acc[i \in 0..4] == IF i = 0 THEN 0 ELSE (128 * acc[i-1] + x * digit(i)) % Q
  IN acc[4]

\* R^-1 modulo q, R = 2^32.
RInverse == 8265825

fqmul(a, b) == MulMod(MulMod(a, b), RInverse)

\* The first factors; a transform of N coefficients uses those from 1 to N - 1.
ZETAS == <<-4186625, 25847, -2608894, -518909, 237124, -777960, -876248, 466468>>

\* F: R^2 by the number of coefficients; 41978 for 256 of them.
Scaling == MulMod(41978, 256 \div N)

\* One layer of butterflies, len apart; block b uses the factor first + b.
NttLayer(r, len) ==
  LET t(i) == fqmul(ZETAS[N \div (2 * len) + i \div (2 * len) + 1], r[i + 1])
  IN Vector(N, LAMBDA i : IF (i \div len) % 2 = 0 THEN (r[i + 1] + t(i + len)) % Q
                          ELSE (r[i - len + 1] - t(i)) % Q)

ntt(r) ==
  LET layer[len \in 1..N] == IF len = N THEN r ELSE NttLayer(layer[2 * len], len)
  IN layer[1]

InverseLayer(r, len) ==
  LET zeta(i) == -ZETAS[N \div len - 1 - i \div (2 * len) + 1]
  IN Vector(N, LAMBDA i : IF (i \div len) % 2 = 0 THEN (r[i + 1] + r[i + len + 1]) % Q
                          ELSE fqmul(zeta(i), r[i - len + 1] - r[i + 1]))

inv_ntt(r) ==
  LET layer[len \in 1..N] == IF len = 1 THEN InverseLayer(r, 1)
                             ELSE InverseLayer(layer[len \div 2], len)
  IN Vector(N, LAMBDA i : fqmul(layer[N \div 2][i + 1], Scaling))

MapPoly(f(_), p) == Vector(N, LAMBDA i : f(p[i + 1]))
pointwise_mul(a, b) == Vector(N, LAMBDA i : fqmul(a[i + 1], b[i + 1]))
add_assign(a, b) == Vector(N, LAMBDA i : (a[i + 1] + b[i + 1]) % Q)
sub_assign(a, b) == Vector(N, LAMBDA i : (a[i + 1] - b[i + 1]) % Q)
AddK(a, b) == Vector(K, LAMBDA i : add_assign(a[i + 1], b[i + 1]))
SubK(a, b) == Vector(K, LAMBDA i : sub_assign(a[i + 1], b[i + 1]))

\* matrix_pointwise_mul
MatrixMul(a, s) ==
  LET row(i) == LET acc[j \in 1..L] == LET x == pointwise_mul(a[i][j], s[j])
                                       IN IF j = 1 THEN x ELSE add_assign(acc[j-1], x)
                IN acc[L]
  IN Vector(K, LAMBDA i : row(i + 1))

\* check_norm: a coefficient reaches the bound.
check_norm(v, bound) ==
  \E i \in DOMAIN v : \E j \in DOMAIN v[i] :
    LET c == Centered(v[i][j] % Q) IN c >= bound \/ -c >= bound

-----------------------------------------------------------------------------
(* Rounding and hints                                                      *)

power2round(r) == LET r1 == (r + 4095) \div 8192 IN <<r1, r - r1 * 8192>>

decompose(r) ==
  LET x == (r + 127) \div 128
      r1 == IF GAMMA2 = (Q - 1) \div 32
            THEN ((x * 1025 + 2097152) \div 4194304) % 16
            ELSE LET y == (x * 11275 + 8388608) \div 16777216 IN IF y > 43 THEN 0 ELSE y
  IN <<r1, Centered(r - r1 * 2 * GAMMA2)>>

make_hint(a0, a1) ==
  IF a0 < -GAMMA2 \/ a0 > GAMMA2 \/ (a0 = -GAMMA2 /\ a1 # 0) THEN 1 ELSE 0

\* Rounding bins of the residues.
Bins == (Q - 1) \div (2 * GAMMA2)

use_hint(h, r) ==
  LET d == decompose(r)
  IN IF h = 0 THEN d[1] ELSE IF d[2] > 0 THEN (d[1] + 1) % Bins ELSE (d[1] + Bins - 1) % Bins

-----------------------------------------------------------------------------
(* Sampling                                                                *)

\* rej_ntt_poly: 23-bit candidates; those below q are taken.
rej_ntt_poly(seed) ==
  LET taken == SelectSeq([k \in 1..2 * N |-> Squeeze(seed, k) % 8388608], LAMBDA t : t < Q)
  IN SubSeq(taken, 1, N)

expand_a(rho) == Vector(K, LAMBDA i : Vector(L, LAMBDA j : rej_ntt_poly(<<ForA, rho, j, i>>)))

\* rej_bounded_poly: half bytes; those below the threshold are taken.
rej_bounded_poly(seed) ==
  LET bound == IF ETA = 2 THEN 15 ELSE 9
      taken == SelectSeq([k \in 1..8 * N |-> Squeeze(seed, k) % 16], LAMBDA t : t < bound)
  IN Vector(N, LAMBDA i : ETA - (IF ETA = 2 THEN taken[i + 1] % 5 ELSE taken[i + 1]))

expand_s(sigma) ==
  <<Vector(L, LAMBDA r : rej_bounded_poly(<<ForSecret, sigma, r>>)),
    Vector(K, LAMBDA r : rej_bounded_poly(<<ForSecret, sigma, L + r>>))>>

sample_mask_poly(seed, counter) ==
  Vector(N, LAMBDA i : GAMMA1 - (Squeeze(<<ForMask, seed, counter>>, i) % (2 * GAMMA1)))

\* The counter of each mask of an attempt.
MaskCounter(kappa, r, columns) == kappa * columns + r

expand_mask(seed, kappa) ==
  Vector(L, LAMBDA r : sample_mask_poly(seed, MaskCounter(kappa, r, L)))

\* sample_in_ball: the last TAU places, each swapped with one drawn at or below it.
sample_in_ball(seed) ==
  LET signs == Squeeze(<<ForBall, seed>>, 0)
      drawn(k) == Squeeze(<<ForBall, seed>>, k) % N
      ball[s \in 0..TAU] ==
        IF s = 0 THEN [c |-> Vector(N, LAMBDA i : 0), pos |-> 1]
        ELSE LET b == ball[s-1]
                 i == N - TAU + s - 1
                 at == CHOOSE k \in b.pos..b.pos + 8 * N :
                         drawn(k) <= i /\ \A k2 \in b.pos..k-1 : drawn(k2) > i
                 j == drawn(at)
                 sign == IF (signs \div 2^(s - 1)) % 2 = 0 THEN 1 ELSE Q - 1
             IN [c |-> [b.c EXCEPT ![i + 1] = b.c[j + 1], ![j + 1] = sign], pos |-> at + 1]
  IN ball[TAU].c

-----------------------------------------------------------------------------
(* The encoding of hints                                                   *)

\* A hint that cannot be written, or that is not taken.
Rejected == <<>>

\* pack_hint: the places of every polynomial in order, then where each polynomial's end.
pack_hint(h) ==
  LET places(i) == SelectSeq([j \in 1..N |-> j - 1], LAMBDA j : h[i][j + 1] # 0)
      joined[i \in 0..K] == IF i = 0 THEN <<>> ELSE joined[i-1] \o places(i)
      all == joined[K]
  IN IF Len(all) > OMEGA THEN Rejected
     ELSE all \o [x \in 1..OMEGA - Len(all) |-> 0] \o [i \in 1..K |-> Len(joined[i])]

\* unpack_hint: ends that rise, places that rise in each polynomial, zeros behind the last.
unpack_hint(buf) ==
  LET end(i) == IF i = 0 THEN 0 ELSE buf[OMEGA + i]
      ordered == \A i \in 1..K :
        /\ end(i) >= end(i - 1) /\ end(i) <= OMEGA
        /\ \A k \in end(i-1)+1..end(i) :
             buf[k] < N /\ (k > end(i-1) + 1 => buf[k] > buf[k-1])
  IN IF ordered /\ \A k \in end(K)+1..OMEGA : buf[k] = 0
     THEN Vector(K, LAMBDA i : Vector(N, LAMBDA j :
            IF \E k \in end(i)+1..end(i+1) : buf[k] = j THEN 1 ELSE 0))
     ELSE Rejected

-----------------------------------------------------------------------------
(* Keys, signatures, verification                                          *)

Flat(vs) ==
  LET acc[i \in 0..Len(vs)] == IF i = 0 THEN <<>> ELSE acc[i-1] \o vs[i]
  IN acc[Len(vs)]

TrOf(pk) == Hash(<<ForTr, pk.rho>> \o Flat(pk.t1))

ml_dsa_keygen(xi) ==
  LET s == expand_s(xi)
      product == MatrixMul(expand_a(xi), VecL(ntt, s[1]))
      t == AddK(VecK(inv_ntt, product), s[2])
      rounded == VecK(LAMBDA p : MapPoly(power2round, p), t)
      part(k) == VecK(LAMBDA p : MapPoly(LAMBDA r : r[k], p), rounded)
      pk == [rho |-> xi, t1 |-> part(1)]
  IN [pk |-> pk, sk |-> [rho |-> xi, key |-> xi, tr |-> TrOf(pk), s1 |-> s[1], s2 |-> s[2],
                         t0 |-> part(2)]]

ChallengeOf(mu, w1) == Hash(<<ForChallenge, mu>> \o Flat(w1))

\* One pass of the signing loop: a signature, or the check that rejects the candidate.
Attempt(sk, mu, seed, kappa) ==
  LET y == expand_mask(seed, kappa)
      product == MatrixMul(expand_a(sk.rho), VecL(ntt, y))
      w == VecK(LAMBDA p : MapPoly(decompose, p), VecK(inv_ntt, product))
      w1 == VecK(LAMBDA p : MapPoly(LAMBDA r : r[1], p), w)
      w0 == VecK(LAMBDA p : MapPoly(LAMBDA r : r[2], p), w)
      ctilde == ChallengeOf(mu, w1)
      c == ntt(sample_in_ball(ctilde))
      times(p) == inv_ntt(pointwise_mul(c, ntt(p)))
      z == Vector(L, LAMBDA i : add_assign(times(sk.s1[i+1]), y[i+1]))
      r0 == SubK(w0, VecK(times, sk.s2))
      ct0 == VecK(times, sk.t0)
      a0 == AddK(r0, ct0)
      h == Vector(K, LAMBDA i : Vector(N, LAMBDA j :
             make_hint(Centered(a0[i+1][j+1]), w1[i+1][j+1])))
      hint == pack_hint(h)
  IN IF check_norm(z, GAMMA1 - BETA) THEN [rejects |-> "z"]
     ELSE IF check_norm(r0, GAMMA2 - BETA) THEN [rejects |-> "r0"]
     ELSE IF check_norm(ct0, GAMMA2) THEN [rejects |-> "ct0"]
     ELSE IF hint = Rejected THEN [rejects |-> "hint"]
     ELSE [ctilde |-> ctilde, z |-> z, hint |-> hint]

IsSignature(a) == "ctilde" \in DOMAIN a

\* The attempts in their order, or none within MaxIters.
Attempts(sk, message) ==
  LET mu == Hash(<<ForMu, sk.tr, message>>)
      seed == Hash(<<ForRhoPP, sk.key, mu>>)
  IN [kappa \in 0..MaxIters-1 |-> Attempt(sk, mu, seed, kappa)]

ml_dsa_sign(sk, message) ==
  LET tries == Attempts(sk, message)
      search[kappa \in 0..MaxIters] ==
        IF kappa = MaxIters THEN [rejects |-> "attempts"]
        ELSE LET a == tries[kappa] IN IF IsSignature(a) THEN a ELSE search[kappa + 1]
  IN search[0]

ml_dsa_verify(pk, message, sig) ==
  LET h == unpack_hint(sig.hint)
      mu == Hash(<<ForMu, TrOf(pk), message>>)
      c == ntt(sample_in_ball(sig.ctilde))
      ct1 == VecK(LAMBDA p : pointwise_mul(c, ntt(MapPoly(LAMBDA x : x * 8192, p))), pk.t1)
      w == VecK(inv_ntt, SubK(MatrixMul(expand_a(pk.rho), VecL(ntt, sig.z)), ct1))
      w1 == Vector(K, LAMBDA i : Vector(N, LAMBDA j : use_hint(h[i+1][j+1], w[i+1][j+1])))
  IN /\ h # Rejected
     /\ ~check_norm(sig.z, GAMMA1 - BETA)
     /\ ChallengeOf(mu, w1) = sig.ctilde

-----------------------------------------------------------------------------
(* What rounding and the scheme owe.                                       *)

Near(S, width) == UNION {(x - width)..(x + width) : x \in S}

\* Around every bin's edges a residue is put together again from its two parts, which keep
\* their ranges, and 32-bit values are reduced to their residue.
RoundingIsExact ==
  LET edges == {x \in Near({k * GAMMA2 : k \in 0..2 * Bins}, 130) : x \in 0..Q-1}
      cuts == {x \in Near({k * 4096 : k \in {0, 1, 2, 3, 1021, 2044, 2045}} \cup {Q - 1}, 2) : x \in 0..Q-1}
  IN /\ \A r \in edges :
          LET d == decompose(r)
          IN /\ d[1] \in 0..Bins-1 /\ (d[1] * 2 * GAMMA2 + d[2] - r) % Q = 0
             /\ d[2] <= GAMMA2 /\ (d[2] > -GAMMA2 \/ (d[1] = 0 /\ d[2] = -GAMMA2))
     /\ \A r \in cuts :
          LET p == power2round(r)
          IN p[1] \in 0..1023 /\ p[1] * 8192 + p[2] = r /\ p[2] > -4096 /\ p[2] <= 4096
     /\ \A a \in Near({k * Q : k \in -250..250} \cup {k * 8388608 + 4194304 : k \in -250..250}, 1) :
          reduce32(a) \in 0..Q-1 /\ (reduce32(a) - a) % Q = 0

\* The verifier, who lacks the low bits of the key, finds the signer's bin: for every bin and
\* every low part the norm checks let through, at both fences too.
HintsRecover(beta) ==
  \A w1 \in 0..Bins-1 :
    \A a0 \in Near({-2 * GAMMA2 + beta + 3, -GAMMA2, 0, GAMMA2, 2 * GAMMA2 - beta - 3}, 2) :
      use_hint(make_hint(a0, w1), (w1 * 2 * GAMMA2 + a0) % Q) = w1

\* A string of hints that is accepted is the only encoding of what it says.
HintsAreCanonical(buf) ==
  LET h == unpack_hint(buf) IN h # Rejected => pack_hint(h) = buf

\* No two masks of one signature share a counter, and no counter wraps in 16 bits.
MasksDiffer ==
  \A columns \in {4, 5, 7} :
    LET counters == {MaskCounter(kappa, r, columns) : kappa \in 0..999, r \in 0..columns-1}
    IN Cardinality(counters) = 1000 * columns /\ \A x \in counters : x < 65536

\* The first candidate that no check rejects is the signature; it verifies for its message
\* and key, and for no other message, mask, hint or challenge.
SignatureVerifies(xi, message) ==
  LET key == ml_dsa_keygen(xi)
      sig == ml_dsa_sign(key.sk, message)
  IN IsSignature(sig) =>
       /\ ml_dsa_verify(key.pk, message, sig)
       /\ ~ml_dsa_verify(key.pk, message + 1, sig)
       /\ ~ml_dsa_verify([key.pk EXCEPT !.t1[1][1] = (@ + 1) % 1024], message, sig)
       /\ ~ml_dsa_verify(key.pk, message, [sig EXCEPT !.ctilde = @ + 1])
       /\ \A j \in 1..N : ~ml_dsa_verify(key.pk, message, [sig EXCEPT !.z[1][j] = (@ + 300000) % Q])
=============================================================================
