-------------------------------- MODULE MlKem --------------------------------
(***************************************************************************)
(* ML-KEM (oxicrypt-ml-kem): arithmetic modulo q in 16-bit words, the      *)
(* number-theoretic transform, compression and encoding, and encapsulation *)
(* with implicit rejection.  q, the twiddle factors and the compression    *)
(* are those of the crate; polynomials have N coefficients in place of 256 *)
(* and the transform the first layers of the seven.                        *)
(*                                                                         *)
(* The hashes are a parameter: Hash takes a sequence of numbers, the first *)
(* of which names the use, to a number.                                    *)
(***************************************************************************)
EXTENDS Integers, Sequences, FiniteSets, Bitwise

CONSTANTS
  N,             \* coefficients of a polynomial (256): a power of two from 8 on
  K,             \* polynomials of a vector (2, 3 or 4)
  ETA1, ETA2,    \* noise (3 or 2, and 2)
  DU, DV,        \* bits of a compressed coefficient (10 or 11, 4 or 5)
  Hash(_)        \* SHA-3 and SHAKE

Q == 3329

\* Byte i of what a hash expands.
Squeeze(input, i) == Hash(input \o <<i>>) % 256

\* The uses: matrix, noise, shared secret, encryption seed, rejection.
ForA == 1
ForNoise == 2
ForSecret == 3
ForSeed == 4
ForRejection == 5

\* Arithmetic on i16 wraps.
Wrap16(x) == ((x + 32768) % 65536) - 32768

\* A vector, element by element.
Vector(n, f(_)) == <<>> \o [i \in 1..n |-> f(i - 1)]

-----------------------------------------------------------------------------
(* field.rs                                                                *)

QINV == -3327
R2 == 1353

montgomery_reduce(a) ==
  LET t == Wrap16(Wrap16(a) * QINV) IN Wrap16((a - t * Q) \div 65536)

fqmul(a, b) == montgomery_reduce(a * b)

\* One conditional subtraction; a negative remainder stays negative.
barrett_reduce(a) ==
  LET r == a - ((a * 20159 + 33554432) \div 67108864) * Q
  IN Wrap16(IF r >= Q THEN r - Q ELSE r)

reduce_full(a) == LET r == barrett_reduce(a) IN IF r < 0 THEN r + Q ELSE r

to_mont(a) == fqmul(a, R2)

ct_bytes_eq(a, b) ==
  LET diff[i \in 0..Len(a)] == IF i = 0 THEN 0 ELSE diff[i-1] | (a[i] ^^ b[i])
  IN IF Len(a) = Len(b) THEN diff[Len(a)] ELSE 255

\* Fault: the mask covers the lowest bit of a byte only.
SelectMask_LowBit(flag) == IF flag = 0 THEN 0 ELSE 1

\* Any bit of the flag fills the mask: the high bits are folded down, the lowest is spread.
SelectMask(flag) ==
  LET b1 == flag | (flag \div 16)
      b2 == b1 | (b1 \div 4)
      b3 == b2 | (b2 \div 2)
  IN (0 - (b3 % 2)) % 256

ct_select(a, b, flag) == Vector(Len(a), LAMBDA i : a[i+1] ^^ (SelectMask(flag) & (a[i+1] ^^ b[i+1])))

-----------------------------------------------------------------------------
(* ntt.rs and poly.rs                                                      *)

\* The first of the 128 factors; a transform of N coefficients uses N \div 2.
ZETAS == <<-1044, -758, -359, -1517, 1493, 1422, 287, 202, -171, 622, 1577, 182, 962, -1202,
           -1474, 1468>>

\* The last scaling, R^2 by the number of pairs: 1441 for 128 of them.
Scaling == CHOOSE f \in 0..Q-1 : (f * (N \div 2) - R2) % Q = 0

Zeta(k) == ZETAS[k + 1]

\* One layer of butterflies, len apart; block b uses the factor first + b.
NttLayer(r, len) ==
  LET t(i) == fqmul(Zeta(N \div (2 * len) + i \div (2 * len)), r[i + 1])
  IN Vector(N, LAMBDA i : IF (i \div len) % 2 = 0 THEN Wrap16(r[i + 1] + t(i + len))
                          ELSE Wrap16(r[i - len + 1] - t(i)))

ntt(r) ==
  LET layer[len \in 1..N] == IF len = N THEN r ELSE NttLayer(layer[2 * len], len)
  IN layer[2]

InverseLayer(r, len) ==
  LET zeta(i) == Zeta(N \div len - 1 - i \div (2 * len))
  IN Vector(N, LAMBDA i : IF (i \div len) % 2 = 0
                          THEN barrett_reduce(Wrap16(r[i + 1] + r[i + len + 1]))
                          ELSE fqmul(zeta(i), Wrap16(r[i + 1] - r[i - len + 1])))

inv_ntt(r) ==
  LET layer[len \in 1..N] == IF len = 1 THEN r ELSE InverseLayer(layer[len \div 2], len)
  IN Vector(N, LAMBDA i : fqmul(layer[N \div 2][i + 1], Scaling))

basemul(a0, a1, b0, b1, zeta) ==
  <<Wrap16(fqmul(fqmul(a1, b1), zeta) + fqmul(a0, b0)), Wrap16(fqmul(a0, b1) + fqmul(a1, b0))>>

\* self += a o b, pair by pair; neighbouring pairs have opposite factors.
pointwise_acc(self, a, b) ==
  Vector(N, LAMBDA i :
    LET p == 2 * (i \div 2)
        zeta == Zeta(N \div 4 + i \div 4)
        r == basemul(a[p+1], a[p+2], b[p+1], b[p+2], IF i % 4 < 2 THEN zeta ELSE -zeta)
    IN Wrap16(self[i + 1] + r[(i % 2) + 1]))

PolyZero == [i \in 1..N |-> 0]
MapPoly(f(_), p) == Vector(N, LAMBDA i : f(p[i + 1]))
add_assign(a, b) == Vector(N, LAMBDA i : Wrap16(a[i + 1] + b[i + 1]))
sub_assign(a, b) == Vector(N, LAMBDA i : Wrap16(a[i + 1] - b[i + 1]))
MapVec(f(_), v) == Vector(K, LAMBDA i : f(v[i + 1]))

\* inner_product_ntt and the rows of mul_vec and transpose_mul_vec: accumulated, then reduced.
inner_product_ntt(a, b) ==
  LET acc[j \in 0..K] == IF j = 0 THEN PolyZero ELSE pointwise_acc(acc[j-1], a[j], b[j])
  IN MapPoly(barrett_reduce, acc[K])

mul_vec(rows, s) == Vector(K, LAMBDA i : inner_product_ntt(rows[i + 1], s))

transpose_mul_vec(rows, s) ==
  Vector(K, LAMBDA i : inner_product_ntt([j \in 1..K |-> rows[j][i + 1]], s))

-----------------------------------------------------------------------------
(* encode.rs and sample.rs                                                 *)

\* d bits of each coefficient, the lowest first.
byte_encode(d, p) ==
  LET bit(n) == (p[n \div d + 1] \div 2^(n % d)) % 2
      weight(i, j) == bit(8 * i + j) * 2^j
  IN Vector((N * d) \div 8, LAMBDA i : weight(i, 0) + weight(i, 1) + weight(i, 2) + weight(i, 3)
                                     + weight(i, 4) + weight(i, 5) + weight(i, 6) + weight(i, 7))

byte_decode(d, bytes) ==
  LET bit(n) == (bytes[n \div 8 + 1] \div 2^(n % 8)) % 2
      value(i) == LET acc[j \in 0..d] == IF j = 0 THEN 0 ELSE acc[j-1] + bit(d * i + j - 1) * 2^(j-1)
                  IN acc[d]
  IN Vector(N, LAMBDA i : IF d = 12 THEN value(i) % Q ELSE value(i))

compress(d, x) == ((x * 2^d + Q \div 2) \div Q) % 2^d
decompress(d, y) == (y * Q + 2^(d-1)) \div 2^d

\* Centered binomial noise: eta bits against eta bits, negative values raised by q.
sample_cbd(eta, seed) ==
  LET bit(n) == (Squeeze(seed, n \div 8) \div 2^(n % 8)) % 2
      ones(from) == Cardinality({n \in from..from+eta-1 : bit(n) = 1})
      c(i) == ones(2 * eta * i) - ones(2 * eta * i + eta)
  IN Vector(N, LAMBDA i : IF c(i) < 0 THEN c(i) + Q ELSE c(i))

\* sample_ntt: two 12-bit candidates of three bytes; those below q are taken.
sample_ntt(seed) ==
  LET b(i) == Squeeze(seed, i)
      candidate(k) == LET t == 3 * (k \div 2)
                      IN IF k % 2 = 0 THEN b(t) + (b(t + 1) % 16) * 256 ELSE b(t + 1) \div 16 + b(t + 2) * 16
      taken == SelectSeq([k \in 1..8 * N |-> candidate(k - 1)], LAMBDA x : x < Q)
  IN SubSeq(taken, 1, N)

\* One seed per cell, and one nonce per noise polynomial.
expand_a(rho) == Vector(K, LAMBDA i : Vector(K, LAMBDA j : sample_ntt(<<ForA, rho, j, i>>)))

sample_noise_vec(sigma, nonce, eta) ==
  Vector(K, LAMBDA i : sample_cbd(eta, <<ForNoise, sigma, nonce + i>>))

-----------------------------------------------------------------------------
(* K-PKE and ML-KEM                                                        *)

kpke_keygen(d) ==
  LET a == expand_a(d)
      s == MapVec(ntt, sample_noise_vec(d, 0, ETA1))
      e == MapVec(ntt, sample_noise_vec(d, K, ETA1))
      as == mul_vec(a, s)
      t == Vector(K, LAMBDA i : add_assign(MapPoly(to_mont, as[i+1]), e[i+1]))
      encoded(v) == MapVec(LAMBDA p : byte_encode(12, MapPoly(reduce_full, p)), v)
  IN [ek |-> [t |-> encoded(t), rho |-> d], dk |-> encoded(s)]

kpke_encrypt(ek, m, r_seed) ==
  LET t == MapVec(LAMBDA b : byte_decode(12, b), ek.t)
      a == expand_a(ek.rho)
      r == MapVec(ntt, sample_noise_vec(r_seed, 0, ETA1))
      e1 == sample_noise_vec(r_seed, K, ETA2)
      e2 == sample_cbd(ETA2, <<ForNoise, r_seed, 2 * K>>)
      ar == transpose_mul_vec(a, r)
      u == Vector(K, LAMBDA i : add_assign(inv_ntt(ar[i+1]), e1[i+1]))
      mu == MapPoly(LAMBDA y : decompress(1, y), byte_decode(1, m))
      v == add_assign(add_assign(inv_ntt(inner_product_ntt(t, r)), e2), mu)
      packed(d, p) == byte_encode(d, MapPoly(LAMBDA x : compress(d, reduce_full(x)), p))
      c1 == MapVec(LAMBDA p : packed(DU, p), u)
      joined[i \in 0..K] == IF i = 0 THEN <<>> ELSE joined[i-1] \o c1[i]
  IN joined[K] \o packed(DV, v)

kpke_decrypt(dk, ct) ==
  LET size == (N * DU) \div 8
      part(i) == SubSeq(ct, i * size + 1, (i + 1) * size)
      unpacked(d, bytes) == MapPoly(LAMBDA y : decompress(d, y), byte_decode(d, bytes))
      u == Vector(K, LAMBDA i : ntt(unpacked(DU, part(i))))
      v == unpacked(DV, SubSeq(ct, K * size + 1, Len(ct)))
      s == MapVec(LAMBDA b : byte_decode(12, b), dk)
      w == inv_ntt(inner_product_ntt(s, u))
  IN byte_encode(1, MapPoly(LAMBDA x : compress(1, reduce_full(x)), sub_assign(v, w)))

\* G(m || H(ek)): the shared secret, here its bytes, and the seed of the encryption.
SharedOf(m, ek) == Vector(Len(m), LAMBDA i : Squeeze(<<ForSecret, ek.rho>> \o m, i))
SeedOf(m, ek) == Hash(<<ForSeed, ek.rho>> \o m)

\* J(z || c)
RejectionOf(z, ct) == Vector(N \div 8, LAMBDA i : Squeeze(<<ForRejection, z>> \o ct, i))

ml_kem_encaps(ek, m) == [secret |-> SharedOf(m, ek), ct |-> kpke_encrypt(ek, m, SeedOf(m, ek))]

ml_kem_decaps(key, z, ct) ==
  LET m == kpke_decrypt(key.dk, ct)
      again == kpke_encrypt(key.ek, m, SeedOf(m, key.ek))
  IN ct_select(SharedOf(m, key.ek), RejectionOf(z, ct), ct_bytes_eq(ct, again))

-----------------------------------------------------------------------------
(* What the arithmetic and the scheme owe.                                 *)

Centered(x) == LET r == x % Q IN IF r > Q \div 2 THEN r - Q ELSE r
Distance(x) == IF Centered(x) < 0 THEN -Centered(x) ELSE Centered(x)

\* Every 16-bit value is reduced to its residue, and a product with a reduced factor to one
\* between -q and q.
ReductionsAreExact ==
  /\ \A a \in -32768..32767 :
       /\ reduce_full(a) \in 0..Q-1 /\ (reduce_full(a) - a) % Q = 0
       /\ barrett_reduce(a) \in -Q+1..Q-1 /\ (barrett_reduce(a) - a) % Q = 0
  /\ \A b \in {-Q+1, -1665, -1, 0, 1, 1353, Q-1}, k \in -128..127 :
       LET a == 256 * k + 255 * (k % 2)
           r == fqmul(a, b)
       IN r \in -Q+1..Q-1 /\ (r * 65536 - a * b) % Q = 0

\* The widest value each i16 takes in the seven layers, in a row of four products and in the
\* sums after it stays an i16, and so does every product that is reduced.
WordsSuffice ==
  LET q1 == Q - 1
      transformed == q1 + 7 * q1
      row == 4 * 2 * q1
  IN /\ transformed < 2^15 /\ row < 2^15 /\ transformed + q1 < 2^15
     /\ transformed * q1 < Q * 2^15 /\ 2 * q1 + 2 * q1 < 2^15

\* Compression loses at most half a step, decompression none, and bytes keep all bits.
EncodingsInvert(d) ==
  /\ d < 12 => /\ \A x \in 0..Q-1 : 2^(d+1) * Distance(decompress(d, compress(d, x)) - x) <= Q + 2^d
               /\ \A y \in 0..2^d-1 : decompress(d, y) < Q /\ compress(d, decompress(d, y)) = y
  /\ \A x \in {(7 * k) % 2^d : k \in 0..99} :
       LET p == [i \in 1..N |-> (x * i) % 2^d]
       IN byte_decode(d, byte_encode(d, p)) = IF d = 12 THEN MapPoly(LAMBDA c : c % Q, p) ELSE p

\* The transform carries the product of polynomials modulo X^N + 1, and its inverse returns.
TransformMultiplies(a, b) ==
  LET back == inv_ntt(MapPoly(barrett_reduce, pointwise_acc(PolyZero, ntt(a), ntt(b))))
      term(i, j) == LET x == (Centered(a[i+1]) * Centered(b[j+1])) % Q IN IF i + j < N THEN x ELSE -x
      coefficient(k) ==
        LET sum[i \in 0..N] == IF i = 0 THEN 0 ELSE sum[i-1] + term(i - 1, (k - i + 1) % N)
        IN sum[N] % Q
  IN \A k \in 0..N-1 : reduce_full(back[k+1]) = coefficient(k)

\* The holder of the key finds the encapsulated secret; from any other ciphertext, one byte
\* changed, it finds the rejection value of that ciphertext, whole.
SecretsAgree(d, z, m) ==
  LET key == kpke_keygen(d)
      enc == ml_kem_encaps(key.ek, m)
  IN /\ kpke_decrypt(key.dk, enc.ct) = m
     /\ ml_kem_decaps(key, z, enc.ct) = enc.secret
     /\ \A i \in DOMAIN enc.ct, x \in {1, 128} :
          LET ct == [enc.ct EXCEPT ![i] = @ ^^ x]
          IN ml_kem_decaps(key, z, ct) = RejectionOf(z, ct)
=============================================================================
