--------------------------- MODULE WeierstrassCurve ---------------------------
(***************************************************************************)
(* The arithmetic under ECDSA and ECDH (oxicrypt-ecdsa): residues kept in  *)
(* Montgomery form, points of y^2 = x^3 - 3x + b in Jacobian coordinates,  *)
(* the scalar ladder whose addition has no exceptional cases, signing and  *)
(* verification.  P-256 and P-384 run the same algorithms over four and    *)
(* six words of 64 bits; here a residue has Words words of WordBits bits,  *)
(* and the curve is small enough to try every point with every scalar.     *)
(***************************************************************************)
EXTENDS Integers, FiniteSets

CONSTANTS
  WordBits, Words, \* bits of a word (64), words of a residue (4 or 6)
  P, B, N,         \* the field, the constant of the curve, its prime order
  GX, GY           \* the generator

Word == 2^WordBits
R == Word^Words

\* What a residue, or a point or signature, is when there is none.
NoResidue == -1
NoValue == <<>>

-----------------------------------------------------------------------------
(* Residues.                                                               *)

\* cond_sub_p, cond_sub_n: extra is the word above the value.
CondSub(m, r, extra) == IF extra = 1 \/ r >= m THEN (r - m) % R ELSE r

\* The product of two residues, its lowest words cleared one by one and shifted out.
MontMul(m, a, b) ==
  LET np == CHOOSE x \in 0..Word-1 : (x * m + 1) % Word = 0
      t[i \in 0..Words] ==
        IF i = 0 THEN a * b
        ELSE LET w == (t[i-1] \div Word^(i-1)) % Word
             IN t[i-1] + ((w * np) % Word) * m * Word^(i-1)
      high == t[Words] \div R
  IN CondSub(m, high % R, high \div R)

\* Both moduli multiply by a table: what MontMul gives for every pair.
FieldTimes == [a, b \in 0..P-1 |-> MontMul(P, a, b)]
OrderTimes == [a, b \in 0..N-1 |-> MontMul(N, a, b)]
Times(m) == IF m = P THEN FieldTimes ELSE OrderTimes

\* R_MOD_P and R2_MOD_P are constants of the code.
One(m) == R % m
RSquared(m) == (R * R) % m

Plus(m, a, b) == CondSub(m, (a + b) % R, (a + b) \div R)
Minus(m, a, b) ==
  LET diff == (a - b) % R
  IN IF a < b THEN (diff + m) % R ELSE diff

\* from_bytes rejects what is not below the modulus; from_bytes_reduced subtracts it once.
FromBytes(m, raw) == IF raw >= m THEN NoResidue ELSE MontMul(m, raw, RSquared(m))
FromBytesReduced(m, raw) == MontMul(m, CondSub(m, raw, 0), RSquared(m))
ToBytes(m, a) == MontMul(m, a, 1)

\* The power m - 2, from its highest bit.
Invert(m, a) ==
  LET bits == WordBits * Words
      acc[k \in 0..bits] ==
        IF k = 0 THEN One(m)
        ELSE LET sq == Times(m)[acc[k-1], acc[k-1]]
             IN IF ((m - 2) \div 2^(bits - k)) % 2 = 1 THEN Times(m)[sq, a] ELSE sq
  IN acc[bits]

-----------------------------------------------------------------------------
(* Points <<X, Y, Z>> stand for (X / Z^2, Y / Z^3); Z = 0 is the identity. *)

Mul(a, b) == FieldTimes[a, b]
Sqr(a) == FieldTimes[a, a]
Add(a, b) == Plus(P, a, b)
Sub(a, b) == Minus(P, a, b)
Twice(a) == Add(a, a)

identity == <<One(P), One(P), 0>>
generator == <<FromBytes(P, GX), FromBytes(P, GY), One(P)>>

is_identity(pt) == pt[3] = 0

to_affine(pt) ==
  LET zinv == Invert(P, pt[3])
  IN IF is_identity(pt) THEN NoValue
     ELSE <<Mul(pt[1], Sqr(zinv)), Mul(pt[2], Mul(Sqr(zinv), zinv))>>

double(pt) ==
  LET delta == Sqr(pt[3])
      gamma == Sqr(pt[2])
      beta == Mul(pt[1], gamma)
      t2 == Mul(Sub(pt[1], delta), Add(pt[1], delta))
      alpha == Add(Twice(t2), t2)
      fourBeta == Twice(Twice(beta))
      x3 == Sub(Sqr(alpha), Twice(fourBeta))
      z3 == Sub(Sub(Sqr(Add(pt[2], pt[3])), gamma), delta)
      y3 == Sub(Mul(alpha, Sub(fourBeta, x3)), Twice(Twice(Twice(Sqr(gamma)))))
  IN <<x3, y3, z3>>

\* H, the halved r and the sum of a point and an affine point that differ in x.
Slopes(pt, x2, y2) ==
  LET z1z1 == Sqr(pt[3])
  IN [z1z1 |-> z1z1, h |-> Sub(Mul(x2, z1z1), pt[1]),
      rRaw |-> Sub(Mul(Mul(y2, pt[3]), z1z1), pt[2])]

SumOf(pt, sl) ==
  LET hh == Sqr(sl.h)
      i == Twice(Twice(hh))
      j == Mul(sl.h, i)
      r == Twice(sl.rRaw)
      v == Mul(pt[1], i)
      x3 == Sub(Sub(Sqr(r), j), Twice(v))
      y3 == Sub(Mul(r, Sub(v, x3)), Twice(Mul(pt[2], j)))
      z3 == Sub(Sub(Sqr(Add(pt[3], sl.h)), sl.z1z1), hh)
  IN <<x3, y3, z3>>

\* Fault: a point is not told from its equal.
add_mixed_NoDouble(pt, x2, y2) ==
  LET sl == Slopes(pt, x2, y2)
  IN IF is_identity(pt) THEN <<x2, y2, One(P)>>
     ELSE IF sl.h = 0 THEN identity
     ELSE SumOf(pt, sl)

add_mixed(pt, x2, y2) ==
  LET sl == Slopes(pt, x2, y2)
  IN IF is_identity(pt) THEN <<x2, y2, One(P)>>
     ELSE IF sl.h = 0 THEN (IF sl.rRaw = 0 THEN double(pt) ELSE identity)
     ELSE SumOf(pt, sl)

\* The addition of the ladder: equal and opposite points are not told apart.
add_mixed_ct(pt, x2, y2) ==
  IF is_identity(pt) THEN <<x2, y2, One(P)>> ELSE SumOf(pt, Slopes(pt, x2, y2))

\* The ladder: double, add, keep the sum when the bit of the scalar is set.
mul(pt, k) ==
  LET affine == to_affine(pt)
      canonical == ToBytes(N, k)
      bits == WordBits * Words
      acc[i \in 0..bits] ==
        IF i = 0 THEN identity
        ELSE LET doubled == double(acc[i-1])
             IN IF (canonical \div 2^(bits - i)) % 2 = 1
                THEN add_mixed_ct(doubled, affine[1], affine[2]) ELSE doubled
  IN IF is_identity(pt) THEN identity ELSE acc[bits]

is_on_curve_affine(x, y) ==
  LET three == Add(Twice(One(P)), One(P))
  IN Sqr(y) = Add(Mul(x, Sub(Sqr(x), three)), FromBytes(P, B))

\* The two coordinates of an uncompressed encoding.
from_sec1_uncompressed_validated(xBytes, yBytes) ==
  LET x == FromBytes(P, xBytes)
      y == FromBytes(P, yBytes)
  IN IF x = NoResidue \/ y = NoResidue THEN NoValue
     ELSE IF x = 0 /\ y = 0 THEN NoValue
     ELSE IF ~is_on_curve_affine(x, y) THEN NoValue
     ELSE <<x, y, One(P)>>

point_add(p1, p2) ==
  LET affine == to_affine(p2)
  IN IF affine = NoValue THEN p1 ELSE add_mixed(p1, affine[1], affine[2])

-----------------------------------------------------------------------------
(* ECDSA over a digest as wide as the field, and the shared secret.        *)

DerivePublicKey(dBytes) ==
  LET q == to_affine(mul(generator, FromBytes(N, dBytes)))
  IN IF dBytes >= N \/ dBytes = 0 THEN NoValue
     ELSE <<ToBytes(P, q[1]), ToBytes(P, q[2])>>

\* r is the x of kG reduced once; a zero r or s asks for another k.
Sign(dBytes, digest, kBytes) ==
  LET k == FromBytes(N, kBytes)
      point == to_affine(mul(generator, k))
      r == FromBytesReduced(N, ToBytes(P, point[1]))
      sum == Plus(N, FromBytesReduced(N, digest), OrderTimes[r, FromBytes(N, dBytes)])
      s == OrderTimes[Invert(N, k), sum]
  IN IF dBytes >= N \/ dBytes = 0 \/ kBytes >= N \/ kBytes = 0 THEN NoValue
     ELSE IF point = NoValue THEN NoValue
     ELSE IF r = 0 \/ s = 0 THEN NoValue
     ELSE <<ToBytes(N, r), ToBytes(N, s)>>

Verify(pk, digest, sig) ==
  LET q == from_sec1_uncompressed_validated(pk[1], pk[2])
      w == Invert(N, FromBytes(N, sig[2]))
      u1 == OrderTimes[FromBytesReduced(N, digest), w]
      u2 == OrderTimes[FromBytes(N, sig[1]), w]
      sum == to_affine(point_add(mul(generator, u1), mul(q, u2)))
  IN /\ q # NoValue
     /\ sig[1] < N /\ sig[2] < N /\ sig[1] # 0 /\ sig[2] # 0
     /\ sum # NoValue
     /\ FromBytesReduced(N, ToBytes(P, sum[1])) = FromBytes(N, sig[1])

\* compute_shared_secret_p256: the x of the product with a validated point.
SharedSecret(dBytes, pk) ==
  LET q == from_sec1_uncompressed_validated(pk[1], pk[2])
      z == to_affine(mul(q, FromBytes(N, dBytes)))
  IN IF dBytes >= N \/ dBytes = 0 \/ q = NoValue THEN NoValue
     ELSE IF z = NoValue THEN NoValue
     ELSE <<ToBytes(P, z[1])>>

-----------------------------------------------------------------------------
(* The group by its definition, over integers modulo P.                    *)

Over(a, b) == CHOOSE q \in 0..P-1 : (q * b - a) % P = 0

GroupAdd(u, v) ==
  IF u = NoValue THEN v
  ELSE IF v = NoValue THEN u
  ELSE IF u[1] = v[1] /\ (u[2] + v[2]) % P = 0 THEN NoValue
  ELSE LET slope == IF u = v THEN Over((3 * u[1] * u[1] - 3) % P, (2 * u[2]) % P)
                    ELSE Over((v[2] - u[2]) % P, (v[1] - u[1]) % P)
           x == (slope * slope - u[1] - v[1]) % P
       IN <<x, (slope * (u[1] - x) - u[2]) % P>>

OnCurve(x, y) == (y * y - x * x * x + 3 * x - B) % P = 0

\* The multiples of the generator, which are the whole group.
Multiples ==
  LET m[k \in 0..N-1] == IF k = 0 THEN NoValue ELSE GroupAdd(m[k-1], <<GX, GY>>) IN m

\* What a Jacobian point stands for, and a Jacobian point that stands for the k-th multiple.
Meant(pt) ==
  LET a == to_affine(pt) IN IF a = NoValue THEN NoValue ELSE <<ToBytes(P, a[1]), ToBytes(P, a[2])>>
Jacobian(k, z) ==
  LET zM == FromBytes(P, z)
  IN IF k = 0 THEN <<zM, z, 0>>
     ELSE <<Mul(FromBytes(P, Multiples[k][1]), Sqr(zM)),
            Mul(FromBytes(P, Multiples[k][2]), Mul(Sqr(zM), zM)), zM>>

\* Residues below m behave as integers modulo m, and no other bytes are residues.
ResiduesAreExact(m, x) ==
  LET a == FromBytesReduced(m, x)
  IN /\ ToBytes(m, a) = x % m
     /\ (FromBytes(m, x) = NoResidue) <=> (x >= m)
     /\ x < m => FromBytes(m, x) = a
     /\ a # 0 => ToBytes(m, Times(m)[a, Invert(m, a)]) = 1
     /\ \A y \in 0..m-1 :
          LET b == FromBytes(m, y)
          IN /\ ToBytes(m, Plus(m, a, b)) = (x + y) % m
             /\ ToBytes(m, Minus(m, a, b)) = (x - y) % m
             /\ ToBytes(m, Times(m)[a, b]) = (x * y) % m

\* Multiplication of the i-th multiple by every scalar, and addition to every point.
LadderMultiplies(i, z) ==
  \A k \in 0..N-1 :
    /\ Meant(mul(Jacobian(i, z), FromBytes(N, k))) = Multiples[(i * k) % N]
    /\ Meant(point_add(Jacobian(i, z), Jacobian(k, 3))) = Multiples[(i + k) % N]

\* Exactly the encodings of points of the curve are taken.
EncodingsAreValidated(x) ==
  \A y \in 0..R-1 :
    LET pt == from_sec1_uncompressed_validated(x, y)
    IN IF x < P /\ y < P /\ OnCurve(x, y) THEN pt # NoValue /\ Meant(pt) = <<x, y>> ELSE pt = NoValue

\* A signature verifies, and verification is the equation of the standard whatever is offered.
SignaturesAreExact(d, e) ==
  LET q == DerivePublicKey(d)
      nonzero == 1..N-1
      inverse(s) == CHOOSE w \in nonzero : (w * s) % N = 1
      accepts(r, s) ==
        /\ r \in nonzero /\ s \in nonzero
        /\ LET m == ((e + r * d) * inverse(s)) % N
           IN m # 0 /\ Multiples[m][1] % N = r
  IN /\ q = Multiples[d]
     /\ \A k \in nonzero :
          LET sig == Sign(d, e, k)
          IN IF Multiples[k][1] % N = 0 \/ (e + Multiples[k][1] * d) % N = 0 THEN sig = NoValue
             ELSE sig # NoValue /\ Verify(q, e, sig)
     /\ \A r \in {0, 1, 2, 6, 40, N - 1, N, N + 1} : \A s \in {0, 1, 20, N - 1, N, R - 1} :
          Verify(q, e, <<r, s>>) = accepts(r, s)

\* Two sides that multiply each other's point find one secret.
SecretsAgree(d) ==
  \A k \in 1..N-1 : /\ SharedSecret(d, DerivePublicKey(k)) = SharedSecret(k, DerivePublicKey(d))
                    /\ SharedSecret(d, DerivePublicKey(k)) = <<Multiples[(d * k) % N][1]>>

===============================================================================
