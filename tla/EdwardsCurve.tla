----------------------------- MODULE EdwardsCurve -----------------------------
(***************************************************************************)
(* The arithmetic under Ed25519 (oxicrypt-eddsa): field elements in limbs  *)
(* that may hold more than their digit, points of -x^2 + y^2 = 1 + d x^2   *)
(* y^2 in extended coordinates, their compressed encoding, scalars and     *)
(* their wide reduction, signing and verification.  The code has five      *)
(* limbs of 51 bits and p = 2^255 - 19; here p = 2^(Limbs * Radix) - Fold, *)
(* again 5 modulo 8, and limbs still hold what a product leaves over them. *)
(* The fixed addition chains of invert and pow_p_5_8 are exponentiations   *)
(* with p - 2 and (p - 5) / 8.                                             *)
(***************************************************************************)
EXTENDS ByteStrings

CONSTANTS
  Radix, Limbs,  \* bits of a limb (51), limbs of an element (5)
  Fold,          \* 2^(Radix * Limbs) modulo p (19)
  D,             \* the constant of the curve, no square
  BaseX, BaseY,  \* the base point
  L,             \* its prime order
  ScalarBits,    \* bits of a scalar (256), three more than those of L
  Hash(_)        \* SHA-512 of a sequence, as an integer below 2^(2 * ScalarBits)

Limb == 2^Radix
FieldBits == Radix * Limbs
P == 2^FieldBits - Fold
Index == 1..Limbs
WordWidth == 2^(Radix + 13)    \* 2^64

Pick(choice, a, b) == IF choice THEN b ELSE a

-----------------------------------------------------------------------------
(* Field elements: sequences of limbs, lowest first.                       *)

Element(f) == <<>> \o [i \in Index |-> f[i]]
FromBytes(v) == Element([i \in Index |-> (v \div Limb^(i-1)) % Limb])
Zero == FromBytes(0)
One == FromBytes(1)

\* Each limb hands what exceeds its digit to the next; the last carry is left over.
Carried(f) ==
  LET out[i \in 0..Limbs] ==
        IF i = 0 THEN [done |-> <<>>, carry |-> 0]
        ELSE LET x == f[i] + out[i-1].carry
             IN [done |-> Append(out[i-1].done, x % Limb), carry |-> x \div Limb]
  IN out[Limbs]

\* The lowest limb takes the folded carry and hands on once, to the second limb.
Folded(c) ==
  LET low == (c.done[1] + c.carry * Fold) % WordWidth
  IN [c.done EXCEPT ![1] = low % Limb, ![2] = @ + low \div Limb]

\* reduce: carry, fold, and subtract p if adding Fold carries out of the last limb.
reduce(f) ==
  LET l == Folded(Carried(f))
      t == Carried([l EXCEPT ![1] = @ + Fold])
  IN IF t.carry % 2 = 1 THEN t.done ELSE l

\* to_bytes: the limbs laid side by side, or-ed where one reaches into the next.
to_bytes(f) ==
  LET l == reduce(f)
      out[i \in 0..Limbs] == IF i = 0 THEN 0 ELSE out[i-1] | (l[i] * Limb^(i-1))
  IN out[Limbs] % 2^(FieldBits + 1)

\* add, sub and negate; sub adds 2p first so that no limb falls below zero.
add(f, g) == Element([i \in Index |-> (f[i] + g[i]) % WordWidth])
TwoP(i) == IF i = 1 THEN 2 * Limb - 2 * Fold ELSE 2 * Limb - 2
sub(f, g) == Element([i \in Index |-> (TwoP(i) + f[i] - g[i]) % WordWidth])
negate(f) ==
  LET r == reduce(f) IN reduce(Element([i \in Index |-> (TwoP(i) - r[i]) % WordWidth]))

\* multiply: schoolbook, what passes the last limb comes back Fold times.
multiply(f, g) ==
  LET column(k) ==
        LET s[i \in 0..Limbs] ==
              IF i = 0 THEN 0
              ELSE s[i-1] + (IF i <= k THEN f[i] * g[k + 1 - i]
                             ELSE f[i] * Fold * g[k + 1 + Limbs - i])
        IN s[Limbs]
  IN Folded(Carried([k \in Index |-> column(k)]))

square(f) == multiply(f, f)

\* invert and pow_p_5_8 are powers.
Power(f, e) ==
  LET step(k, acc) ==
        LET sq == square(acc)
        IN IF (e \div 2^(FieldBits - k)) % 2 = 1 THEN multiply(sq, f) ELSE sq
  IN Chain(FieldBits, One, step)[FieldBits]
invert(f) == Power(f, P - 2)
pow_p_5_8(f) == Power(f, (P - 5) \div 8)

SQRT_M1 == Power(FromBytes(2), (P - 1) \div 4)

ct_eq(f, g) == to_bytes(f) = to_bytes(g)
is_zero(f) == ct_eq(f, Zero)
is_negative(f) == to_bytes(f) % 2

-----------------------------------------------------------------------------
(* Points [x, y, z, t] with x/z, y/z affine and t = xy/z.                  *)

IDENTITY == [x |-> Zero, y |-> One, z |-> One, t |-> Zero]
BASE ==
  [x |-> FromBytes(BaseX), y |-> FromBytes(BaseY), z |-> One,
   t |-> multiply(FromBytes(BaseX), FromBytes(BaseY))]

Products(e, f, g, h) ==
  [x |-> multiply(e, f), y |-> multiply(g, h), t |-> multiply(e, h), z |-> multiply(f, g)]

point_add(p, q) ==
  LET a == multiply(sub(p.y, p.x), sub(q.y, q.x))
      b == multiply(add(p.y, p.x), add(q.y, q.x))
      c == multiply(multiply(p.t, FromBytes(2 * D)), q.t)
      zz == multiply(p.z, q.z)
      d == add(zz, zz)
  IN Products(sub(b, a), sub(d, c), add(d, c), add(b, a))

double(p) ==
  LET a == square(p.x)
      b == square(p.y)
      zz == square(p.z)
      h == add(a, b)
      e == sub(h, square(add(p.x, p.y)))
      g == sub(a, b)
  IN Products(e, add(add(zz, zz), g), g, h)

\* Every bit of the scalar, highest first, whether or not it is below L.
mul(p, scalar) ==
  LET step(k, q) ==
        LET twice == double(q)
        IN IF (scalar \div 2^(ScalarBits - k)) % 2 = 1 THEN point_add(twice, p) ELSE twice
  IN Chain(ScalarBits, IDENTITY, step)[ScalarBits]

\* The sign of x is the bit above y.
compress(p) ==
  LET zInv == invert(p.z)
  IN to_bytes(multiply(p.y, zInv)) | (is_negative(multiply(p.x, zInv)) * 2^FieldBits)

NoPoint == <<>>

decompress(bytes) ==
  LET sign == bytes \div 2^FieldBits
      yBytes == bytes % 2^FieldBits
      y == FromBytes(yBytes)
      yy == square(y)
      u == sub(yy, One)
      v == add(multiply(FromBytes(D), yy), One)
      v3 == multiply(square(v), v)
      v7 == multiply(square(v3), v)
      candidate == multiply(multiply(u, v3), pow_p_5_8(multiply(u, v7)))
      vxx == multiply(v, square(candidate))
      flipped == ct_eq(vxx, negate(u))
      x == Pick(flipped, candidate, multiply(candidate, SQRT_M1))
      signed == Pick(is_negative(x) # sign, x, negate(x))
  IN IF to_bytes(y) # yBytes THEN NoPoint
     ELSE IF ~ct_eq(vxx, u) /\ ~flipped THEN NoPoint
     ELSE IF is_zero(x) /\ sign = 1 THEN NoPoint
     ELSE [x |-> signed, y |-> y, z |-> One, t |-> multiply(signed, y)]

-----------------------------------------------------------------------------
(* Scalars.                                                                *)

Wide == 2^(2 * ScalarBits)

\* reduce_wide: Barrett's quotient x * mu / Wide (its product taken in two halves, for TLC's
\* integers) is at most two short.
reduce_wide(x) ==
  LET mu == Wide \div L
      half == 2^ScalarBits
      quotient == ((x \div half) * mu + ((x % half) * mu) \div half) \div half
      less(r) == IF r >= L THEN r - L ELSE r
  IN less(less(less(x - quotient * L)))

\* The sum of a product keeps the width of the product.
muladd(a, b, c) == reduce_wide((a * b + c) % Wide)

\* clamp: the low three bits and the top one cleared, the one below it set.
clamp(h) == 2^(ScalarBits - 2) + ((h % 2^(ScalarBits - 2)) \div 8) * 8

-----------------------------------------------------------------------------
(* Ed25519.  A signature is the encoding of R and the scalar S.            *)

SecretHalves(seed) == [s |-> clamp(Hash(<<seed>>) % 2^ScalarBits), prefix |-> Hash(<<seed>>) \div 2^ScalarBits]

Keygen(seed) == compress(mul(BASE, SecretHalves(seed).s))

Sign(seed, msg) ==
  LET half == SecretHalves(seed)
      r == reduce_wide(Hash(<<half.prefix, msg>>))
      rBytes == compress(mul(BASE, r))
      k == reduce_wide(Hash(<<rBytes, Keygen(seed), msg>>))
  IN <<rBytes, muladd(k, half.s, r)>>

Verify(pk, msg, sig) ==
  LET a == decompress(pk)
      r == decompress(sig[1])
      k == reduce_wide(Hash(<<sig[1], pk, msg>>))
  IN /\ sig[2] < L
     /\ a # NoPoint /\ r # NoPoint
     /\ compress(mul(BASE, sig[2])) = compress(point_add(r, mul(a, k)))

-----------------------------------------------------------------------------
(* The field and the group by their definitions, over integers.            *)

\* Products and powers modulo P, a few bits at a time.
Digit == 64
TimesModP(a, b) ==
  LET step(k, acc) == (acc * Digit + a * ((b \div Digit^(4 - k)) % Digit)) % P
  IN Chain(4, 0, step)[4]
PowModP(a, e) ==
  LET step(k, acc) ==
        LET sq == TimesModP(acc, acc)
        IN IF (e \div 2^(FieldBits - k)) % 2 = 1 THEN TimesModP(sq, a) ELSE sq
  IN Chain(FieldBits, 1, step)[FieldBits]

ValueOf(f) ==
  LET step(i, v) == (v * Limb + f[Limbs + 1 - i]) % P IN Chain(Limbs, 0, step)[Limbs]

GroupAdd(p, q) ==
  LET k == TimesModP(D, TimesModP(TimesModP(p[1], q[1]), TimesModP(p[2], q[2])))
      over(a, b) == TimesModP(a % P, PowModP(b % P, P - 2))
  IN <<over(TimesModP(p[1], q[2]) + TimesModP(p[2], q[1]), 1 + k),
       over(TimesModP(p[2], q[2]) + TimesModP(p[1], q[1]), 1 - k)>>

Multiple(p, n) ==
  LET step(k, q) == GroupAdd(q, p) IN Chain(n, <<0, 1>>, step)[n]

OnCurve(x, y) ==
  LET xx == TimesModP(x, x)
      yy == TimesModP(y, y)
  IN (yy - xx - 1 - TimesModP(D, TimesModP(xx, yy))) % P = 0

\* Whether an encoding stands for a point: y below p, (y^2 - 1) / (d y^2 + 1) a square, and
\* no sign for zero.
IsStated(bytes) ==
  LET y == bytes % 2^FieldBits
      yy == TimesModP(y, y)
      uv == TimesModP((yy - 1) % P, (TimesModP(D, yy) + 1) % P)
  IN /\ y < P
     /\ uv = 0 \/ PowModP(uv, (P - 1) \div 2) = 1
     /\ uv = 0 => bytes < 2^FieldBits

AffineOf(p) ==
  LET zInv == invert(p.z) IN <<to_bytes(multiply(p.x, zInv)), to_bytes(multiply(p.y, zInv))>>

\* The elements arithmetic meets: read ones, products, sums and differences of those.
Product(a) == multiply(FromBytes(a), FromBytes(a))
Loose(a, b) ==
  {FromBytes(a), Product(a), add(Product(a), Product(b)), sub(Product(a), Product(b)),
   add(add(Product(a), Product(a)), sub(Product(a), Product(b)))}

\* Products and negations of any elements are exact and canonical, and no difference wraps.
ProductsAreExact(a, b) ==
  \A f \in Loose(a, b), g \in Loose(b, a) :
    LET fg == multiply(f, g)
    IN /\ to_bytes(fg) = TimesModP(ValueOf(f), ValueOf(g))
       /\ to_bytes(negate(f)) = (0 - ValueOf(f)) % P
       /\ ValueOf(sub(g, fg)) = (ValueOf(g) - ValueOf(fg)) % P

\* What is decoded is the point an encoding stands for, and encodes as it was.
DecodedIsStated(bytes) ==
  LET p == decompress(bytes)
      affine == AffineOf(p)
  IN p # NoPoint =>
       /\ IsStated(bytes) /\ OnCurve(affine[1], affine[2])
       /\ affine[2] = bytes % 2^FieldBits /\ affine[1] % 2 = bytes \div 2^FieldBits
       /\ compress(p) = bytes

\* Every point of the curve has an encoding that is decoded.
PointsAreDecoded(bytes) == IsStated(bytes) => decompress(bytes) # NoPoint

\* The sum of any two points, and multiples of points of every order.
GroupIsExact(bytes, other) ==
  LET p == decompress(bytes)
      q == decompress(other)
  IN p # NoPoint /\ q # NoPoint =>
       /\ AffineOf(point_add(p, q)) = GroupAdd(AffineOf(p), AffineOf(q))
       /\ AffineOf(double(p)) = GroupAdd(AffineOf(p), AffineOf(p))
       /\ \A n \in {0, 1, L} : AffineOf(mul(p, n)) = Multiple(AffineOf(p), n)

ScalarsReduce(high) ==
  /\ \A x \in high * 2^ScalarBits .. (high + 1) * 2^ScalarBits - 1 : reduce_wide(x) = x % L
  /\ \A b \in {256, 384, 504} : muladd(high % L, b, L - 1) = ((high % L) * b + L - 1) % L

\* A signature verifies, with its S alone and in one form only.
SignatureIsBound(seed, msg) ==
  LET pk == Keygen(seed)
      sig == Sign(seed, msg)
  IN /\ Verify(pk, msg, sig)
     /\ ~Verify(pk, msg, <<sig[1], sig[2] + L>>)
     /\ ~Verify(pk, msg, <<sig[1], (sig[2] + 1) % L>>)

===============================================================================
