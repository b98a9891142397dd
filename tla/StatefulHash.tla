---------------------------- MODULE StatefulHash ----------------------------
(***************************************************************************)
(* Verification of the stateful hash-based signatures: LMS (oxicrypt-lms)  *)
(* under the pair its public key names, and XMSS (oxicrypt-xmss).          *)
(*                                                                         *)
(* A hash value is the term that was hashed, so that two values are equal  *)
(* when and only when their inputs are.  The digest of a message is a      *)
(* parameter, reduced to one byte; a leaf index stands for the key pair.   *)
(***************************************************************************)
EXTENDS Integers, Sequences, SequencesExt

CONSTANT TreeHeight \* height of the trees that are built here: 5 to 25 in LMS, 10 in XMSS

Leaves == 2^TreeHeight

\* coef, base_w: digit i, of w bits, of a big-endian string of bytes.
Coef(s, bytes, w, i) == (s \div 2^(8 * bytes - w * (i + 1))) % 2^w

SumOver(S, f(_)) ==
  LET acc[k \in 0..S] == IF k = 0 THEN 0 ELSE acc[k-1] + f(k - 1)
  IN acc[S]

\* The checksum of u digits, shifted, as the 16-bit number whose digits follow.
Checksum(digest, n, w, u, ls) ==
  (SumOver(u, LAMBDA i : (2^w - 1) - Coef(digest, n, w, i)) * 2^ls) % 2^16

-----------------------------------------------------------------------------
(* The 80 pairs of LMS.                                                    *)

Mid == <<"Sha256M32", "Sha256M24", "ShakeM32", "ShakeM24">>
Height == <<5, 10, 15, 20, 25>>
Winternitz == <<1, 2, 4, 8>>

\* route_by_typecode: the module of the named pair, or none of the 80.
route_by_typecode(lmsType, lmotsType) ==
  {<<f, h, w>> \in (1..4) \X (1..5) \X (1..4) :
     lmsType = 5 * f + h - 1 /\ lmotsType = 4 * (f - 1) + w}

\* The constants of one pair's module.
PairModule(f, h, w) ==
  LET n == IF Mid[f] \in {"Sha256M32", "ShakeM32"} THEN 32 ELSE 24
      digits == IF n = 32
                THEN <<[u |-> 256, v |-> 9, p |-> 265, ls |-> 7],
                       [u |-> 128, v |-> 5, p |-> 133, ls |-> 6],
                       [u |-> 64, v |-> 3, p |-> 67, ls |-> 4],
                       [u |-> 32, v |-> 2, p |-> 34, ls |-> 0]>>
                ELSE <<[u |-> 192, v |-> 8, p |-> 200, ls |-> 8],
                       [u |-> 96, v |-> 5, p |-> 101, ls |-> 6],
                       [u |-> 48, v |-> 3, p |-> 51, ls |-> 4],
                       [u |-> 24, v |-> 2, p |-> 26, ls |-> 0]>>
  IN [n |-> n, h |-> Height[h], w |-> Winternitz[w], u |-> digits[w].u, v |-> digits[w].v,
      p |-> digits[w].p, ls |-> digits[w].ls,
      lms_type |-> 5 * f + h - 1, lmots_type |-> 4 * (f - 1) + w,
      service |-> <<Mid[f], Height[h], Winternitz[w]>>]

PUBLIC_KEY_LEN(m) == 24 + m.n
OTS_SIG_LEN(m) == 4 + m.n + m.p * m.n
SIGNATURE_LEN(m) == 8 + OTS_SIG_LEN(m) + m.h * m.n

\* verify_any: which pair's verifier runs, for a key and a signature of these lengths.
Routed(lmsType, lmotsType, keyLen, sigLen) ==
  {m \in {PairModule(r[1], r[2], r[3]) : r \in route_by_typecode(lmsType, lmotsType)} :
     keyLen = PUBLIC_KEY_LEN(m) /\ sigLen = SIGNATURE_LEN(m)}

-----------------------------------------------------------------------------
(* LMS verification.  Field 3 of a hashed string is a chain index or one   *)
(* of four diversifiers.                                                   *)

D_PBLC == 32896
D_LEAF == 33410
D_INTR == 33667

ChainStep(q, i, j, tmp) == <<q, i, j, tmp>>

Chain(q, i, start, count, x) ==
  LET t[k \in 0..count] == IF k = 0 THEN x ELSE ChainStep(q, i, start + k - 1, t[k-1])
  IN t[count]

\* A module reduced to a digest of one byte, for each Winternitz parameter.
Reduced ==
  [w \in {1, 2, 4} |->
     CASE w = 1 -> [n |-> 1, w |-> 1, u |-> 8, v |-> 4, p |-> 12, ls |-> 12, lms_type |-> 5, lmots_type |-> 1]
       [] w = 2 -> [n |-> 1, w |-> 2, u |-> 4, v |-> 2, p |-> 6, ls |-> 12, lms_type |-> 5, lmots_type |-> 2]
       [] w = 4 -> [n |-> 1, w |-> 4, u |-> 2, v |-> 2, p |-> 4, ls |-> 8, lms_type |-> 5, lmots_type |-> 3]]

\* coef_q_cksm, by chain.
Digit(m, digest, i) ==
  IF i < m.u THEN Coef(digest, m.n, m.w, i)
  ELSE Coef(Checksum(digest, m.n, m.w, m.u, m.ls), 2, m.w, i - m.u)

\* ots_verify_candidate: every chain is completed from the digit of the digest.
OtsCandidate(m, q, digest, y) ==
  <<q, D_PBLC, [i \in 1..m.p |->
     LET a == Digit(m, digest, i - 1) IN Chain(q, i - 1, a, 2^m.w - 1 - a, y[i])]>>

HashLeaf(r, k) == <<r, D_LEAF, k>>
HashInternal(r, left, right) == <<r, D_INTR, left, right>>

\* walk_auth_path of LMS: a node's number tells its side.
WalkLms(k, q, auth) ==
  LET node(l) == (Leaves + q) \div 2^l
      tmp[l \in 0..TreeHeight] ==
        IF l = 0 THEN HashLeaf(node(0), k)
        ELSE IF node(l-1) % 2 = 0 THEN HashInternal(node(l), tmp[l-1], auth[l])
        ELSE HashInternal(node(l), auth[l], tmp[l-1])
  IN tmp[TreeHeight]

LmsVerify(m, key, sig, digest) ==
  /\ key.lms_type = m.lms_type /\ key.lmots_type = m.lmots_type
  /\ sig.q < Leaves
  /\ sig.lms_type = m.lms_type /\ sig.lmots_type = m.lmots_type
  /\ WalkLms(OtsCandidate(m, sig.q, digest, sig.y), sig.q, sig.auth) = key.root

\* The signer, which is not part of the module: RFC 8554 keys and signatures.
LmsSecret(q, i) == <<"secret", q, i>>

LmsTree ==
  [w \in {1, 2, 4} |->
     LET m == Reduced[w]
         k(q) == <<q, D_PBLC, [i \in 1..m.p |-> Chain(q, i-1, 0, 2^w - 1, LmsSecret(q, i-1))]>>
         node[r \in 1..2*Leaves-1] ==
           IF r >= Leaves THEN HashLeaf(r, k(r - Leaves))
           ELSE HashInternal(r, node[2*r], node[2*r+1])
     IN [r \in 1..2*Leaves-1 |-> node[r]]]

LmsKey(w) == [lms_type |-> Reduced[w].lms_type, lmots_type |-> Reduced[w].lmots_type,
              root |-> LmsTree[w][1]]

LmsSign(w, q, digest) ==
  LET m == Reduced[w]
      sibling(l) == LET r == (Leaves + q) \div 2^(l-1) IN IF r % 2 = 0 THEN r + 1 ELSE r - 1
  IN [q |-> q, lms_type |-> m.lms_type, lmots_type |-> m.lmots_type,
      y |-> [i \in 1..m.p |-> Chain(q, i-1, 0, Digit(m, digest, i-1), LmsSecret(q, i-1))],
      auth |-> [l \in 1..TreeHeight |-> LmsTree[w][sibling(l)]]]

-----------------------------------------------------------------------------
(* XMSS: an address tells every hash call from every other.                *)

Adrs == <<0, 0, 0, 0, 0, 0, 0, 0>> \* words 0 to 7
OTS_HASH == 0
L_TREE == 1
TREE_HASH == 2

SetType(adrs, t) == SubSeq(adrs, 1, 3) \o <<t, 0, 0, 0, 0>>
SetWord4(adrs, x) == [adrs EXCEPT ![5] = x] \* OTS and L-tree address
SetWord5(adrs, x) == [adrs EXCEPT ![6] = x] \* chain address, tree height
SetHashAddress(adrs, x) == [adrs EXCEPT ![7] = x]
SetKeyAndMask(adrs, x) == [adrs EXCEPT ![8] = x]

\* Fault: the index goes to the word that the key selector then overwrites.
SetTreeIndex_Word7(adrs, x) == [adrs EXCEPT ![8] = x]

SetTreeIndex(adrs, x) == [adrs EXCEPT ![7] = x]

Prf(adrs) == <<"prf", adrs>>

\* The address of step j of chain i of the key pair q, and of the nodes of both trees.
StepAdrs(q, i, j) == SetHashAddress(SetWord5(SetWord4(SetType(Adrs, OTS_HASH), q), i), j)
LtreeAdrs(q, height, i) == SetTreeIndex(SetWord5(SetWord4(SetType(Adrs, L_TREE), q), height), i)
NodeAdrs(height, i) == SetTreeIndex(SetWord5(SetType(Adrs, TREE_HASH), height), i)

WotsStep(q, i, j, tmp) ==
  <<"F", Prf(SetKeyAndMask(StepAdrs(q, i, j), 0)), Prf(SetKeyAndMask(StepAdrs(q, i, j), 1)), tmp>>

WotsChain(q, i, start, steps, x) ==
  LET t[k \in 0..steps] == IF k = 0 THEN x ELSE WotsStep(q, i, start + k - 1, t[k-1])
  IN t[steps]

RandHash(left, right, adrs) ==
  <<"H", Prf(SetKeyAndMask(adrs, 0)), <<left, Prf(SetKeyAndMask(adrs, 1))>>,
    <<right, Prf(SetKeyAndMask(adrs, 2))>> >>

W == 16
LEN_1 == 2 \* 64: two digits for each byte of the digest
LEN == LEN_1 + 3

\* msg_digit
MsgDigit(digest, i) ==
  IF i < LEN_1 THEN Coef(digest, 1, 4, i) ELSE Coef(Checksum(digest, 1, 4, LEN_1, 4), 2, 4, i - LEN_1)

WotsPkFromSig(digest, sig, q) ==
  [i \in 1..LEN |->
     LET a == MsgDigit(digest, i - 1) IN WotsChain(q, i - 1, a, W - 1 - a, sig[i])]

\* ltree: pairs are hashed, an odd last node is lifted, until one is left.
Ltree(pk, q) ==
  LET level[k \in 0..LEN] ==
        IF k = 0 THEN pk
        ELSE LET below == level[k-1]
                 half == Len(below) \div 2
             IN [i \in 1..half |-> RandHash(below[2*i-1], below[2*i], LtreeAdrs(q, k - 1, i - 1))]
                \o (IF Len(below) % 2 = 1 /\ half > 0 THEN <<Last(below)>> ELSE <<>>)
      done == CHOOSE k \in 0..LEN : Len(level[k]) = 1
  IN level[done][1]

\* root_from_sig
XmssRoot(digest, sig) ==
  LET tmp[l \in 0..TreeHeight] ==
        IF l = 0 THEN Ltree(WotsPkFromSig(digest, sig.wots, sig.idx), sig.idx)
        ELSE LET parent == sig.idx \div 2^l
             IN IF (sig.idx \div 2^(l-1)) % 2 = 0
                THEN RandHash(tmp[l-1], sig.auth[l], NodeAdrs(l - 1, parent))
                ELSE RandHash(sig.auth[l], tmp[l-1], NodeAdrs(l - 1, parent))
  IN tmp[TreeHeight]

XmssVerify(root, sig, digest) == sig.idx < Leaves /\ XmssRoot(digest, sig) = root

\* The signer, which is not part of the module: RFC 8391 keys and signatures.
WotsSecret(q, i) == <<"secret", q, i>>

XmssNodes ==
  LET leaf(q) == Ltree([i \in 1..LEN |-> WotsChain(q, i-1, 0, W - 1, WotsSecret(q, i-1))], q)
      node[l \in 0..TreeHeight, i \in 0..Leaves-1] ==
        IF l = 0 THEN leaf(i) ELSE RandHash(node[l-1, 2*i], node[l-1, 2*i+1], NodeAdrs(l - 1, i))
  IN [l \in 0..TreeHeight |-> [i \in 0..2^(TreeHeight-l)-1 |-> node[l, i]]]

XmssSign(q, digest) ==
  LET sibling(l) == LET i == q \div 2^(l-1) IN IF i % 2 = 0 THEN i + 1 ELSE i - 1
  IN [idx |-> q, wots |-> [i \in 1..LEN |-> WotsChain(q, i-1, 0, MsgDigit(digest, i-1), WotsSecret(q, i-1))],
      auth |-> [l \in 1..TreeHeight |-> XmssNodes[l-1][sibling(l)]]]

-----------------------------------------------------------------------------
(* What verification owes.                                                 *)

\* The pair that a key names is the pair whose verifier runs, under its own service and with
\* parameters that fit one another: every digest bit has a digit, the checksum its digits.
PairFits(lmsType, lmotsType) ==
  LET routes == route_by_typecode(lmsType, lmotsType)
  IN \A r \in routes :
       LET m == PairModule(r[1], r[2], r[3])
       IN /\ routes = {r} /\ m.lms_type = lmsType /\ m.lmots_type = lmotsType
          /\ Routed(lmsType, lmotsType, PUBLIC_KEY_LEN(m), SIGNATURE_LEN(m)) = {m}
          /\ m.u * m.w = 8 * m.n /\ m.p = m.u + m.v /\ m.v * m.w + m.ls = 16
          /\ (2^m.w - 1) * m.u < 2^(m.v * m.w)

\* From one signature no other digest can be signed by completing chains: a digit falls.
OneWay(digits) ==
  \A signed, other \in DOMAIN digits : signed # other =>
    \E i \in DOMAIN digits[signed] : digits[other][i] < digits[signed][i]

LmsDigits ==
  [w \in DOMAIN Reduced |-> [d \in 0..255 |-> [i \in 1..Reduced[w].p |-> Digit(Reduced[w], d, i - 1)]]]

XmssDigits == [d \in 0..255 |-> [i \in 1..LEN |-> MsgDigit(d, i - 1)]]

DigitsAreOneWay == OneWay(XmssDigits) /\ \A w \in DOMAIN Reduced : OneWay(LmsDigits[w])

\* A signature verifies for its digest and its leaf, and for no other of either.
LmsBinds(w, q, digest) ==
  LET m == Reduced[w]
      sig == LmsSign(w, q, digest)
  IN \A q2 \in 0..Leaves, d2 \in {digest, 255 - digest, 0} :
       LmsVerify(m, LmsKey(w), [sig EXCEPT !.q = q2], d2) <=> q2 = q /\ d2 = digest

\* The address of a node is no other node's.
AddressesDiffer ==
  LET places == {<<"step", q, i, j>> : q \in 0..Leaves-1, i \in 0..LEN-1, j \in 0..W-2}
                \cup {<<"ltree", q, l, i>> : q \in 0..Leaves-1, l \in 0..2, i \in 0..1}
                \cup {<<"node", 0, l, i>> : l \in 0..TreeHeight-1, i \in 0..Leaves-1}
      adrs(x) == CASE x[1] = "step" -> StepAdrs(x[2], x[3], x[4])
                   [] x[1] = "ltree" -> LtreeAdrs(x[2], x[3], x[4])
                   [] x[1] = "node" -> NodeAdrs(x[3], x[4])
      used == UNION {{SetKeyAndMask(adrs(x), k) : k \in 0..2} : x \in places}
  IN Cardinality(used) = 3 * Cardinality(places)

XmssBinds(q, digest) ==
  LET sig == XmssSign(q, digest)
  IN \A q2 \in 0..Leaves, d2 \in {digest, 255 - digest, 0} :
       XmssVerify(XmssNodes[TreeHeight][0], [sig EXCEPT !.idx = q2], d2) <=> q2 = q /\ d2 = digest
=============================================================================
