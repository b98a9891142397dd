------------------------------- MODULE SlhDsa -------------------------------
(***************************************************************************)
(* SLH-DSA (oxicrypt-slh-dsa): the FORS few-time signature of a digest,    *)
(* the hyper-tree of XMSS trees that signs the FORS key, and the addresses *)
(* that tell their hash calls apart, for the parameter sets of the crate   *)
(* and, run in full, for one reduced set.                                  *)
(*                                                                         *)
(* A hash value is the term that was hashed.  A WOTS+ chain is ideal: from *)
(* a signature its end can be computed for the signed message only.        *)
(***************************************************************************)
EXTENDS Integers, Sequences, FiniteSets

CONSTANTS
  H_PRIME, \* height of one XMSS tree
  D,       \* layers of the hyper-tree
  A,       \* height of a FORS tree
  K,       \* FORS trees
  CHAINS   \* WOTS+ chains (LEN)

\* The parameter sets, one for SHA-2 and one for SHAKE each: s and f of 128, 192 and 256 bits.
ParameterSets ==
  {[n |-> 16, h |-> 63, d |-> 7, a |-> 12, k |-> 14], [n |-> 16, h |-> 66, d |-> 22, a |-> 6, k |-> 33],
   [n |-> 24, h |-> 63, d |-> 7, a |-> 14, k |-> 17], [n |-> 24, h |-> 66, d |-> 22, a |-> 8, k |-> 33],
   [n |-> 32, h |-> 64, d |-> 8, a |-> 14, k |-> 22], [n |-> 32, h |-> 68, d |-> 17, a |-> 9, k |-> 35]}

CeilBytes(bits) == (bits + 7) \div 8

\* How h_msg splits its output: the FORS digest, the tree index and the leaf index.
LeafBytes(hPrime) == CeilBytes(hPrime)

SplitBytes(h, hPrime, a, k) ==
  [fors |-> CeilBytes(k * a), tree |-> CeilBytes(h - hPrime), leaf |-> LeafBytes(hPrime)]

\* The masks that cut the bytes to indices; md keeps all its bytes.
HMsg(out) == [md |-> out.md, tree_idx |-> out.tree % 2^(H_PRIME * D - H_PRIME),
              leaf_idx |-> out.leaf % 2^H_PRIME]

\* fors_index: the digest is read from its highest bit on.
ForsIndex(md, i) == (md \div 2^(8 * CeilBytes(K * A) - A * (i + 1))) % 2^A

-----------------------------------------------------------------------------
(* Addresses and the hashes they tweak.                                    *)

WotsHash == 0
WotsPk == 1
Tree == 2
ForsTree == 3
ForsRoots == 4
WotsPrf == 5
ForsPrf == 6

Zero == [layer |-> 0, tree |-> 0, type |-> 0, keypair |-> 0, height |-> 0, index |-> 0]

At(layer, tree) == [Zero EXCEPT !.layer = layer, !.tree = tree]

\* set_type clears the words after the type.
SetKind(adrs, t) == [adrs EXCEPT !.type = t, !.keypair = 0, !.height = 0, !.index = 0]

\* The callers that keep the key pair set it again after set_type.
SetKindOf(adrs, t) == [SetKind(adrs, t) EXCEPT !.keypair = adrs.keypair]
Keypair(adrs, kp) == [adrs EXCEPT !.keypair = kp]
Node(adrs, height, index) == [adrs EXCEPT !.height = height, !.index = index]

\* What reaches a SHA-2 hash: the low byte of the layer and of the type.
Compress(adrs) == [adrs EXCEPT !.layer = @ % 256, !.type = @ % 256]

F(adrs, x) == <<"F", Compress(adrs), x>>
H2(adrs, left, right) == <<"H", Compress(adrs), left, right>>
T(adrs, xs) == <<"T", Compress(adrs), xs>>
PrfOf(adrs) == <<"PRF", Compress(adrs)>>

-----------------------------------------------------------------------------
(* WOTS+                                                                   *)

ChainSecretAdrs(adrs, i) == [SetKindOf(adrs, WotsPrf) EXCEPT !.height = i]
ChainAdrs(adrs, i) == [SetKindOf(adrs, WotsHash) EXCEPT !.height = i]

\* The end of chain i from its secret, and what a signature of m reveals of it.
ChainEnd(adrs, i) == <<"end", ChainAdrs(adrs, i), PrfOf(ChainSecretAdrs(adrs, i))>>
ChainAtDigit(adrs, i, m) == <<"mid", ChainAdrs(adrs, i), PrfOf(ChainSecretAdrs(adrs, i)), m>>

\* The rest of a chain, run under the verifier's own address and message.
CompleteChain(adrs, i, x, m) ==
  IF x[2] = ChainAdrs(adrs, i) /\ x[4] = m THEN <<"end", x[2], x[3]>>
  ELSE <<"stray", ChainAdrs(adrs, i), x>>

wots_pkgen(adrs) == T(SetKindOf(adrs, WotsPk), [i \in 1..CHAINS |-> ChainEnd(adrs, i - 1)])

wots_sign(adrs, m) == [i \in 1..CHAINS |-> ChainAtDigit(adrs, i - 1, m)]

wots_pk_from_sig(adrs, sig, m) ==
  T(SetKindOf(adrs, WotsPk), [i \in 1..CHAINS |-> CompleteChain(adrs, i - 1, sig[i], m)])

-----------------------------------------------------------------------------
(* FORS                                                                    *)

ForsSecretAdrs(adrs, idx) == [SetKindOf(adrs, ForsPrf) EXCEPT !.index = idx]
ForsNodeAdrs(adrs, height, idx) == Node(SetKindOf(adrs, ForsTree), height, idx)

TreeBase(i) == i * 2^A

fors_node(adrs, base, idx, height) ==
  LET node[x \in Nat, l \in 0..A] ==
        IF l = 0 THEN F(ForsNodeAdrs(adrs, 0, base + x), PrfOf(ForsSecretAdrs(adrs, base + x)))
        ELSE H2(ForsNodeAdrs(adrs, l, base \div 2^l + x), node[2*x, l-1], node[2*x+1, l-1])
  IN node[idx, height]

Sibling(idx, j) == LET x == idx \div 2^j IN IF x % 2 = 0 THEN x + 1 ELSE x - 1

fors_sign(md, adrs) ==
  [i \in 1..K |->
     LET idx == ForsIndex(md, i - 1)
     IN [sk |-> PrfOf(ForsSecretAdrs(adrs, TreeBase(i - 1) + idx)),
         auth |-> [j \in 1..A |-> fors_node(adrs, TreeBase(i - 1), Sibling(idx, j - 1), j - 1)]]]

fors_pk_from_sig(md, sig, adrs) ==
  LET root(i) ==
        LET idx == ForsIndex(md, i - 1)
            base == TreeBase(i - 1)
            node[j \in 0..A] ==
              IF j = 0 THEN F(ForsNodeAdrs(adrs, 0, base + idx), sig[i].sk)
              ELSE LET at == ForsNodeAdrs(adrs, j, base \div 2^j + idx \div 2^j)
                   IN IF (idx \div 2^(j-1)) % 2 = 0 THEN H2(at, node[j-1], sig[i].auth[j])
                      ELSE H2(at, sig[i].auth[j], node[j-1])
        IN node[A]
  IN T(SetKindOf(adrs, ForsRoots), [i \in 1..K |-> root(i)])

-----------------------------------------------------------------------------
(* XMSS trees and the hyper-tree                                           *)

LeafAdrs(adrs, idx) == Keypair(SetKind(adrs, WotsHash), idx)
TreeAdrs(adrs, height, idx) == Node(SetKind(adrs, Tree), height, idx)

xmss_node(adrs, idx, height) ==
  LET node[x \in Nat, l \in 0..H_PRIME] ==
        IF l = 0 THEN wots_pkgen(LeafAdrs(adrs, x))
        ELSE H2(TreeAdrs(adrs, l, x), node[2*x, l-1], node[2*x+1, l-1])
  IN node[idx, height]

xmss_sign(idx, m, adrs) ==
  [wots |-> wots_sign(LeafAdrs(adrs, idx), m),
   auth |-> [j \in 1..H_PRIME |-> xmss_node(adrs, Sibling(idx, j - 1), j - 1)]]

xmss_pk_from_sig(idx, sig, m, adrs) ==
  LET node[j \in 0..H_PRIME] ==
        IF j = 0 THEN wots_pk_from_sig(LeafAdrs(adrs, idx), sig.wots, m)
        ELSE LET at == TreeAdrs(adrs, j, idx \div 2^j)
             IN IF (idx \div 2^(j-1)) % 2 = 0 THEN H2(at, node[j-1], sig.auth[j])
                ELSE H2(at, sig.auth[j], node[j-1])
  IN node[H_PRIME]

\* The tree and the leaf that layer uses: a tree's index is cut into leaf and parent tree.
TreeAt(tree_idx, layer) == tree_idx \div 2^(H_PRIME * layer)
LeafAt(tree_idx, leaf_idx, layer) ==
  IF layer = 0 THEN leaf_idx ELSE TreeAt(tree_idx, layer - 1) % 2^H_PRIME

\* Every layer signs the root the layer below recomputes.
ht_sign(m, tree_idx, leaf_idx) ==
  LET layer[l \in 0..D-1] ==
        LET signed == IF l = 0 THEN m ELSE layer[l-1].root
            adrs == At(l, TreeAt(tree_idx, l))
            idx == LeafAt(tree_idx, leaf_idx, l)
            sig == xmss_sign(idx, signed, adrs)
        IN [sig |-> sig, root |-> xmss_pk_from_sig(idx, sig, signed, adrs)]
  IN [l \in 0..D-1 |-> layer[l].sig]

ht_verify(pk_root, m, sig, tree_idx, leaf_idx) ==
  LET root[l \in 0..D-1] ==
        xmss_pk_from_sig(LeafAt(tree_idx, leaf_idx, l), sig[l], IF l = 0 THEN m ELSE root[l-1],
                         At(l, TreeAt(tree_idx, l)))
  IN root[D-1] = pk_root

-----------------------------------------------------------------------------
(* Keys and signatures; out is what h_msg expands for the message.         *)

pk_root == xmss_node(At(D - 1, 0), 0, H_PRIME)

ForsAdrs(h) == Keypair(SetKind(At(0, h.tree_idx), ForsTree), h.leaf_idx)

sign(out) ==
  LET h == HMsg(out)
      fors == fors_sign(h.md, ForsAdrs(h))
  IN [fors |-> fors,
      ht |-> ht_sign(fors_pk_from_sig(h.md, fors, ForsAdrs(h)), h.tree_idx, h.leaf_idx)]

verify(out, sig) ==
  LET h == HMsg(out)
  IN ht_verify(pk_root, fors_pk_from_sig(h.md, sig.fors, ForsAdrs(h)), sig.ht, h.tree_idx, h.leaf_idx)

\* build_external_prefix: a zero, the length of the context, the context.
ExternalMessage(ctx, message) ==
  IF Len(ctx) > 255 THEN {} ELSE {<<0, Len(ctx)>> \o ctx \o message}

-----------------------------------------------------------------------------
(* What a signature owes.                                                  *)

\* A signature verifies for what h_msg gave the signer; for another digest, tree or leaf it
\* does when the masks and the unread bits leave no difference, and in no other case.
SignatureBinds(out) ==
  LET sig == sign(out)
      read(o) == <<[i \in 1..K |-> ForsIndex(o.md, i - 1)], HMsg(o).tree_idx, HMsg(o).leaf_idx>>
      near == {out} \cup {[out EXCEPT !.md = (@ + 2^j) % 256] : j \in 0..7}
                \cup {[out EXCEPT !.tree = (@ + x) % 256] : x \in {1, 4}}
                \cup {[out EXCEPT !.leaf = (@ + x) % 256] : x \in {1, 2, 4}}
  IN \A o \in near : verify(o, sig) <=> read(o) = read(out)

\* No two secrets of a key are drawn at one address, in any layer, tree or FORS instance.
SecretsDiffer ==
  LET trees(l) == 0..2^(H_PRIME * (D - 1 - l)) - 1
      wots == UNION {{<<l, t, kp, i>> : t \in trees(l), kp \in 0..2^H_PRIME - 1, i \in 0..CHAINS-1}
                     : l \in 0..D-1}
      fors == {<<t, kp, idx>> : t \in trees(0), kp \in 0..2^H_PRIME - 1, idx \in 0..K * 2^A - 1}
      used == {PrfOf(ChainSecretAdrs(LeafAdrs(At(x[1], x[2]), x[3]), x[4])) : x \in wots}
              \cup {PrfOf(ForsSecretAdrs(ForsAdrs([tree_idx |-> x[1], leaf_idx |-> x[2]]), x[3])) : x \in fors}
  IN Cardinality(used) = Cardinality(wots) + Cardinality(fors)

\* In every parameter set the split covers the indices, and each fits the type that holds it:
\* a 64-byte buffer, u64 and u32 indices, the layer's byte, the 16-bit checksum.
ParametersFit ==
  \A p \in ParameterSets :
    LET hPrime == p.h \div p.d
        b == SplitBytes(p.h, hPrime, p.a, p.k)
    IN /\ hPrime * p.d = p.h
       /\ 8 * b.fors >= p.k * p.a /\ 8 * b.tree >= p.h - hPrime /\ 8 * b.leaf >= hPrime
       /\ b.fors + b.tree + b.leaf <= 64 /\ b.tree <= 8 /\ b.leaf <= 4
       /\ p.d <= 256 /\ p.a < 32 /\ p.k < 2^(31 - p.a) /\ 2 * p.n * 15 * 16 < 2^16

\* Two contexts and messages are framed alike only when they are the same.
FramesDiffer ==
  LET strings == UNION {[1..n -> {0, 1, 2}] : n \in 0..2}
  IN \A c1, c2, m1, m2 \in strings :
       ExternalMessage(c1, m1) = ExternalMessage(c2, m2) => c1 = c2 /\ m1 = m2
=============================================================================
