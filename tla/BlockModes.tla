------------------------------ MODULE BlockModes ------------------------------
(***************************************************************************)
(* The modes of operation of AES: ECB, CBC, CTR and GCM (oxicrypt-aes      *)
(* modes.rs), CCM (ccm.rs), the key wraps KW and KWP in both directions of *)
(* the cipher (kw.rs) and CMAC (oxicrypt-cmac), over real blocks of 16     *)
(* bytes.  The cipher is a parameter: any permutation of blocks.           *)
(*                                                                         *)
(* A call gives a sequence of bytes or Refused.  The gate of every call is *)
(* ModuleState's; lengths of output buffers are those the caller must      *)
(* give.                                                                   *)
(***************************************************************************)
EXTENDS ByteStrings, FiniteSets

CONSTANTS
  Encrypt(_), \* encrypt_block_with under one key
  Decrypt(_)  \* decrypt_block_with under the same

BLOCK_SIZE == 16
SEMI == 8

\* What a refused call gives: no string of bytes.
Refused == <<-1>>

-----------------------------------------------------------------------------
(* modes.rs                                                                *)

Aligned(input) == Len(input) % BLOCK_SIZE = 0

\* The cipher function of a direction, "forward" or "inverse".
Cipher(direction, blk) == IF direction = "forward" THEN Encrypt(blk) ELSE Decrypt(blk)

ecb(direction, input) ==
  IF ~Aligned(input) THEN Refused
  ELSE Joined(Blocks(input, 16), LAMBDA i : Cipher(direction, BlockOf(input, i, 16)))

cbc_encrypt(iv, input) ==
  LET n == Blocks(input, 16)
      out == Chain(n, iv, LAMBDA i, prev : Encrypt(XorBytes(BlockOf(input, i, 16), prev)))
  IN IF ~Aligned(input) THEN Refused ELSE Joined(n, LAMBDA i : out[i])

cbc_decrypt(iv, input) ==
  LET prev(i) == IF i = 1 THEN iv ELSE BlockOf(input, i - 1, 16)
  IN IF ~Aligned(input) THEN Refused
     ELSE Joined(Blocks(input, 16), LAMBDA i : XorBytes(Decrypt(BlockOf(input, i, 16)), prev(i)))

\* Increments the last width bytes as one number, which wraps within them.
Increment(ctr, width) ==
  Bytes(16, LAMBDA i :
    IF i >= 16 - width /\ \A k \in i + 2..16 : ctr[k] = 255 THEN (ctr[i + 1] + 1) % 256
    ELSE ctr[i + 1])

inc32(ctr) == Increment(ctr, 4)
inc128_for_ctr(ctr) == Increment(ctr, 16)

\* The input under the key stream of n counter blocks.
Stream(input, counter(_)) ==
  Joined(Blocks(input, 16), LAMBDA i : XorBytes(BlockOf(input, i, 16), Encrypt(counter(i))))

ctr_xor(icb, input) ==
  LET ctr == Chain(Blocks(input, 16), icb, LAMBDA i, c : IF i = 1 THEN c ELSE inc128_for_ctr(c))
  IN Stream(input, LAMBDA i : ctr[i])

Bit(blk, i) == (blk[i \div 8 + 1] \div 2^(7 - (i % 8))) % 2

\* The product in GF(2^128), the coefficient of 1 first: z gathers the multiples of y.
gf_mul_portable(x, y) ==
  LET halved(v) == \* v >> 1, with R = 0xe1 || 0 when a bit falls out
        Bytes(128, LAMBDA k :
          ((IF k = 0 THEN 0 ELSE v[k]) + (IF k \in {0, 1, 2, 7} THEN v[128] ELSE 0)) % 2)
      add(i, s) == [z |-> IF Bit(x, i) = 0 THEN s.z
                          ELSE Bytes(128, LAMBDA k : (s.z[k + 1] + s.v[k + 1]) % 2),
                    v |-> halved(s.v)]
      bits(j, s) == Chain(8, s, LAMBDA i, t : add(8 * (j - 1) + i - 1, t))[8]
      z == Chain(16, [z |-> Zeros(128), v |-> Bytes(128, LAMBDA k : Bit(y, k))], bits)[16].z
      byte(b) == FoldLeft(LAMBDA acc, bit : 2 * acc + bit, 0, SubSeq(z, 8 * b + 1, 8 * b + 8))
  IN Bytes(16, byte)

ghash_update(y, h, data) ==
  LET n == Blocks(data, 16)
  IN Chain(n, y, LAMBDA i, c : gf_mul_portable(XorBytes(c, Padded(BlockOf(data, i, 16), 16)), h))[n]

J0(iv) == iv \o <<0, 0, 0, 1>>

\* Counter block i of the data.
GcmCounter(iv, n) == Chain(n, J0(iv), LAMBDA i, c : inc32(c))

GcmTag(iv, aad, ciphertext) ==
  LET h == Encrypt(Zeros(16))
      lengths == BigEndian(8 * Len(aad), 8) \o BigEndian(8 * Len(ciphertext), 8)
      y == ghash_update(ghash_update(Zeros(16), h, aad), h, ciphertext)
  IN XorBytes(Encrypt(J0(iv)), gf_mul_portable(XorBytes(y, lengths), h))

gcm_encrypt(iv, aad, plaintext) ==
  LET ctr == GcmCounter(iv, Blocks(plaintext, 16))
      ciphertext == Stream(plaintext, LAMBDA i : ctr[i])
  IN IF Len(iv) # 12 THEN Refused ELSE ciphertext \o GcmTag(iv, aad, ciphertext)

gcm_decrypt(iv, aad, ciphertext, tag) ==
  LET ctr == GcmCounter(iv, Blocks(ciphertext, 16))
  IN IF Len(iv) # 12 \/ GcmTag(iv, aad, ciphertext) # tag THEN Refused
     ELSE Stream(ciphertext, LAMBDA i : ctr[i])

-----------------------------------------------------------------------------
(* ccm.rs                                                                  *)

\* Bytes of the length and the counter.
LengthBytes(nonce) == BLOCK_SIZE - 1 - Len(nonce)

format_b0(nonce, adata_present, tlen, plen) ==
  <<(IF adata_present THEN 64 ELSE 0) + ((tlen - 2) \div 2) * 8 + LengthBytes(nonce) - 1>>
  \o nonce \o BigEndian(plen, LengthBytes(nonce))

format_ctr(nonce, i) == <<LengthBytes(nonce) - 1>> \o nonce \o BigEndian(i, LengthBytes(nonce))

\* How the length of the associated data is written; lengths from 2^32 on have ten bytes.
AadPrefix(alen) ==
  IF alen < 65280 THEN BigEndian(alen, 2) ELSE <<255, 254>> \o BigEndian(alen, 4)

\* The blocks under the tag: B0, the prefixed associated data, the plaintext.
CcmBlocks(nonce, aad, plaintext, tlen) ==
  LET prefixed == IF aad = <<>> THEN <<>> ELSE AadPrefix(Len(aad)) \o aad
      cut(s) == Bytes(Blocks(s, 16), LAMBDA i : Padded(BlockOf(s, i + 1, 16), 16))
  IN <<format_b0(nonce, aad # <<>>, tlen, Len(plaintext))>> \o cut(prefixed) \o cut(plaintext)

ccm_mac(nonce, aad, plaintext, tlen) ==
  LET blocks == CcmBlocks(nonce, aad, plaintext, tlen)
  IN Chain(Len(blocks), Zeros(16), LAMBDA i, y : Encrypt(XorBytes(y, blocks[i])))[Len(blocks)]

validate_params(nonce_len, plaintext_len, tlen) ==
  LET l == BLOCK_SIZE - 1 - nonce_len
  IN nonce_len \in 7..13 /\ tlen \in {4, 6, 8, 10, 12, 14, 16}
     /\ (l < 4 => plaintext_len < 256^l)

CcmTag(nonce, aad, plaintext, tlen) ==
  SubSeq(XorBytes(ccm_mac(nonce, aad, plaintext, tlen), Encrypt(format_ctr(nonce, 0))), 1, tlen)

ccm_encrypt(nonce, aad, plaintext, tlen) ==
  IF ~validate_params(Len(nonce), Len(plaintext), tlen) THEN Refused
  ELSE Stream(plaintext, LAMBDA i : format_ctr(nonce, i)) \o CcmTag(nonce, aad, plaintext, tlen)

ccm_decrypt(nonce, aad, ciphertext, tlen) ==
  LET plen == Len(ciphertext) - tlen
      out == Stream(SubSeq(ciphertext, 1, plen), LAMBDA i : format_ctr(nonce, i))
  IN IF plen < 0 \/ ~validate_params(Len(nonce), plen, tlen) THEN Refused
     ELSE IF CcmTag(nonce, aad, out, tlen) # SubSeq(ciphertext, plen + 1, Len(ciphertext)) THEN Refused
     ELSE out

-----------------------------------------------------------------------------
(* kw.rs: wrapping uses either direction of the cipher, unwrapping is told *)
(* the one that undoes it.                                                 *)

KW_DEFAULT_IV == Bytes(8, LAMBDA i : 166)
KWP_IV_PREFIX == <<166, 89, 89, 166>>

\* The registers behind A.
Registers(s) == Bytes(Len(s) \div SEMI, LAMBDA i : BlockOf(s, i + 1, SEMI))

\* Six passes over the registers, t the number of the step.
w_core(direction, a, r) ==
  LET n == Len(r) \div SEMI
      step(t, i, w) == LET blk == Cipher(direction, w.a \o w.r[i])
                       IN [a |-> XorBytes(SubSeq(blk, 1, 8), BigEndian(t, 8)),
                           r |-> [w.r EXCEPT ![i] = SubSeq(blk, 9, 16)]]
      pass(j, w) == Chain(n, w, LAMBDA i, u : step(n * (j - 1) + i, i, u))[n]
      end == Chain(6, [a |-> a, r |-> Registers(r)], pass)[6]
  IN end.a \o FlattenSeq(end.r)

w_core_inv(direction, a, r) ==
  LET n == Len(r) \div SEMI
      step(t, i, w) == LET blk == Cipher(direction, XorBytes(w.a, BigEndian(t, 8)) \o w.r[i])
                       IN [a |-> SubSeq(blk, 1, 8), r |-> [w.r EXCEPT ![i] = SubSeq(blk, 9, 16)]]
      pass(j, w) == Chain(n, w, LAMBDA i, u : step(n * (6 - j) + n + 1 - i, n + 1 - i, u))[n]
      end == Chain(6, [a |-> a, r |-> Registers(r)], pass)[6]
  IN end.a \o FlattenSeq(end.r)

kw_wrap(direction, plaintext) ==
  IF Len(plaintext) < 2 * SEMI \/ Len(plaintext) % SEMI # 0 THEN Refused
  ELSE w_core(direction, KW_DEFAULT_IV, plaintext)

kw_unwrap(direction, ciphertext) ==
  IF Len(ciphertext) < 3 * SEMI \/ Len(ciphertext) % SEMI # 0 THEN Refused
  ELSE LET w == w_core_inv(direction, SubSeq(ciphertext, 1, 8), From(ciphertext, 9))
       IN IF SubSeq(w, 1, 8) # KW_DEFAULT_IV THEN Refused ELSE From(w, 9)

kwp_wrap(direction, plaintext) ==
  LET mli == Len(plaintext)
      aiv == KWP_IV_PREFIX \o BigEndian(mli, 4)
      padded == Padded(plaintext, SEMI * Blocks(plaintext, SEMI))
  IN IF mli = 0 THEN Refused
     ELSE IF Len(padded) = SEMI THEN Cipher(direction, aiv \o padded)
     ELSE w_core(direction, aiv, padded)

\* Fault: a length that leaves a whole semiblock of padding is taken.
PadFits_Whole(mli, padded) == mli <= padded /\ padded - mli <= SEMI /\ mli > 0

\* Does a stated length fit the padded one?
PadFits(mli, padded) == mli <= padded /\ padded - mli < SEMI /\ mli > 0

kwp_unwrap(direction, ciphertext) ==
  LET len == Len(ciphertext)
      w == IF len = 2 * SEMI THEN Cipher(direction, ciphertext)
           ELSE w_core_inv(direction, SubSeq(ciphertext, 1, 8), From(ciphertext, 9))
      field == SubSeq(w, 5, 8)
      \* a length of more than three bytes is beyond every buffer
      mli == IF field[1] # 0 THEN len ELSE field[2] * 65536 + field[3] * 256 + field[4]
  IN IF len < 2 * SEMI \/ len % SEMI # 0 THEN Refused
     ELSE IF SubSeq(w, 1, 4) # KWP_IV_PREFIX \/ ~PadFits(mli, len - SEMI) THEN Refused
     ELSE IF \E k \in SEMI + mli + 1..len : w[k] # 0 THEN Refused
     ELSE SubSeq(w, 9, 8 + mli)

\* The entry points of the second direction.
kw_wrap_inverse_cipher(plaintext) == kw_wrap("inverse", plaintext)
kw_unwrap_inverse_cipher(ciphertext) == kw_unwrap("forward", ciphertext)
kwp_wrap_inverse_cipher(plaintext) == kwp_wrap("inverse", plaintext)
kwp_unwrap_inverse_cipher(ciphertext) == kwp_unwrap("forward", ciphertext)

-----------------------------------------------------------------------------
(* cmac.rs                                                                 *)

shift_with_rb(b) ==
  Bytes(16, LAMBDA i :
    LET x == ((2 * b[i + 1]) % 256) + (IF i = 15 THEN 0 ELSE b[i + 2] \div 128)
    IN IF i = 15 /\ b[1] >= 128 THEN x ^^ 135 ELSE x)

derive_subkeys == LET k1 == shift_with_rb(Encrypt(Zeros(16))) IN <<k1, shift_with_rb(k1)>>

cmac_tag(msg) ==
  LET n == Max({1, Blocks(msg, 16)})
      last == BlockOf(msg, n, 16)
      m_n == IF Len(last) = 16 THEN XorBytes(last, derive_subkeys[1])
             ELSE XorBytes(Padded(last \o <<128>>, 16), derive_subkeys[2])
      c == Chain(n - 1, Zeros(16), LAMBDA i, y : Encrypt(XorBytes(y, BlockOf(msg, i, 16))))[n - 1]
  IN Encrypt(XorBytes(c, m_n))

-----------------------------------------------------------------------------
(* What the modes owe.                                                     *)

Message(len, seed) == Bytes(len, LAMBDA i : (37 * i + 101 * seed + i * i) % 256)
Changed(s, i) == [s EXCEPT ![i] = (@ + 1) % 256]

\* Decryption and unwrapping give back what went in, for every length a mode takes and no other,
\* and refuse a string that was changed anywhere, another length or the other construction.
CallInverts(len) ==
  LET p == Message(len, 1)
      block == Message(16, 2)
      iv == Message(12, 3)
      aad == Message(len + 3, 4)
      gcm == gcm_encrypt(iv, aad, p)
      nonce(n) == SubSeq(block, 1, n)
      ccm(n) == ccm_encrypt(nonce(n), aad, p, 8)
      places(s) == {1, Len(s), Len(s) \div 2 + 1}
  IN /\ ecb("inverse", ecb("forward", p)) = IF len % 16 = 0 THEN p ELSE Refused
     /\ len % 16 = 0 => cbc_decrypt(block, cbc_encrypt(block, p)) = p
     /\ ctr_xor(block, ctr_xor(block, p)) = p
     /\ gcm_decrypt(iv, aad, SubSeq(gcm, 1, len), From(gcm, len + 1)) = p
     /\ gcm_decrypt(iv, Changed(aad, 1), SubSeq(gcm, 1, len), From(gcm, len + 1)) = Refused
     /\ gcm_decrypt(iv, aad \o <<0>>, SubSeq(gcm, 1, len), From(gcm, len + 1)) = Refused
     /\ \A n \in {7, 12, 13} :
          /\ ccm_decrypt(nonce(n), aad, ccm(n), 8) = p
          /\ \A i \in places(ccm(n)) : ccm_decrypt(nonce(n), aad, Changed(ccm(n), i), 8) = Refused
          /\ ccm_decrypt(nonce(n), aad, ccm(n), 6) = Refused

WrapInverts(len) ==
  LET p == Message(len, 5)
      kw == kw_wrap("forward", p)
      kwp == kwp_wrap("forward", p)
      zeros == kwp_wrap("forward", Zeros(len))
  IN /\ len >= 16 /\ len % 8 = 0 =>
          /\ kw_unwrap("inverse", kw) = p
          /\ kw_unwrap_inverse_cipher(kw_wrap_inverse_cipher(p)) = p
          /\ kwp_unwrap("inverse", kw) = Refused /\ kw_unwrap("inverse", kwp) = Refused
          /\ kw_unwrap_inverse_cipher(kw) = Refused
          /\ \A i \in {1, 9, Len(kw)} : kw_unwrap("inverse", Changed(kw, i)) = Refused
     /\ len > 0 =>
          /\ kwp_unwrap("inverse", kwp) = p /\ kwp_unwrap("inverse", zeros) = Zeros(len)
          /\ kwp_unwrap_inverse_cipher(kwp_wrap_inverse_cipher(p)) = p
          /\ \A i \in {1, 9, Len(kwp)} : kwp_unwrap("inverse", Changed(kwp, i)) = Refused

\* A block that states len for a padded buffer is taken when wrapping could have made it.
StatedLengthFits(len, semiblocks) ==
  LET padded == SEMI * semiblocks
      aiv == KWP_IV_PREFIX \o BigEndian(len, 4)
      forged == IF semiblocks = 1 THEN Encrypt(aiv \o Zeros(8)) ELSE w_core("forward", aiv, Zeros(padded))
  IN (kwp_unwrap("inverse", forged) # Refused) <=> (len > 0 /\ SEMI * ((len + 7) \div 8) = padded)

\* Counters: no block is encrypted twice in a call, not for the mask of the tag, the key of
\* the hash or the first block of the MAC either, and increments carry through every byte.
CountersDiffer(n) ==
  LET iv == Message(12, 6)
      gcm == GcmCounter(iv, n)
      full(k) == Bytes(16, LAMBDA i : IF i < k THEN 7 ELSE 255)
  IN /\ \A len \in 0..n : Cardinality({Zeros(16)} \cup {gcm[i] : i \in 0..len}) = len + 2
     /\ \A k \in 7..13 :
          LET nonce == SubSeq(iv \o <<9>>, 1, k)
              counters == {format_ctr(nonce, i) : i \in 0..n}
              firsts == {format_b0(nonce, a, t, p) :
                           a \in BOOLEAN, t \in {4, 6, 8, 10, 12, 14, 16}, p \in 0..n}
          IN Cardinality(counters) = n + 1 /\ counters \cap firsts = {}
     /\ \A k \in 0..15 :
          LET c == inc128_for_ctr(full(k))
          IN c = Bytes(16, LAMBDA i : IF i >= k THEN 0 ELSE IF i = k - 1 THEN 8 ELSE 7)

\* The longest payload CCM lets through has a counter block of its own for every block.
CcmCountersFit ==
  \A nonce_len \in 12..13 :
    LET l == 15 - nonce_len
        longest == CHOOSE p \in {256^l - 1, 256^l} :
                     validate_params(nonce_len, p, 4) /\ ~validate_params(nonce_len, p + 1, 4)
    IN (longest + 15) \div 16 < 256^l

\* Different associated data, payloads, nonces or tag lengths are different blocks under the
\* tag, and CMAC tells a padded message from one that ends in the padding.
MacInputsDiffer(messages) ==
  LET nonces == {Message(7, 1), Message(8, 1)}
      calls == nonces \X messages \X messages \X {4, 16}
      lengths == {0, 1, 255, 256, 65279, 65280, 65281, 16777216}
  IN /\ Cardinality({CcmBlocks(c[1], c[2], c[3], c[4]) : c \in calls}) = Cardinality(calls)
     /\ Cardinality({AadPrefix(a) : a \in lengths}) = Cardinality(lengths)
     /\ \A a, b \in lengths : a # b => ~IsPrefix(AadPrefix(a), AadPrefix(b))
     /\ Cardinality({cmac_tag(m) : m \in messages}) = Cardinality(messages)

\* The multiplication of GHASH is one of a field: it commutes, distributes and has a one.
GhashMultiplies(x, y) ==
  LET one == <<128>> \o Zeros(15)
      z == Message(16, 9)
  IN /\ gf_mul_portable(x, one) = x
     /\ gf_mul_portable(x, y) = gf_mul_portable(y, x)
     /\ gf_mul_portable(XorBytes(x, z), y) = XorBytes(gf_mul_portable(x, y), gf_mul_portable(z, y))
=============================================================================
