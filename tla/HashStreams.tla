----------------------------- MODULE HashStreams ------------------------------
(***************************************************************************)
(* The hashes as their callers drive them, piece by piece: the buffered    *)
(* block hash of SHA-1 and SHA-2 (oxicrypt-sha sha256.rs, sha512.rs and    *)
(* their truncations), the sponge of SHA-3 and SHAKE and its four-way      *)
(* batch (keccak.rs), cSHAKE, KMAC, TupleHash and ParallelHash             *)
(* (oxicrypt-xof) and HMAC (oxicrypt-hmac).                                *)
(*                                                                         *)
(* The compression function and the permutation are parameters, and the    *)
(* sizes of blocks are small: a block has BLOCK_SIZE bytes for 64 or 128,  *)
(* the last LEN_FIELD of a message's are its length, and the sponge takes  *)
(* RATE of WIDTH bytes for 72 to 168 of 200.  The byte counter of a        *)
(* message is not let wrap (2^64 bytes).  A stream that is driven after    *)
(* its end, which debug builds refuse, is left out.                        *)
(***************************************************************************)
EXTENDS ByteStrings, FiniteSets

CONSTANTS
  BLOCK_SIZE, LEN_FIELD, \* of the block hash
  DIGEST_SIZE,           \* bytes of the state that are the digest
  H0, Compress(_, _),    \* its first state, and the next one by a block
  RATE, WIDTH,           \* of the sponge
  Permute(_),
  INNER_LEN              \* of ParallelHash: 32 or 64

-----------------------------------------------------------------------------
(* sha256.rs: a buffer whose bytes from buffer_len on are stale.           *)

hasher_new == [state |-> H0, buffer |-> Zeros(BLOCK_SIZE), buffer_len |-> 0, total_len |-> 0]

\* copy_from_slice
CopiedTo(buffer, at, data) ==
  Bytes(Len(buffer), LAMBDA i : IF i \in at..at + Len(data) - 1 THEN data[i - at + 1] ELSE buffer[i + 1])

\* Fills a buffer that has bytes, compresses the whole blocks, keeps the rest.
update(h, data) ==
  LET need == BLOCK_SIZE - h.buffer_len
      buffered == CopiedTo(h.buffer, h.buffer_len, data)
      partial == h.buffer_len > 0
      tail == IF partial THEN From(data, need + 1) ELSE data
      whole == Len(tail) \div BLOCK_SIZE
      first == IF partial THEN Compress(h.state, CopiedTo(h.buffer, h.buffer_len, SubSeq(data, 1, need)))
               ELSE h.state
      left == From(tail, whole * BLOCK_SIZE + 1)
  IN IF partial /\ Len(data) < need
     THEN [h EXCEPT !.buffer = buffered, !.buffer_len = @ + Len(data), !.total_len = @ + Len(data)]
     ELSE [state |-> Chain(whole, first, LAMBDA i, s : Compress(s, BlockOf(tail, i, BLOCK_SIZE)))[whole],
           buffer |-> CopiedTo(h.buffer, 0, left),
           buffer_len |-> Len(left),
           total_len |-> h.total_len + Len(data)]

\* Fault: what is stale stays.
Cleared_Not(buffer, from, to) == buffer

Cleared(buffer, from, to) == CopiedTo(buffer, from, Zeros(to - from))

\* The marker, zeros over what is stale, the length in bits, in one block or in two.
finalize(h) ==
  LET marked == CopiedTo(h.buffer, h.buffer_len, <<128>>)
      at == h.buffer_len + 1
      end == BLOCK_SIZE - LEN_FIELD
      spilled == Compress(h.state, Cleared(marked, at, BLOCK_SIZE))
      last == IF at > end THEN <<spilled, Cleared(marked, 0, end)>> ELSE <<h.state, Cleared(marked, at, end)>>
      length == BigEndian(8 * h.total_len, LEN_FIELD)
  IN SubSeq(Compress(last[1], CopiedTo(last[2], end, length)), 1, DIGEST_SIZE)

-----------------------------------------------------------------------------
(* oxicrypt-hmac                                                           *)

IPAD_BYTE == 54
OPAD_BYTE == 92

hmac_new(key) ==
  LET k0 == Padded(IF Len(key) > BLOCK_SIZE THEN finalize(update(hasher_new, key)) ELSE key, BLOCK_SIZE)
      seeded(byte) == update(hasher_new, XorBytes(k0, Bytes(BLOCK_SIZE, LAMBDA i : byte)))
  IN [inner |-> seeded(IPAD_BYTE), outer |-> seeded(OPAD_BYTE), blank |-> hasher_new]

hmac_update(m, data) == [m EXCEPT !.inner = update(@, data)]

\* The tag, and what is left: an inner hasher without a key.
hmac_finalize(m) ==
  <<finalize(update(m.outer, finalize(m.inner))), [m EXCEPT !.inner = m.blank]>>

-----------------------------------------------------------------------------
(* keccak.rs: n sponges in lockstep, one for Sponge and four for Sponge4.  *)

sponges_new(n) == [states |-> [k \in 1..n |-> Zeros(WIDTH)], offset |-> 0]

xor_byte(state, pos, byte) == [state EXCEPT ![pos + 1] = @ ^^ byte]

\* All states permuted at the end of a block.
Crossed(states, offset) ==
  IF offset = RATE THEN [states |-> <<>> \o [k \in 1..Len(states) |-> Permute(states[k])], offset |-> 0]
  ELSE [states |-> states, offset |-> offset]

\* The inputs are of one length.
absorb(sp, inputs) ==
  LET take(pos, s) ==
        Crossed(<<>> \o [k \in 1..Len(inputs) |-> xor_byte(s.states[k], s.offset, inputs[k][pos])],
                s.offset + 1)
  IN Chain(Len(inputs[1]), sp, take)[Len(inputs[1])]

finalize_sponge(sp, domain) ==
  LET marked(state) == xor_byte(xor_byte(state, sp.offset, domain), RATE - 1, 128)
  IN Crossed(<<>> \o [k \in 1..Len(sp.states) |-> marked(sp.states[k])], RATE)

\* What n more bytes of every state are, and the sponges after them.
squeeze(sp, n) ==
  LET read(i, s) ==
        LET at == Crossed(s.sp.states, s.sp.offset)
        IN [sp |-> [at EXCEPT !.offset = @ + 1],
            outs |-> <<>> \o [k \in 1..Len(s.outs) |-> Append(s.outs[k], at.states[k][at.offset + 1])]]
  IN Chain(n, [sp |-> sp, outs |-> [k \in 1..Len(sp.states) |-> <<>>]], read)[n]

-----------------------------------------------------------------------------
(* oxicrypt-xof                                                            *)

SHA3_DOMAIN == 6
SHAKE_DOMAIN == 31
CSHAKE_DOMAIN == 4

ByteLen(x) == IF x = 0 THEN 1 ELSE CHOOSE n \in 1..4 : 256^(n - 1) <= x /\ (n < 4 => x < 256^n)
left_encode(x) == <<ByteLen(x)>> \o BigEndian(x, ByteLen(x))
right_encode(x) == BigEndian(x, ByteLen(x)) \o <<ByteLen(x)>>
encode_string(s) == left_encode(8 * Len(s)) \o s

\* bytepad to whole blocks.
BytePadded(fields) ==
  LET s == left_encode(RATE) \o fields
      pad == RATE - (Len(s) % RATE)
  IN IF pad = RATE THEN s ELSE s \o Zeros(pad)

one_absorb(sp, data) == absorb(sp, <<data>>)

cshake_new(n, s) ==
  IF n = <<>> /\ s = <<>> THEN [sponge |-> sponges_new(1), domain |-> SHAKE_DOMAIN]
  ELSE [sponge |-> one_absorb(sponges_new(1), BytePadded(encode_string(n) \o encode_string(s))),
        domain |-> CSHAKE_DOMAIN]

cshake_update(c, data) == [c EXCEPT !.sponge = one_absorb(@, data)]
cshake_finalize(c) == finalize_sponge(c.sponge, c.domain)

\* "KMAC", "TupleHash" and "ParallelHash"
KMAC == <<75, 77, 65, 67>>
TUPLE_HASH == <<84, 117, 112, 108, 101, 72, 97, 115, 104>>
PARALLEL_HASH == <<80, 97, 114, 97, 108, 108, 101, 108, 72, 97, 115, 104>>

\* The output of a fixed length states it in bits; an XOF's states 0.
OutputLength(out_len) == right_encode(8 * out_len)
XOF == 0

kmac_new(key, s) == cshake_update(cshake_new(KMAC, s), BytePadded(encode_string(key)))

tuple_update(c, element) == cshake_update(c, encode_string(element))

\* Both end alike: finalize_into and, for XOF, finalize_xof.
finalize_framed(c, out_len) == cshake_finalize(cshake_update(c, OutputLength(out_len)))

parallel_new(block_size, s) ==
  [outer |-> cshake_update(cshake_new(PARALLEL_HASH, s), left_encode(block_size)),
   buf |-> <<>>, block_size |-> block_size, block_count |-> 0]

flush_block(p) ==
  LET inner == finalize_sponge(one_absorb(sponges_new(1), p.buf), SHAKE_DOMAIN)
  IN [p EXCEPT !.outer = cshake_update(@, squeeze(inner, INNER_LEN).outs[1]),
               !.block_count = @ + 1, !.buf = <<>>]

\* The buffer is filled from the data and hashed as often as it is full.
parallel_update(p, data) ==
  LET take(i, q) ==
        LET chunk == Min({Len(q.rest), p.block_size - Len(q.p.buf)})
            r == [q.p EXCEPT !.buf = @ \o SubSeq(q.rest, 1, chunk)]
        IN [p |-> IF Len(r.buf) = p.block_size THEN flush_block(r) ELSE r,
            rest |-> From(q.rest, chunk + 1)]
  IN Chain(Len(data), [p |-> p, rest |-> data], take)[Len(data)].p

parallel_finalize(p, out_len) ==
  LET q == IF p.buf # <<>> THEN flush_block(p) ELSE p
  IN finalize_framed(cshake_update(q.outer, right_encode(q.block_count)), out_len)

-----------------------------------------------------------------------------
(* The references, which see a message whole, and what the streams owe.    *)

Message(len, seed) == Bytes(len, LAMBDA i : (53 * i + 101 * seed + i * i) % 256)

\* A message in three pieces, cut after a and b bytes.
Pieces(msg, a, b) == <<SubSeq(msg, 1, a), SubSeq(msg, a + 1, b), From(msg, b + 1)>>
Cuts(len) == {c \in (0..len) \X (0..len) : c[1] <= c[2]}

\* FIPS 180-4: the message with its padding, block by block.
PaddedMessage(msg) ==
  LET fill == BLOCK_SIZE - 1 - ((Len(msg) + LEN_FIELD) % BLOCK_SIZE)
  IN msg \o <<128>> \o Zeros(fill) \o BigEndian(8 * Len(msg), LEN_FIELD)
BlockHash(msg) ==
  LET p == PaddedMessage(msg)
      n == Len(p) \div BLOCK_SIZE
  IN SubSeq(Chain(n, H0, LAMBDA i, s : Compress(s, BlockOf(p, i, BLOCK_SIZE)))[n], 1, DIGEST_SIZE)

\* FIPS 198-1.
MacOf(key, msg) ==
  LET k0 == Padded(IF Len(key) > BLOCK_SIZE THEN BlockHash(key) ELSE key, BLOCK_SIZE)
      under(byte) == XorBytes(k0, Bytes(BLOCK_SIZE, LAMBDA i : byte))
  IN BlockHash(under(OPAD_BYTE) \o BlockHash(under(IPAD_BYTE) \o msg))

\* FIPS 202: the padded message, and n bytes of the sponge of it.
PaddedForSponge(msg, domain) ==
  LET p == msg \o <<domain>> \o Zeros(RATE - 1 - (Len(msg) % RATE))
  IN [p EXCEPT ![Len(p)] = @ ^^ 128]
SpongeOf(msg, domain, n) ==
  LET p == PaddedForSponge(msg, domain)
      k == Len(p) \div RATE
      mixed(state, block) == Permute(XorBytes(state, block \o Zeros(WIDTH - RATE)))
      absorbed == Chain(k, Zeros(WIDTH), LAMBDA i, s : mixed(s, BlockOf(p, i, RATE)))[k]
      outs == Chain(n \div RATE, absorbed, LAMBDA i, s : Permute(s))
  IN SubSeq(Joined(n \div RATE + 1, LAMBDA i : SubSeq(outs[i - 1], 1, RATE)), 1, n)

\* Whatever the pieces, a stream gives what its message gives, at every place of a block; a
\* sponge also when its output is taken in pieces, and each of four what one would.
StreamsAgree(len) ==
  LET msg == Message(len, 1)
      expected == SpongeOf(msg, SHA3_DOMAIN, 2 * RATE + 1)
  IN /\ \A c \in Cuts(len) :
          LET p == Pieces(msg, c[1], c[2])
          IN /\ finalize(update(update(update(hasher_new, p[1]), p[2]), p[3])) = BlockHash(msg)
             /\ one_absorb(one_absorb(one_absorb(sponges_new(1), p[1]), p[2]), p[3])
                = one_absorb(sponges_new(1), msg)
     /\ \A k \in 0..RATE + 1 :
          LET first == squeeze(finalize_sponge(one_absorb(sponges_new(1), msg), SHA3_DOMAIN), k)
          IN first.outs[1] \o squeeze(first.sp, 2 * RATE + 1 - k).outs[1] = expected
     /\ LET four == <<msg, Message(len, 2), Zeros(len), Message(len, 3)>>
            out == squeeze(finalize_sponge(absorb(sponges_new(4), four), SHAKE_DOMAIN), RATE + 1)
        IN \A k \in 1..4 : out.outs[k] = SpongeOf(four[k], SHAKE_DOMAIN, RATE + 1)

\* Keys up to a block, of a block and beyond, and a second end that does not repeat the tag.
MacsAgree(key_len) ==
  LET key == Message(key_len, 4)
      msg == Message(BLOCK_SIZE + 3, 5)
      m == hmac_update(hmac_update(hmac_new(key), SubSeq(msg, 1, 2)), From(msg, 3))
      once == hmac_finalize(m)
  IN /\ once[1] = MacOf(key, msg)
     /\ hmac_finalize(once[2])[1] # once[1]

\* Messages that end the way padding looks.
Lookalikes ==
  LET ends == {Zeros(k) : k \in 0..BLOCK_SIZE + 1}
  IN {<<1>> \o e : e \in ends} \cup {<<1, 128>> \o e : e \in ends} \cup {<<1, 6>> \o e : e \in ends}
     \cup {<<1, 6>> \o Zeros(k) \o <<128>> : k \in 0..RATE} \cup {<<1, 134>>, <<1, 31>>}

\* No two messages are padded alike, for either hash.
PaddingsDiffer ==
  /\ Cardinality({PaddedMessage(m) : m \in Lookalikes}) = Cardinality(Lookalikes)
  /\ Cardinality({PaddedForSponge(m, d) : m \in Lookalikes, d \in {SHA3_DOMAIN, SHAKE_DOMAIN, CSHAKE_DOMAIN}})
     = 3 * Cardinality(Lookalikes)

Parallel(block_size, s, data, cut, out_len) ==
  parallel_finalize(parallel_update(parallel_update(parallel_new(block_size, s),
    SubSeq(data, 1, cut)), From(data, cut + 1)), out_len)
Tuple(elements, s, out_len) ==
  finalize_framed(Chain(Len(elements), cshake_new(TUPLE_HASH, s),
                        LAMBDA i, c : tuple_update(c, elements[i]))[Len(elements)], out_len)

\* Every framed function separates its arguments: keys, strings, elements, block sizes and
\* lengths of output, each of them from a concatenation of the same bytes.
FramesDiffer ==
  LET strings == {<<>>, <<0>>, <<1>>, <<0, 1>>, <<1, 8>>}
      lengths == {XOF, 1, 32}
      calls == [1..2 -> strings] \X lengths
      macs == {finalize_framed(cshake_update(kmac_new(c[1][1], c[1][2]), <<7>>), c[2]) : c \in calls}
      shakes == {cshake_finalize(cshake_new(f[1], f[2])) : f \in [1..2 -> strings]}
      tuples == {<<>>} \cup [1..1 -> strings] \cup [1..2 -> strings] \cup [1..3 -> {<<>>, <<1>>}]
      hashed == {Tuple(t, <<>>, l) : t \in tuples, l \in lengths}
      parallel == {Parallel(b, <<>>, Message(n, 6), 0, l) : b \in 1..3, n \in 0..5, l \in lengths}
  IN /\ Cardinality(macs) = Cardinality(calls)
     /\ Cardinality(shakes) = Cardinality(strings)^2
     /\ Cardinality(hashed) = Cardinality(tuples) * 3
     /\ Cardinality(parallel) = 3 * 6 * 3
     /\ Cardinality(macs \cup shakes \cup hashed \cup parallel)
        = Cardinality(macs) + Cardinality(shakes) + Cardinality(hashed) + Cardinality(parallel)
     /\ squeeze(cshake_finalize(cshake_new(<<>>, <<>>)), 3).outs[1] = SpongeOf(<<>>, SHAKE_DOMAIN, 3)
     /\ \A b \in 1..4, n \in 0..6 : \A cut \in 0..n :
          Parallel(b, <<2>>, Message(n, 6), cut, XOF) = Parallel(b, <<2>>, Message(n, 6), 0, XOF)

\* The encodings tell every number and its end, from either side.
LengthsAreCoded ==
  LET numbers == {0, 1, 2, 255, 256, 257, 65535, 65536, 16777215, 16777216}
  IN \A a, b \in numbers : a # b =>
       /\ ~IsPrefix(left_encode(a), left_encode(b))
       /\ ~IsSuffix(right_encode(a), right_encode(b))
===============================================================================
