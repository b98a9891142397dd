---------------------------- MODULE KeyDerivation -----------------------------
(***************************************************************************)
(* Derivation of keys from a keyed hash: HKDF, the three modes of          *)
(* SP 800-108 and PBKDF2 (oxicrypt-kdf), the PRF and the secrets of        *)
(* TLS 1.2 and the labels of TLS 1.3 (oxicrypt-tls-kdf).                   *)
(*                                                                         *)
(* The hash, of L bytes, is a parameter.  Every call of it asks the state  *)
(* of the module again and fails once that is lost, so a derivation is     *)
(* given the number of calls that still succeed.  It writes into a buffer  *)
(* of the caller's; its own entry gates are ModuleState's.  Lengths beyond *)
(* 2^29 bytes, which the 32-bit fields refuse, are left out.               *)
(***************************************************************************)
EXTENDS ByteStrings, FiniteSets

CONSTANTS
  L,        \* bytes of a block: 20 to 64
  Prf(_, _) \* of a key and a message

\* What a caller's buffer held.
Untouched(len) == Bytes(len, LAMBDA i : 170)

\* A derivation into out: bytes written, calls that will succeed, messages asked for, what
\* was got last, and the second chain of the modes that have one.
Begin(len, left) ==
  [out |-> Untouched(len), written |-> 0, left |-> left, ok |-> TRUE,
   asked |-> <<>>, prev |-> <<>>, a |-> <<>>]

\* prf_new, prf_update and prf_finalize; after a failure nothing is done.
Ask(d, key, msg) ==
  IF ~d.ok \/ d.left = 0 THEN [d EXCEPT !.ok = FALSE]
  ELSE [d EXCEPT !.left = @ - 1, !.asked = Append(@, msg), !.prev = Prf(key, msg)]

\* As much of a block as the output still takes.
Emit(d, block) ==
  LET take == Min({L, Len(d.out) - d.written})
  IN IF ~d.ok THEN d
     ELSE [d EXCEPT !.out = SubSeq(@, 1, d.written) \o SubSeq(block, 1, take) \o From(@, d.written + take + 1),
                    !.written = @ + take]

\* The failure wipes what was written.
Wiped(d) == [ok |-> d.ok, out |-> IF d.ok THEN d.out ELSE Zeros(Len(d.out)), asked |-> d.asked]

Failed(len) == [ok |-> FALSE, out |-> Zeros(len), asked |-> <<>>]

NBlocks(len) == (len + L - 1) \div L

\* The blocks of a buffer, each asked for and emitted by next.
Blockwise(len, d, next(_, _)) == Wiped(Chain(NBlocks(len), d, next)[NBlocks(len)])

-----------------------------------------------------------------------------
(* oxicrypt-kdf                                                            *)

NoSalt == <<-1>>
extract(salt, ikm) == Prf(IF salt = NoSalt THEN Zeros(L) ELSE salt, ikm)

expand(prk, info, len, left) ==
  IF NBlocks(len) > 255 THEN Failed(len)
  ELSE Blockwise(len, Begin(len, left), LAMBDA i, d :
         LET t == Ask(d, prk, d.prev \o info \o <<i>>) IN Emit(t, t.prev))

\* What SP 800-108 puts after the counter: the length is in bits.
FixedData(label, context, len) == label \o <<0>> \o context \o BigEndian(8 * len, 4)

counter_derive(key, fixed, len, left) ==
  Blockwise(len, Begin(len, left), LAMBDA i, d :
    LET t == Ask(d, key, BigEndian(i, 4) \o fixed) IN Emit(t, t.prev))

\* Every counter must fit its field; a mode without one has a field of no bits.
CounterFits(bits, len) ==
  /\ bits \in {0, 8, 16, 24, 32}
  /\ bits = 8 => NBlocks(len) <= 255
  /\ bits = 16 => NBlocks(len) <= 65535

feedback_derive(key, iv, fixed, bits, len, left) ==
  IF len > 0 /\ ~CounterFits(bits, len) THEN Failed(len)
  ELSE Blockwise(len, [Begin(len, left) EXCEPT !.prev = iv], LAMBDA i, d :
         LET t == Ask(d, key, d.prev \o BigEndian(i, bits \div 8) \o fixed) IN Emit(t, t.prev))

double_pipeline_derive(key, fixed, bits, len, left) ==
  IF len > 0 /\ ~CounterFits(bits, len) THEN Failed(len)
  ELSE Blockwise(len, [Begin(len, left) EXCEPT !.a = fixed], LAMBDA i, d :
         LET a == Ask(d, key, d.a)
             k == Ask([a EXCEPT !.a = a.prev], key, a.prev \o BigEndian(i, bits \div 8) \o fixed)
         IN Emit(k, k.prev))

pbkdf2_derive(password, salt, iterations, len, left) ==
  Blockwise(len, Begin(len, left), LAMBDA i, d :
    LET first == Ask(d, password, salt \o BigEndian(i, 4))
        again(j, u) == LET v == Ask(u, password, u.prev)
                       IN [v EXCEPT !.a = XorBytes(@, v.prev)]
        folded == Chain(iterations - 1, [first EXCEPT !.a = first.prev], again)[iterations - 1]
    IN Emit(folded, folded.a))

-----------------------------------------------------------------------------
(* oxicrypt-tls-kdf                                                        *)

\* The chain goes on only when another block follows.
tls12_prf(secret, label, seed, len, left) ==
  LET opened == Ask(Begin(len, left), secret, label \o seed)
      next(i, d) ==
        LET p == Ask(d, secret, d.a \o label \o seed)
            e == Emit(p, p.prev)
            f == Ask(e, secret, e.a)
        IN IF e.written < len THEN [f EXCEPT !.a = f.prev] ELSE e
  IN Blockwise(len, [opened EXCEPT !.a = opened.prev], next)

MASTER_SECRET_LEN == 48

\* The master secret from one seed, the key block from it and the other: the second is not
\* begun, nor its buffer touched, when the first fails.
tls12_secrets(pre_master, label, seed, expansion, len, left) ==
  LET ms == tls12_prf(pre_master, label, seed, MASTER_SECRET_LEN, left)
      kb == tls12_prf(ms.out, <<107, 101>>, expansion, len, left - Len(ms.asked))
  IN IF ~ms.ok THEN [ok |-> FALSE, out |-> Untouched(len), secret |-> <<>>]
     ELSE [ok |-> kb.ok, out |-> kb.out, secret |-> IF kb.ok THEN ms.out ELSE <<>>]

tls12_extended_master_secret(pre_master, session_hash, server_random, client_random, len, left) ==
  tls12_secrets(pre_master, <<101, 109, 115>>, session_hash, server_random \o client_random, len, left)

tls12_master_secret(pre_master, client_hello, server_hello, server_random, client_random, len, left) ==
  tls12_secrets(pre_master, <<109, 115>>, client_hello \o server_hello,
                server_random \o client_random, len, left)

\* "tls13 "
TLS13 == <<116, 108, 115, 49, 51, 32>>

HkdfLabel(label, context, len) ==
  BigEndian(len, 2) \o <<6 + Len(label)>> \o TLS13 \o label \o <<Len(context)>> \o context

expand_label(secret, label, context, len, left) ==
  IF Len(label) \notin 1..249 \/ Len(context) > 255 \/ len > 65535 \/ len > 255 * L
  THEN Failed(len)
  ELSE expand(secret, HkdfLabel(label, context, len), len, left)

-----------------------------------------------------------------------------
(* What a derivation owes.                                                 *)

\* Every derivation of len bytes while the module lasts for left calls, by its name.
Derivations(len, left) ==
  LET key == <<1, 2, 3>>
      fixed == FixedData(<<4>>, <<5, 6>>, len)
  IN [hkdf |-> expand(key, <<7>>, len, left),
      label |-> expand_label(key, <<4>>, <<5, 6>>, len, left),
      counter |-> counter_derive(key, fixed, len, left),
      feedback |-> feedback_derive(key, <<9, 9>>, fixed, 0, len, left),
      feedback8 |-> feedback_derive(key, <<>>, fixed, 8, len, left),
      pipeline |-> double_pipeline_derive(key, fixed, 0, len, left),
      pipeline8 |-> double_pipeline_derive(key, fixed, 8, len, left),
      pbkdf2 |-> pbkdf2_derive(key, <<8>>, 3, len, left),
      tls12 |-> tls12_prf(key, <<4>>, <<5, 6>>, len, left)]

Endless == 1000

\* Block i of each, from the standard's recurrence alone.
StandardBlock(name, i, len) ==
  LET key == <<1, 2, 3>>
      fixed == FixedData(<<4>>, <<5, 6>>, len)
      feed(n, first, tail(_)) == Chain(n, first, LAMBDA j, k : Prf(key, k \o tail(j)))[n]
      pipe(j) == feed(j, fixed, LAMBDA x : <<>>)
      chain(j) == feed(j, <<4, 5, 6>>, LAMBDA x : <<>>)
      u(j) == feed(j - 1, Prf(key, <<8>> \o BigEndian(i, 4)), LAMBDA x : <<>>)
  IN CASE name = "hkdf" -> feed(i, <<>>, LAMBDA j : <<7, j>>)
       [] name = "label" -> feed(i, <<>>, LAMBDA j : HkdfLabel(<<4>>, <<5, 6>>, len) \o <<j>>)
       [] name = "counter" -> Prf(key, BigEndian(i, 4) \o fixed)
       [] name = "feedback" -> feed(i, <<9, 9>>, LAMBDA j : fixed)
       [] name = "feedback8" -> feed(i, <<>>, LAMBDA j : <<j>> \o fixed)
       [] name = "pipeline" -> Prf(key, pipe(i) \o fixed)
       [] name = "pipeline8" -> Prf(key, pipe(i) \o <<i>> \o fixed)
       [] name = "pbkdf2" -> XorBytes(XorBytes(u(1), u(2)), u(3))
       [] name = "tls12" -> Prf(key, chain(i) \o <<4, 5, 6>>)

\* Calls a derivation of n blocks needs.
Needed(name, n) ==
  CASE name \in {"pipeline", "pipeline8"} -> 2 * n
    [] name = "tls12" -> Max({1, 2 * n})
    [] name = "pbkdf2" -> 3 * n
    [] OTHER -> n

\* A derivation gives the standard's blocks, cut to the buffer, asks for no more than they
\* need, and never for the same message twice.
DerivationsAgree(len) ==
  LET done == Derivations(len, Endless)
  IN \A name \in DOMAIN done :
       LET d == done[name]
           n == NBlocks(len)
       IN /\ d.ok /\ Len(d.asked) = Needed(name, n)
          /\ d.out = SubSeq(Joined(n, LAMBDA i : StandardBlock(name, i, len)), 1, len)
          /\ IsInjective(d.asked)

\* When the module is lost on the way the call fails and the buffer keeps nothing.
NothingPartial(len) ==
  \A left \in 0..3 * NBlocks(len) :
    LET done == Derivations(len, left)
    IN /\ \A name \in DOMAIN done :
            LET d == done[name]
            IN /\ d.ok <=> left >= Needed(name, NBlocks(len))
               /\ ~d.ok => d.out = Zeros(len)
       /\ LET s == tls12_extended_master_secret(<<1>>, <<2>>, <<3>>, <<4>>, len, 2 * NBlocks(48) - 2 + left)
          IN s.ok \/ (s.out \in {Zeros(len), Untouched(len)} /\ s.secret = <<>>)

\* The last block a one-byte counter numbers is given, the next length refused.
CountersEnd ==
  LET last == 255 * L
      named == {"hkdf", "label", "feedback8", "pipeline8"}
      over == Derivations(last + 1, Endless)
      full == Derivations(last, Endless)
  IN \A name \in named :
       /\ full[name].ok /\ IsInjective(full[name].asked)
       /\ ~over[name].ok /\ over[name].out = Zeros(last + 1) /\ over[name].asked = <<>>

\* Labels, contexts and lengths are apart in what is hashed; a label of SP 800-108 must hold
\* no zero byte for that.
LabelsDiffer ==
  LET labels == {<<1>>, <<1, 1>>, <<1, 1, 2>>, <<2>>}
      contexts == {<<>>, <<0>>, <<1>>, <<1, 1>>, <<0, 0, 8>>}
      lengths == {1, 2, 256, 257}
      triples == labels \X contexts \X lengths
      long(n) == Bytes(n, LAMBDA i : 5)
  IN /\ Cardinality({HkdfLabel(t[1], t[2], t[3]) : t \in triples}) = Cardinality(triples)
     /\ Cardinality({FixedData(t[1], t[2], t[3]) : t \in triples}) = Cardinality(triples)
     /\ \A n \in {0, 1, 249, 250} : expand_label(<<1>>, long(n), <<>>, 1, 1).ok <=> n \in 1..249
     /\ \A n \in {255, 256} : expand_label(<<1>>, <<1>>, long(n), 1, 1).ok <=> n <= 255
     /\ Cardinality({extract(salt, <<1>>) : salt \in {<<1>>, <<2>>, <<0, 1>>}}) = 3
     /\ LET secrets == {tls12_master_secret(<<1>>, <<2>>, <<3>>, <<3>>, <<2>>, 2, Endless),
                        tls12_master_secret(<<1>>, <<3>>, <<2>>, <<3>>, <<2>>, 2, Endless),
                        tls12_extended_master_secret(<<1>>, <<2, 3>>, <<3>>, <<2>>, 2, Endless)}
        IN Cardinality({s.secret : s \in secrets}) = 3
===============================================================================
