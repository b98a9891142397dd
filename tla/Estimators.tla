------------------------------ MODULE Estimators ------------------------------
(***************************************************************************)
(* What the estimators and the tests of independence of oxicrypt-maxwell   *)
(* count: how often the next sample is guessed, how often a tuple repeats, *)
(* and where the data lie among their shuffles.  The formulas in           *)
(* floating point that the counts go into are left out.                    *)
(*                                                                         *)
(* The four predictors, Lag, MultiMCW, MultiMMC and LZ78Y, each guess the  *)
(* next sample from what came before, and the number of right guesses and  *)
(* the longest run of them bound the entropy of the source; there          *)
(* data[i + 1] is the sample the code has at index i.  The tuples          *)
(* (lrs.rs) are counted by a suffix array, made by induced sorting, and    *)
(* the common prefixes of its neighbours; there positions count from 0.    *)
(***************************************************************************)
EXTENDS ByteStrings

CONSTANTS
  D_LAG,             \* lags that compete, 128
  WINDOWS,           \* their lengths, 63, 255, 1023 and 4095
  D_MMC,             \* lengths of context, 16
  MAX_ENTRIES,       \* pairs a length of context may hold, 100000
  B_LEN,             \* longest context of LZ78Y, 16
  MAX_DICTIONARY_SIZE, \* contexts all lengths may hold together, 65536
  TUPLE_THRESHOLD    \* a tuple is common from so many on, 35

\* to_bitstring: a symbol gives its bits, the highest first.
ToBitstring(symbols, width) ==
  Joined(Len(symbols), LAMBDA k : Bytes(width, LAMBDA j : (symbols[k] \div 2^(width - 1 - j)) % 2))

\* dense_alphabet numbers the values as they first occur, value_sorted_alphabet by their size.
DenseAlphabet(symbols) ==
  LET first(v) == CHOOSE k \in DOMAIN symbols : symbols[k] = v /\ \A j \in 1..k - 1 : symbols[j] # v
  IN Bytes(Len(symbols),
           LAMBDA i : Cardinality({symbols[j] : j \in 1..first(symbols[i + 1]) - 1}))
ValueSortedAlphabet(symbols) ==
  Bytes(Len(symbols), LAMBDA i : Cardinality({v \in ToSet(symbols) : v < symbols[i + 1]}))

NoTally == [c |-> 0, run |-> 0, max |-> 0]

\* One more prediction.
Counted(t, right) ==
  LET run == IF right THEN t.run + 1 ELSE 0
  IN [c |-> IF right THEN t.c + 1 ELSE t.c, run |-> run, max |-> Max({t.max, run})]

\* Fault: a competitor has to beat the winner.
Scored_Strict(s, j) ==
  [s EXCEPT !.score[j] = @ + 1,
            !.winner = IF s.score[j] + 1 > s.score[s.winner] THEN j ELSE @]

\* Competitor j was right; it wins from a better score or an equal one.
Scored(s, j) ==
  [s EXCEPT !.score[j] = @ + 1,
            !.winner = IF s.score[j] + 1 >= s.score[s.winner] THEN j ELSE @]

\* Those of 0..n-1 that were right, one after another.
AllScored(s, n, right) == FoldLeft(Scored, s, SelectSeq(Bytes(n, LAMBDA j : j), LAMBDA j : j \in right))

-----------------------------------------------------------------------------
(* lag_core: offset w predicts the sample w + 1 before.                    *)

LagStep(data, i, s) ==
  LET cur == data[i + 1]
      right == {w \in 0..D_LAG - 1 : w + 1 <= i /\ data[i - w] = cur}
      tally == Counted(s.tally, data[i - s.winner] = cur)
  IN AllScored([s EXCEPT !.tally = tally], D_LAG, right)

LagCore(data) ==
  LET start == [tally |-> NoTally, winner |-> 0, score |-> Written([w \in 0..D_LAG - 1 |-> 0])]
      n == Len(data) - 1
  IN Chain(n, start, LAMBDA i, s : LagStep(data, i, s))[n].tally

-----------------------------------------------------------------------------
(* multi_mcw_core: window j predicts the most common of its last samples.  *)

Windows == 0..Len(WINDOWS) - 1

\* While the window fills, a count that draws level takes over.
Filled(w, cur, i) ==
  LET n == w.cnt[cur] + 1
      leads == w.max <= n
  IN [cnt |-> [w.cnt EXCEPT ![cur] = n], pos |-> [w.pos EXCEPT ![cur] = i],
      max |-> IF leads THEN n ELSE w.max, frequent |-> IF leads THEN cur ELSE w.frequent]

\* The next most common: by count, then by the latest place.
Searched(w, from) ==
  LET better(best, k) ==
        IF w.cnt[k] > best.max \/ (w.cnt[k] = best.max /\ best.from <= w.pos[k])
        THEN [max |-> w.cnt[k], frequent |-> k, from |-> w.pos[k]] ELSE best
      found == FoldLeft(better, [max |-> w.max - 1, frequent |-> w.frequent, from |-> from],
                        Bytes(Cardinality(DOMAIN w.cnt), LAMBDA k : k))
  IN [w EXCEPT !.max = found.max, !.frequent = found.frequent]

\* A window moves on by one sample.
Slid(w, dropped, cur, i, from) ==
  LET cnt == [[w.cnt EXCEPT ![dropped] = @ - 1] EXCEPT ![cur] = @ + 1]
      moved == [w EXCEPT !.cnt = cnt, !.pos[cur] = i]
  IN IF dropped # w.frequent /\ w.max <= cnt[cur]
     THEN [moved EXCEPT !.max = cnt[cur], !.frequent = cur]
     ELSE IF dropped = w.frequent THEN Searched(moved, from) ELSE moved

McwStep(data, i, s) ==
  LET cur == data[i + 1]
      right == {j \in Windows : i >= WINDOWS[j + 1] /\ s.windows[j].frequent = cur}
      slid(j) == LET from == i - WINDOWS[j + 1]
                 IN IF from >= 0 THEN Slid(s.windows[j], data[from + 1], cur, i, from) ELSE s.windows[j]
      tally == Counted(s.tally, s.windows[s.winner].frequent = cur)
  IN [AllScored([s EXCEPT !.tally = tally], Len(WINDOWS), right) EXCEPT !.windows = Written([j \in Windows |-> slid(j)])]

McwCore(data, alphabet) ==
  LET zero == Written([k \in 0..alphabet - 1 |-> 0])
      empty == [cnt |-> zero, pos |-> zero, max |-> 0, frequent |-> 0]
      full(j) == LET n == WINDOWS[j + 1]
                 IN Chain(n, empty, LAMBDA i, w : Filled(w, data[i], i - 1))[n]
      start == [tally |-> NoTally, winner |-> 0, score |-> Written([j \in Windows |-> 0]),
                windows |-> Written([j \in Windows |-> full(j)])]
      n == Len(data) - WINDOWS[1]
  IN IF Len(data) <= WINDOWS[Len(WINDOWS)] THEN NoTally
     ELSE Chain(n, start, LAMBDA k, s : McwStep(data, WINDOWS[1] + k - 1, s))[n].tally

-----------------------------------------------------------------------------
(* The dictionaries of MultiMMC and LZ78Y: how often each symbol followed  *)
(* a context. BinaryDict is a table; PostfixDict keeps the most frequent   *)
(* next symbol of each context as it counts.                               *)

NoEntries == [counts |-> EmptyBag, best |-> <<>>, elems |-> 0]

CountOf(dict, ctx, next) == CopiesIn(<<ctx, next>>, dict.counts)

\* BinaryDict set_one, whatever was there.
SetOne(dict, ctx, next) == [dict EXCEPT !.counts = (<<ctx, next>> :> 1) @@ @]
Incr(dict, ctx, next) == [dict EXCEPT !.counts = Written(@ (+) SetToBag({<<ctx, next>>}))]

\* increment_postfix of an entry that is there or may be made: the larger symbol wins ties.
IncrementPostfix(dict, ctx, next) ==
  LET n == CountOf(dict, ctx, next) + 1
      best == IF ctx \in DOMAIN dict.best THEN dict.best[ctx] ELSE [count |-> 0, next |-> 0]
      leads == n > best.count \/ (n = best.count /\ next > best.next)
  IN [Incr(dict, ctx, next) EXCEPT
        !.best = (ctx :> IF leads THEN [count |-> n, next |-> next] ELSE best) @@ @]

\* What a dictionary says of a context: the next symbol and its count, 0 when it is unknown.
Looked(binary, dict, ctx) ==
  IF binary
  THEN LET c0 == CountOf(dict, ctx, 0)
           c1 == CountOf(dict, ctx, 1)
       IN IF c0 > c1 THEN [count |-> c0, next |-> 0] ELSE [count |-> c1, next |-> 1]
  ELSE IF ctx \in DOMAIN dict.best THEN dict.best[ctx] ELSE [count |-> 0, next |-> 0]

Added(binary, dict, ctx, next) ==
  IF binary THEN Incr(dict, ctx, next) ELSE IncrementPostfix(dict, ctx, next)

Created(binary, dict, ctx, next) ==
  [(IF binary THEN SetOne(dict, ctx, next) ELSE IncrementPostfix(dict, ctx, next)) EXCEPT !.elems = @ + 1]

\* The n samples before index i.
Context(data, i, n) == SubSeq(data, i - n + 1, i)

-----------------------------------------------------------------------------
(* multi_mmc_core and multi_mmc_core_general: level d guesses from the     *)
(* d + 1 samples before, unless a shorter context is unknown.              *)

\* What level d's dictionary learns: a new pair only below the cap.
Learned(binary, dict, ctx, cur, known) ==
  IF known /\ CountOf(dict, ctx, cur) # 0 THEN Added(binary, dict, ctx, cur)
  ELSE IF dict.elems < MAX_ENTRIES THEN Created(binary, dict, ctx, cur) ELSE dict

\* One level of a step. Only the level that won before the step is counted.
MmcLevel(binary, data, i, before, s, d) ==
  LET ctx == Context(data, i, d + 1)
      cur == data[i + 1]
      look == Looked(binary, s.dicts[d], ctx)
      known == (d = 0 \/ s.known) /\ look.count # 0
      right == known /\ look.next = cur
      scored == IF right THEN Scored(s, d) ELSE s
  IN [scored EXCEPT !.known = known,
                    !.tally = IF known /\ d = before THEN Counted(@, right) ELSE @,
                    !.dicts[d] = Learned(binary, @, ctx, cur, known)]

MmcStep(binary, data, i, s) ==
  LET levels == Min({D_MMC, i - 1})
  IN Chain(levels, [s EXCEPT !.known = FALSE],
           LAMBDA k, t : MmcLevel(binary, data, i, s.winner, t, k - 1))[levels]

\* Each level begins with the first samples and the one behind them.
MmcCore(binary, data) ==
  LET seed(d) == IF d + (IF binary THEN 1 ELSE 2) < Len(data)
                 THEN Created(binary, NoEntries, Context(data, d + 1, d + 1), data[d + 2]) ELSE NoEntries
      start == [tally |-> NoTally, winner |-> 0, known |-> FALSE,
                score |-> Written([d \in 0..D_MMC - 1 |-> 0]), dicts |-> Written([d \in 0..D_MMC - 1 |-> seed(d)])]
      n == Len(data) - 2
  IN Chain(n, start, LAMBDA k, s : MmcStep(binary, data, k + 1, s))[n].tally

-----------------------------------------------------------------------------
(* lz78y_core and lz78y_core_general: of the known contexts the one whose  *)
(* next symbol was seen most often guesses, the longest of equals.         *)

LzLength(binary, data, i, s, j) ==
  LET ctx == Context(data, i, j)
      cur == data[i + 1]
      look == Looked(binary, s.dicts[j], ctx)
  IN IF look.count # 0
     THEN [s EXCEPT !.guess = IF look.count > @.count THEN look ELSE @,
                    !.dicts[j] = Added(binary, @, ctx, cur)]
     ELSE IF s.size < MAX_DICTIONARY_SIZE
     THEN [s EXCEPT !.dicts[j] = Created(binary, @, ctx, cur), !.size = @ + 1] ELSE s

LzStep(binary, data, i, s) ==
  LET t == Chain(B_LEN, [s EXCEPT !.guess = [count |-> 0, next |-> 0]],
                 LAMBDA k, u : LzLength(binary, data, i, u, B_LEN + 1 - k))[B_LEN]
  IN [t EXCEPT !.tally = Counted(@, t.guess.count # 0 /\ t.guess.next = data[i + 1])]

LzCore(binary, data) ==
  LET seed(j) == Created(binary, NoEntries, Context(data, B_LEN, j), data[B_LEN + 1])
      start == [tally |-> NoTally, guess |-> [count |-> 0, next |-> 0], size |-> B_LEN,
                dicts |-> Written([j \in 1..B_LEN |-> seed(j)])]
      n == Len(data) - B_LEN - 1
  IN Chain(n, start, LAMBDA k, s : LzStep(binary, data, B_LEN + k, s))[n].tally

-----------------------------------------------------------------------------
(* The literal track: the symbols over their own alphabet.                 *)

LagLiteral(symbols) == LagCore(DenseAlphabet(symbols))
McwLiteral(symbols) == McwCore(DenseAlphabet(symbols), Cardinality(ToSet(symbols)))
MmcLiteral(symbols) == MmcCore(Cardinality(ToSet(symbols)) <= 2, ValueSortedAlphabet(symbols))
LzLiteral(symbols) == LzCore(Cardinality(ToSet(symbols)) <= 2, ValueSortedAlphabet(symbols))

-----------------------------------------------------------------------------
(* What SP 800-90B asks for, said of the whole sequence at once.           *)

\* The competitor with the most right guesses before i, of equals the one that was right
\* last, of these the last; the first while none was right. rose[j] is when j was right.
WinnerAt(rose, i) ==
  LET past(j) == {k \in rose[j] : k < i}
      last(j) == Max(past(j) \cup {-1})
      score(j) == Cardinality(past(j))
      behind(j, k) == \/ score(j) < score(k)
                      \/ score(j) = score(k) /\ (last(j) < last(k) \/ (last(j) = last(k) /\ j <= k))
  IN IF \A j \in DOMAIN rose : past(j) = {} THEN 0
     ELSE CHOOSE k \in DOMAIN rose : \A j \in DOMAIN rose : behind(j, k)

\* Right guesses, and the most of them in a row, of a sequence of guesses.
TallyOf(guesses) ==
  LET right == {k \in DOMAIN guesses : guesses[k] = "right"}
      rows == {<<a, b>> \in right \X right : a <= b /\ a..b \subseteq right}
  IN [c |-> Cardinality(right), max |-> Max({0} \cup {r[2] - r[1] + 1 : r \in rows})]

Judged(right) == IF right THEN "right" ELSE "wrong"

\* Guesses at the indices from..to; where there is none it is passed over.
Guesses(from, to, at(_)) ==
  SelectSeq(Bytes(to - from + 1, LAMBDA k : at(from + k)), LAMBDA g : g # "none")

SameTally(t, guesses) == LET want == TallyOf(guesses) IN t.c = want.c /\ t.max = want.max

LagAgrees(s) ==
  LET last == Len(s) - 1
      rose == Written([w \in 0..D_LAG - 1 |-> {i \in w + 1..last : s[i + 1] = s[i - w]}])
  IN SameTally(LagLiteral(s), Guesses(1, last, LAMBDA i : Judged(i \in rose[WinnerAt(rose, i)])))

\* The most common of the n samples before index i, the one met last of equals.
MostCommon(s, i, n) ==
  LET window == i - n + 1..i
      count(v) == Cardinality({k \in window : s[k] = v})
      best == {k \in window : \A j \in window : count(s[j]) <= count(s[k])}
  IN s[Max(best)]

\* A window that is not full yet has the samples it was filled with.
McwAgrees(s) ==
  LET last == Len(s) - 1
      common(j, i) == MostCommon(s, Max({i, WINDOWS[j + 1]}), WINDOWS[j + 1])
      rose == Written([j \in Windows |-> {i \in WINDOWS[j + 1]..last : common(j, i) = s[i + 1]}])
  IN Len(s) > WINDOWS[Len(WINDOWS)] =>
       SameTally(McwLiteral(s), Guesses(WINDOWS[1], last, LAMBDA i : Judged(i \in rose[WinnerAt(rose, i)])))

\* Level d holds the first pairs it met, and guesses where all shorter contexts are known.
MmcAgrees(s) ==
  LET last == Len(s) - 1
      pair(d, i) == <<Context(s, i, d + 1), s[i + 1]>>
      held(d) == {i \in d + 1..last :
                    \E k \in d + 1..i : /\ pair(d, k) = pair(d, i)
                                        /\ Cardinality({pair(d, j) : j \in d + 1..k}) <= MAX_ENTRIES}
      holding == Written([d \in 0..D_MMC - 1 |-> held(d)])
      seen(d, i) == {k \in holding[d] : k < i /\ pair(d, k)[1] = Context(s, i, d + 1)}
      count(d, i, v) == Cardinality({k \in seen(d, i) : s[k + 1] = v})
      known(d, i) == d <= i - 2 /\ \A e \in 0..d : seen(e, i) # {}
      guess(d, i) == Max({v \in ToSet(s) : \A u \in ToSet(s) : count(d, i, u) <= count(d, i, v)})
      rose == Written([d \in 0..D_MMC - 1 |-> {i \in d + 2..last : known(d, i) /\ guess(d, i) = s[i + 1]}])
      at(i) == LET d == WinnerAt(rose, i) IN IF known(d, i) THEN Judged(i \in rose[d]) ELSE "none"
  IN /\ SameTally(MmcLiteral(s), Guesses(2, last, at))
     /\ Cardinality(ToSet(s)) <= 2 =>
          MmcCore(TRUE, ValueSortedAlphabet(s)) = MmcCore(FALSE, ValueSortedAlphabet(s))

\* Contexts are known in the order they are met, longer ones first, as many as there is room
\* for; all that were met at B_LEN are.
LzAgrees(s) ==
  LET last == Len(s) - 1
      met == {<<i, j>> \in (B_LEN..last) \X (1..B_LEN) :
                \A k \in B_LEN..i - 1 : Context(s, k, j) # Context(s, i, j)}
      before(a, b) == a[1] < b[1] \/ (a[1] = b[1] /\ a[2] > b[2])
      kept == {m \in met : Cardinality({o \in met : before(o, m)}) < MAX_DICTIONARY_SIZE}
      known(j, i) == \E m \in kept : m[1] < i /\ m[2] = j /\ Context(s, m[1], j) = Context(s, i, j)
      count(j, i, v) ==
        Cardinality({k \in B_LEN..i - 1 : Context(s, k, j) = Context(s, i, j) /\ s[k + 1] = v})
      guess(j, i) == Max({v \in ToSet(s) : \A u \in ToSet(s) : count(j, i, u) <= count(j, i, v)})
      most(j, i) == count(j, i, guess(j, i))
      at(i) == LET js == {j \in 1..B_LEN : known(j, i)}
                   best == {j \in js : \A k \in js : most(k, i) <= most(j, i)}
               IN Judged(js # {} /\ guess(Max(best), i) = s[i + 1])
  IN SameTally(LzLiteral(s), Guesses(B_LEN + 1, last, at))

\* Every predictor counts what its description does, over the numbers the literal track gives
\* the symbols; and the binary tables do what the dictionaries would.
PredictorsAgree(s) ==
  /\ Len(s) >= 2 => LagAgrees(s)
  /\ McwAgrees(s)
  /\ Len(s) >= 4 => MmcAgrees(s)
  /\ Len(s) >= B_LEN + 3 => LzAgrees(s)

\* The bits of a symbol are its number in binary.
BitsAreExact(symbols, width) ==
  LET bits == ToBitstring(symbols, width)
  IN /\ Len(bits) = width * Len(symbols)
     /\ \A k \in DOMAIN symbols :
          symbols[k] = FoldLeft(LAMBDA acc, b : 2 * acc + b, 0, BlockOf(bits, k, width))

-----------------------------------------------------------------------------
(* sais_core, over a string that ends in its one smallest symbol 0.        *)

Unset == -1

\* S-type: smaller than the suffix behind it.
Types(s, n) ==
  LET back == Chain(n - 1, TRUE, LAMBDA k, later : \/ s[n - 1 - k] < s[n - k]
                                                   \/ s[n - 1 - k] = s[n - k] /\ later)
  IN Written([i \in 0..n - 1 |-> back[n - 1 - i]])

IsLms(isS, i) == i > 0 /\ isS[i] /\ ~isS[i - 1]

\* Where the suffixes that begin with a symbol start, and where they end.
BucketHeads(s) == Written([c \in {s[i] : i \in DOMAIN s} |-> Cardinality({i \in DOMAIN s : s[i] < c})])
BucketTails(s) == Written([c \in {s[i] : i \in DOMAIN s} |-> Cardinality({i \in DOMAIN s : s[i] <= c})])

\* Position p at the head of its bucket, or at the tail of what is left of it.
AtHead(s, st, p) == [sa |-> [st.sa EXCEPT ![st.at[s[p]]] = p], at |-> [st.at EXCEPT ![s[p]] = @ + 1]]
AtTail(s, st, p) == [sa |-> [st.sa EXCEPT ![st.at[s[p]] - 1] = p], at |-> [st.at EXCEPT ![s[p]] = @ - 1]]

\* induce_sort: from the suffixes that are placed those before them, first of L-type from the
\* left, then of S-type from the right, from full buckets each.
InduceSort(s, isS, sa) ==
  LET n == Cardinality(DOMAIN s)
      left(i, st) == LET p == st.sa[i - 1] - 1 IN IF p >= 0 /\ ~isS[p] THEN AtHead(s, st, p) ELSE st
      right(i, st) == LET p == st.sa[n - i] - 1 IN IF p >= 0 /\ isS[p] THEN AtTail(s, st, p) ELSE st
      large == Chain(n, [sa |-> sa, at |-> BucketHeads(s)], left)[n].sa
  IN Chain(n, [sa |-> large, at |-> BucketTails(s)], right)[n].sa

\* Positions in the order given at the tails of their buckets, and the rest induced.
Sorted(s, isS, order) ==
  LET n == Cardinality(DOMAIN s)
      empty == [sa |-> Written([i \in 0..n - 1 |-> Unset]), at |-> BucketTails(s)]
      placed == FoldLeft(LAMBDA st, p : AtTail(s, st, p), empty, order)
  IN InduceSort(s, isS, placed.sa)

\* Fault: substrings are told apart by their first symbol only.
LmsSubstrEqual_First(s, isS, a, b) == s[a] = s[b]

\* lms_substr_equal: the same symbols and types up to the next of both.
LmsSubstrEqual(s, isS, a, b) ==
  LET n == Cardinality(DOMAIN s)
      inside(i) == a + i < n /\ b + i < n
      same(i) == inside(i) /\ s[a + i] = s[b + i] /\ isS[a + i] = isS[b + i]
      ends(i) == i > 0 /\ inside(i) /\ IsLms(isS, a + i) /\ IsLms(isS, b + i)
      parts(i) == i > 0 /\ inside(i) /\ IsLms(isS, a + i) # IsLms(isS, b + i)
  IN \E i \in 0..n : /\ \A j \in 0..i - 1 : same(j) /\ ~ends(j) /\ ~parts(j)
                     /\ IF inside(i) THEN same(i) /\ ends(i) ELSE a + i >= n /\ b + i >= n

RECURSIVE SaisCore(_)
SaisCore(s) ==
  LET n == Cardinality(DOMAIN s)
      isS == Types(s, n)
      lms == SelectSeq(Bytes(n, LAMBDA i : i), LAMBDA i : IsLms(isS, i))
      rough == Sorted(s, isS, lms)
      inOrder == SelectSeq(Bytes(n, LAMBDA i : rough[i]), LAMBDA p : p >= 0 /\ IsLms(isS, p))
      \* The names of the substrings, in the order of the rough sort.
      name == Written(Chain(Len(inOrder), 0,
                LAMBDA k, last : IF k > 1 /\ LmsSubstrEqual(s, isS, inOrder[k - 1], inOrder[k]) THEN last ELSE last + 1))
      nameOf(p) == name[CHOOSE k \in DOMAIN inOrder : inOrder[k] = p]
      reduced == Written([r \in 0..Len(lms) - 1 |-> nameOf(lms[r + 1]) - 1])
      reducedSa == IF name[Len(inOrder)] = Len(lms)
                   THEN [k \in 0..Len(lms) - 1 |-> CHOOSE r \in DOMAIN reduced : reduced[r] = k]
                   ELSE SaisCore(reduced)
  IN IF n = 1 THEN [i \in {0} |-> 0]
     ELSE Sorted(s, isS, Bytes(Len(lms), LAMBDA i : lms[reducedSa[Len(lms) - 1 - i] + 1]))

\* suffix_array_sais: symbols moved up, the sentinel behind them and left out of the result.
SuffixArraySais(text) ==
  LET n == Len(text)
      sa == SaisCore(Written([i \in 0..n |-> IF i = n THEN 0 ELSE text[i + 1] + 1]))
  IN IF n <= 1 THEN Zeros(n) ELSE SelectSeq(Bytes(n + 1, LAMBDA i : sa[i]), LAMBDA p : p < n)

-----------------------------------------------------------------------------
(* sa_lcp: the common prefix of each suffix and the one sorted before it,  *)
(* in the order of positions; one that is h long leaves h - 1 to the next. *)

\* The common prefix of two suffixes that are known to share h symbols.
Extended(text, i, j, h) ==
  Max({g \in h..Len(text) : \A k \in h..g - 1 : /\ i + k < Len(text) /\ j + k < Len(text)
                                                 /\ text[i + k + 1] = text[j + k + 1]})

Lcp(text, sa) ==
  LET n == Len(text)
      rank(i) == CHOOSE k \in DOMAIN sa : sa[k] = i
      step(i, st) ==
        LET k == rank(i - 1)
            h == IF k > 1 THEN Extended(text, i - 1, sa[k - 1], st.h) ELSE st.h
        IN [h |-> IF h > 0 THEN h - 1 ELSE 0,
            lcp |-> IF k > 1 THEN [st.lcp EXCEPT ![k - 1] = h] ELSE st.lcp]
  IN Chain(n, [h |-> 0, lcp |-> Written([k \in 0..n |-> 0])], step)[n].lcp

-----------------------------------------------------------------------------
(* saalgs. I holds the lengths that are open, A how often each repeated.   *)

\* The lengths above li are over: each takes in what was open beyond it, and tells Q where it
\* is the most common so far.
RECURSIVE Unwound(_, _, _)
Unwound(st, t, li) ==
  LET beyond == st.I[st.j + 1]
      merged == IF st.j > 0 /\ st.I[st.j] = t
                THEN [st EXCEPT !.A[t] = @ + st.A[beyond], !.A[beyond] = 0, !.j = @ - 1] ELSE st
      count == merged.A[merged.I[merged.j + 1]] + 1
  IN IF t <= li THEN st
     ELSE IF merged.Q[t] >= count THEN Unwound(merged, IF merged.j > 0 THEN merged.I[merged.j] ELSE li, li)
     ELSE Unwound([merged EXCEPT !.Q[t] = count], t - 1, li)

\* A place where the common prefix is li behind one of before.
QStep(st, before, li) ==
  LET down == li < before
      closed == IF down THEN Unwound([st EXCEPT !.j = @ - 1], before, li) ELSE st
      over == closed.I[closed.j + 1]
      carry == IF down THEN closed.A[over] ELSE 0
      taken == IF down THEN [closed EXCEPT !.A[over] = 0] ELSE closed
      open == IF taken.j < 1 \/ taken.I[taken.j] < li
              THEN [taken EXCEPT !.j = @ + 1, !.I[taken.j + 1] = li] ELSE taken
  IN IF li > 0 THEN [open EXCEPT !.A[open.I[open.j]] = @ + carry + 1] ELSE taken

QOf(l, n, v) ==
  LET start == [Q |-> Written([t \in 0..v |-> 1]), A |-> Written([t \in 0..v + 1 |-> 0]),
                I |-> Written([k \in 0..v + 2 |-> 0]), j |-> 0]
  IN Chain(n, start, LAMBDA i, st : QStep(st, IF i = 1 THEN 0 ELSE l[i - 1], l[i]))[n].Q

\* The first length whose most common tuple is rare.
UOf(q, v) == Min({t \in 1..v : q[t] < TUPLE_THRESHOLD} \cup {v + 1})

\* Pairs of equal tuples of each length from u on.
SStep(st, before, li, u) ==
  LET down == Max({li, u - 1})
      over == before >= u /\ li < before
      lower(k, x) ==
        LET t == before + 1 - k
            a == x.A[t] + x.A[t + 1]
        IN [A |-> [x.A EXCEPT ![t] = a, ![t + 1] = 0], S |-> [x.S EXCEPT ![t] = @ + ((a + 1) * a) \div 2]]
      lowered == Chain(before - down, st, lower)[before - down]
      kept == IF down >= u THEN [lowered EXCEPT !.A[down] = @ + lowered.A[down + 1], !.A[down + 1] = 0]
              ELSE [lowered EXCEPT !.A[down + 1] = 0]
      closed == IF over THEN kept ELSE st
  IN IF li >= u THEN [closed EXCEPT !.A[li] = @ + 1] ELSE closed

SOf(l, n, v, u) ==
  LET start == [A |-> Written([t \in 0..v + 1 |-> 0]), S |-> Written([t \in 0..v |-> 0])]
  IN Chain(n, start, LAMBDA i, st : SStep(st, IF i = 1 THEN 0 ELSE l[i - 1], l[i], u))[n].S

-----------------------------------------------------------------------------
(* What they are for.                                                      *)

Suffix(text, i) == From(text, i + 1)

\* One string is before another: a prefix, or smaller where they first differ.
Before(a, b) ==
  \/ Len(a) < Len(b) /\ a = SubSeq(b, 1, Len(a))
  \/ \E k \in 1..Min({Len(a), Len(b)}) : SubSeq(a, 1, k - 1) = SubSeq(b, 1, k - 1) /\ a[k] < b[k]

CommonPrefix(a, b) == Max({k \in 0..Min({Len(a), Len(b)}) : SubSeq(a, 1, k) = SubSeq(b, 1, k)})

\* How often each tuple of t symbols occurs.
Occurrences(text, t) ==
  LET at(i) == SubSeq(text, i, i + t - 1)
      places == 1..Len(text) - t + 1
  IN Written([w \in {at(i) : i \in places} |-> Cardinality({i \in places : at(i) = w})])

Most(f) == Max({f[w] : w \in DOMAIN f})
Collisions(f) == FoldFunction(LAMBDA c, sum : sum + (c * (c - 1)) \div 2, 0, f)

\* Suffixes are sorted and their common prefixes right; Q has the most common tuple of each
\* length that repeats, and S the pairs of equal ones of each length that is rare.
TuplesAgree(text) ==
  LET n == Len(text)
      sorted == SuffixArraySais(text)
      sa == Written([k \in 0..n |-> IF k = 0 THEN n ELSE sorted[k]])
      lcp == Lcp(text, sa)
      v == Max({lcp[k] : k \in 0..n})
      q == QOf(lcp, n, v)
      u == UOf(q, v)
      s == SOf(lcp, n, v, u)
  IN /\ Len(sorted) = n /\ ToSet(sorted) = 0..n - 1
     /\ \A k \in 1..n - 1 : Before(Suffix(text, sorted[k]), Suffix(text, sorted[k + 1]))
     /\ \A k \in 1..n - 1 : lcp[k] = CommonPrefix(Suffix(text, sorted[k]), Suffix(text, sorted[k + 1]))
     /\ v < n /\ Most(Occurrences(text, v + 1)) = 1
     /\ v > 0 => \A t \in 1..v : q[t] = Most(Occurrences(text, t))
     /\ v > 0 => \A t \in u..v : s[t] = Collisions(Occurrences(text, t))

-----------------------------------------------------------------------------
(* The tests of independence: the permutation test compares statistics of  *)
(* the data with those of its shuffles (permutation.rs), the chi-square    *)
(* tests sort tuples into bins by how often they are expected              *)
(* (chi_square.rs).  Proportions are kept as counts, so that nothing is    *)
(* rounded; what is left out is the compression statistic and the p-value. *)

CONSTANTS
  Octet,     \* bits a conversion takes at a time, 8
  WordWidth, \* bits of the generator's output, 64
  Enough,    \* shuffles that must not be on one side, 5
  Least,     \* occurrences expected of a bin, 5
  MaxTuple   \* bits of the longest binary tuple, 11

Alphabet(data) == ToSet(data)
Total(data) == FoldLeft(LAMBDA sum, v : sum + v, 0, data)

-----------------------------------------------------------------------------
(* The statistics of the permutation test.                                 *)

\* conversion1 counts the ones of a block, conversion2 reads it as a number.
Conversion1(data) ==
  Bytes(Blocks(data, Octet), LAMBDA k : Total(BlockOf(data, k + 1, Octet)))
Conversion2(data) ==
  LET bits(k) == Padded(BlockOf(data, k + 1, Octet), Octet)
  IN Bytes(Blocks(data, Octet), LAMBDA k : FoldLeft(LAMBDA acc, b : 2 * acc + b, 0, bits(k)))

\* Twice the median, which alphabet_stats sets at a half for binary data.
Median2(data) ==
  LET v == SortSeq(data, <)
      half == Len(data) \div 2
  IN IF Cardinality(Alphabet(data)) = 2 THEN 1
     ELSE IF Len(data) % 2 = 1 THEN 2 * v[half + 1] ELSE v[half + 1] + v[half]

AltSequence1(data) ==
  Bytes(Max({0, Len(data) - 1}), LAMBDA i : IF data[i + 1] > data[i + 2] THEN -1 ELSE 1)
AltSequence2(data) == Bytes(Len(data), LAMBDA i : IF 2 * data[i + 1] < Median2(data) THEN -1 ELSE 1)

NumRuns(alt) == IF alt = <<>> THEN 0 ELSE 1 + Cardinality({i \in 2..Len(alt) : alt[i] # alt[i - 1]})
LenRuns(alt) ==
  LET step(i, st) ==
        IF alt[i + 1] = alt[i] THEN [st EXCEPT !.run = @ + 1] ELSE [max |-> Max({st.max, st.run}), run |-> 1]
      end == Chain(Len(alt) - 1, [max |-> 0, run |-> 1], step)[Len(alt) - 1]
  IN IF alt = <<>> THEN 0 ELSE Max({end.max, end.run})
NumIncreasesDecreases(alt) ==
  LET pos == Cardinality({i \in DOMAIN alt : alt[i] = 1}) IN Max({pos, Len(alt) - pos})

\* Fault: the window behind a collision begins with the repeated symbol.
FindCollisions_Overlap(data) ==
  LET step(k, st) ==
        IF data[k] \in st.seen THEN [gaps |-> Append(st.gaps, k - st.first + 1), first |-> k, seen |-> {data[k]}]
        ELSE [st EXCEPT !.seen = @ \cup {data[k]}]
  IN Chain(Len(data), [gaps |-> <<>>, first |-> 1, seen |-> {}], step)[Len(data)].gaps

\* Windows up to the first repeated symbol, each beginning behind the last.
FindCollisions(data) ==
  LET step(k, st) ==
        IF data[k] \in st.seen THEN [gaps |-> Append(st.gaps, k - st.first + 1), first |-> k + 1, seen |-> {}]
        ELSE [st EXCEPT !.seen = @ \cup {data[k]}]
  IN Chain(Len(data), [gaps |-> <<>>, first |-> 1, seen |-> {}], step)[Len(data)].gaps

Periodicity(data, p) == Cardinality({i \in 1..Len(data) - p : data[i] = data[i + p]})
Covariance(data, p) == Total(Bytes(Max({0, Len(data) - p}), LAMBDA i : data[i + 1] * data[i + 1 + p]))

\* excursion, as many times as there are samples.
Excursion(data) ==
  LET n == Len(data)
      sum == Written(Chain(n, 0, LAMBDA i, s : s + data[i]))
      off(i) == n * sum[i] - i * sum[n]
  IN Max({0} \cup {Max({off(i), -off(i)}) : i \in 1..n})

\* compute_all: binary data is converted for some of them.
ComputeAll(data) ==
  LET binary == Cardinality(Alphabet(data)) = 2
      blocks == IF binary THEN Conversion1(data) ELSE data
      alt1 == AltSequence1(blocks)
      alt2 == AltSequence2(data)
  IN [excursion |-> Excursion(data), runs |-> NumRuns(alt1), longest |-> LenRuns(alt1),
      increases |-> NumIncreasesDecreases(alt1), medianRuns |-> NumRuns(alt2), medianLongest |-> LenRuns(alt2),
      collisions |-> FindCollisions(IF binary THEN Conversion2(data) ELSE data),
      periods |-> Bytes(3, LAMBDA p : Periodicity(blocks, p + 1)),
      covariances |-> Bytes(3, LAMBDA p : Covariance(blocks, p + 1))]

-----------------------------------------------------------------------------
(* The shuffles and the verdict.                                           *)

Again == -1

\* random_range64: the number in 0..s that draw x gives, or another draw.
RandomRange(s, x) ==
  LET m == x * (s + 1)
      low == m % 2^WordWidth
  IN IF s = 2^WordWidth - 1 THEN x
     ELSE IF low < s + 1 /\ low < (2^WordWidth - (s + 1)) % (s + 1) THEN Again ELSE m \div 2^WordWidth

\* fy_shuffle: draw[i] is the one for index i.
FyShuffle(data, draw) ==
  LET n == Len(data)
      step(k, d) == LET i == n - k IN [d EXCEPT ![i + 1] = d[draw[i] + 1], ![draw[i] + 1] = d[i + 1]]
  IN IF n < 2 THEN data ELSE Chain(n - 1, data, step)[n - 1]

IsDecided(c) == c.greater + c.equal > Enough /\ c.equal + c.less > Enough

\* run_permutation: what a shuffle says of each statistic is counted until that is decided.
Tallied(st, said) ==
  LET counted == Written([t \in DOMAIN said |-> IF st.active[t] THEN [st.c[t] EXCEPT ![said[t]] = @ + 1] ELSE st.c[t]])
  IN [c |-> counted, active |-> Written([t \in DOMAIN said |-> st.active[t] /\ ~IsDecided(counted[t])])]

RunPermutation(shuffles, tests) ==
  LET start == [c |-> Written([t \in tests |-> [greater |-> 0, equal |-> 0, less |-> 0]]),
                active |-> Written([t \in tests |-> TRUE])]
      step(k, st) == IF \E t \in tests : st.active[t] THEN Tallied(st, shuffles[k]) ELSE st
      end == Chain(Len(shuffles), start, step)[Len(shuffles)]
  IN [t \in tests |-> IsDecided(end.c[t])]

-----------------------------------------------------------------------------
(* The bins of the chi-square tests.                                       *)

\* map_symbols numbers the values by their size.
MapSymbols(data) ==
  Bytes(Len(data), LAMBDA i : Cardinality({v \in Alphabet(data) : v < data[i + 1]}))

\* expectation_order: rare tuples first, by number among equals. e[tuple] is what is expected.
ExpectationOrder(e) == SortSeq(Bytes(Cardinality(DOMAIN e), LAMBDA t : t), LAMBDA a, b : e[a] < e[b] \/ (e[a] = e[b] /\ a < b))

\* allocate_bins, over expectations unit times as large.
AllocateBins(e, unit) ==
  LET order == ExpectationOrder(e)
      step(k, st) ==
        LET full == st.current >= Least * unit
            bins == IF full THEN Append(st.exp, st.current) ELSE st.exp
        IN [exp |-> bins, bin |-> Append(st.bin, Len(bins)), current |-> (IF full THEN 0 ELSE st.current) + e[order[k]]]
      st == Chain(Len(order), [exp |-> <<>>, bin |-> <<>>, current |-> 0], step)[Len(order)]
      last == Len(st.exp)
      merged == last # 0 /\ st.current < Least * unit
      bin == IF merged THEN Bytes(Len(order), LAMBDA k : Min({st.bin[k + 1], last - 1})) ELSE st.bin
  IN [exp |-> IF merged THEN [st.exp EXCEPT ![last] = @ + st.current] ELSE Append(st.exp, st.current),
      bin |-> Written([t \in DOMAIN e |-> bin[CHOOSE k \in DOMAIN order : order[k] = t]])]

Proportion(data, v) == Cardinality({i \in DOMAIN data : data[i] = v})

\* chi_square_independence: pairs, expected Len(data)^2 times as often as the code has it.
PairExpectations(data) ==
  LET alph == Cardinality(Alphabet(data))
  IN Written([t \in 0..alph * alph - 1 |->
       Proportion(data, t \div alph) * Proportion(data, t % alph) * (Len(data) \div 2)])
PairsObserved(data, bins) ==
  LET pair(k) == data[2 * k - 1] * Cardinality(Alphabet(data)) + data[2 * k]
  IN Bytes(Len(bins.exp), LAMBDA b : Cardinality({k \in 1..Len(data) \div 2 : bins.bin[pair(k)] = b}))

\* goodness_of_fit: symbols of a tenth of the data, expected Len(data) times as often.
SymbolExpectations(data) ==
  Written([v \in 0..Cardinality(Alphabet(data)) - 1 |-> Proportion(data, v) * (Len(data) \div 10)])
SymbolsObserved(data, bins, j) ==
  LET n == Len(data) \div 10
  IN Bytes(Len(bins.exp), LAMBDA b : Cardinality({k \in j * n + 1..(j + 1) * n : bins.bin[data[k]] = b}))

\* binary_chi_square_independence: the longest tuple the rarer symbol lets fill its bin, or 1;
\* of ones ones among n samples.
TupleLength(n, ones) ==
  LET fills(m) == Min({ones, n - ones})^m * (n \div m) >= Least * n^m
      step(k, m) == IF m > 1 /\ ~fills(m) THEN m - 1 ELSE m
  IN Chain(MaxTuple, MaxTuple, step)[MaxTuple]

-----------------------------------------------------------------------------
(* What they are for.                                                      *)

\* The windows cut the data: in each the last symbol is the first to be met again, and none is
\* behind the last window.
CutsAtRepeats(data, gaps) ==
  LET end == Written(Chain(Len(gaps), 0, LAMBDA k, e : e + gaps[k]))
      distinct(a, b) == \A j, k \in a..b : j # k => data[j] # data[k]
  IN /\ end[Len(gaps)] <= Len(data)
     /\ \A k \in DOMAIN gaps : LET a == end[k - 1] + 1
                               IN /\ a < end[k] /\ distinct(a, end[k] - 1)
                                  /\ \E j \in a..end[k] - 1 : data[j] = data[end[k]]
     /\ distinct(end[Len(gaps)] + 1, Len(data))

\* Stretches of one sign that neither end continues.
RunsOf(alt) ==
  {r \in (1..Len(alt)) \X (1..Len(alt)) :
     /\ r[1] <= r[2] /\ \A i \in r[1]..r[2] : alt[i] = alt[r[1]]
     /\ r[1] > 1 => alt[r[1] - 1] # alt[r[1]]
     /\ r[2] < Len(alt) => alt[r[2] + 1] # alt[r[1]]}

\* No more than half of the samples are on either side of the median; runs are the maximal
\* ones; collisions are those of the data, or of the numbers its bits make; and what compares
\* samples only by order or by equality says the same of symbols moved apart, what compares
\* them at a distance says the same of the data reversed.
StatisticsAreExact(data) ==
  LET binary == Cardinality(Alphabet(data)) = 2
      of == ComputeAll(data)
      alt == AltSequence1(IF binary THEN Conversion1(data) ELSE data)
      apart == ComputeAll(Bytes(Len(data), LAMBDA i : 2 * data[i + 1] + 1))
      back == ComputeAll(Reverse(data))
      side(S) == 2 * Cardinality(S) <= Len(data)
  IN /\ ~binary => /\ side({i \in DOMAIN data : 2 * data[i] < Median2(data)})
                   /\ side({i \in DOMAIN data : 2 * data[i] > Median2(data)})
     /\ of.runs = Cardinality(RunsOf(alt))
     /\ of.longest = Max({0} \cup {r[2] - r[1] + 1 : r \in RunsOf(alt)})
     /\ CutsAtRepeats(IF binary THEN Conversion2(data) ELSE data, of.collisions)
     /\ ~binary => \A name \in {"runs", "longest", "increases", "medianRuns", "medianLongest", "collisions", "periods"} :
                     apart[name] = of[name]
     /\ ~binary => \A name \in {"medianRuns", "medianLongest", "periods", "covariances", "excursion"} :
                     back[name] = of[name]
     /\ binary => \A k \in 1..Blocks(data, Octet) :
                    LET ones == {j \in 0..Octet - 1 : (Conversion2(data)[k] \div 2^(Octet - 1 - j)) % 2 = 1}
                    IN /\ ones = {j \in 0..Octet - 1 : (k - 1) * Octet + j < Len(data)
                                                        /\ data[(k - 1) * Octet + j + 1] = 1}
                       /\ Conversion1(data)[k] = Cardinality(ones)

\* Draws that are taken fall on every number of the range equally often.
RangesAreEven(s) ==
  LET hits(r) == Cardinality({x \in 0..2^WordWidth - 1 : RandomRange(s, x) = r})
  IN /\ \A r \in 0..s : hits(r) = 2^WordWidth \div (s + 1)
     /\ \A x \in 0..2^WordWidth - 1 : RandomRange(s, x) \in -1..s

\* Each order of n samples is the result of one choice of draws.
ShufflesAreEven(n) ==
  LET draws == {d \in [1..n - 1 -> 0..n - 1] : \A i \in 1..n - 1 : d[i] <= i}
      data == Bytes(n, LAMBDA i : i)
      orders == {FyShuffle(data, d) : d \in draws}
  IN Cardinality(orders) = Cardinality(draws) /\ \A o \in orders : ToSet(o) = 0..n - 1

\* Statistics that are no longer counted pass as they would had all shuffles been counted.
EarlyExitIsSound(shuffles, tests) ==
  LET count(t, said) == Cardinality({k \in DOMAIN shuffles : shuffles[k][t] = said})
  IN \A t \in tests :
       RunPermutation(shuffles, tests)[t] =
         IsDecided([said \in {"greater", "equal", "less"} |-> count(t, said)])

\* Bins take the tuples in order, none is left out, each is expected often enough unless there
\* is one only, and what is expected of all of them is what is expected of all tuples.
BinsAreWhole(e, unit, bins) ==
  LET order == ExpectationOrder(e)
      inBin(b) == {t \in DOMAIN e : bins.bin[t] = b}
      sum(S) == FoldSet(LAMBDA t, acc : acc + e[t], 0, S)
  IN /\ \A k \in 2..Len(order) : bins.bin[order[k]] - bins.bin[order[k - 1]] \in {0, 1}
     /\ {bins.bin[t] : t \in DOMAIN e} = 0..Len(bins.exp) - 1
     /\ \A b \in 1..Len(bins.exp) : bins.exp[b] = sum(inBin(b - 1))
     /\ Len(bins.exp) > 1 => \A b \in 1..Len(bins.exp) : bins.exp[b] >= Least * unit

\* Both tests bin every pair and every symbol of a tenth.
ChiSquareIsWhole(data) ==
  LET mapped == MapSymbols(data)
      n == Len(data)
      pairs == AllocateBins(PairExpectations(mapped), n * n)
      singles == AllocateBins(SymbolExpectations(mapped), n)
  IN /\ BinsAreWhole(PairExpectations(mapped), n * n, pairs)
     /\ BinsAreWhole(SymbolExpectations(mapped), n, singles)
     /\ Total(PairsObserved(mapped, pairs)) = n \div 2
     /\ \A j \in 0..9 : Total(SymbolsObserved(mapped, singles, j)) = n \div 10

\* Every binary tuple of the length that is chosen is expected often enough, and no longer
\* length has that.
TuplesFill(n, ones) ==
  LET fills(m) == \A w \in 0..m : ones^w * (n - ones)^(m - w) * (n \div m) >= Least * n^m
      m == TupleLength(n, ones)
  IN /\ m > 1 => fills(m)
     /\ \A k \in m + 1..MaxTuple : ~fills(k)
=============================================================================
