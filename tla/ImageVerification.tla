--------------------------- MODULE ImageVerification ---------------------------
(***************************************************************************)
(* The entry table of an integrity slot: what parts of an image a          *)
(* signature covers and how, in the one form the format allows.            *)
(* A table is put in canonical form (merge), stored with its repeated      *)
(* periods folded (pack), and parsed back with every check the verifier    *)
(* makes before it believes any of it (slot.rs).                           *)
(*                                                                         *)
(* Offsets count cells where the code counts bytes, and a slot is a record *)
(* of its fields: magics, the version and the layout of the bytes are its  *)
(* field "padding", zero where the bytes are as encode writes them.        *)
(*                                                                         *)
(* The integrity test of the loaded image: the slot is read and parsed,    *)
(* the image it tells of is found in memory and, for what the program may  *)
(* write, in its file, the signed message is put together again and the    *)
(* signature checked (verify.rs, acquire.rs for Linux).                    *)
(*                                                                         *)
(* A process is [key, slot, slot_addr, mem, maps, files, resolved]: mem    *)
(* has the cells a read gives, maps the mappings in the order of their     *)
(* addresses, [start, end, offset, path, access], files the cells of each  *)
(* path, and resolved the address of each import or "none".  A Bind word   *)
(* that is a Darwin resolver stub is left out.                             *)
(***************************************************************************)
EXTENDS Integers, Sequences, SequencesExt, FiniteSets

CONSTANTS
  Word,        \* cells of a word the loader writes (8 bytes)
  SlotSize,    \* cells of a slot (SLOT_SIZE)
  MaxMeta,     \* words an entry counts (u16::MAX)
  MaxRepeats,  \* repeats of a period (127)
  MaxEntries,  \* stored entries and records a slot has room for
  MaxExpanded, \* entries they may expand to (2^16)
  Limit,       \* the first offset that does not fit (2^32)
  Page,        \* cells of a page
  SegmentPage  \* and of the largest page (64 KiB)

-----------------------------------------------------------------------------
(* Entries: [rva, file_off, len, kind, meta].                              *)

Kinds == {"Plain", "Relative", "Bind", "Hole", "FileOnly"}

\* What a kind adds to the signed message is its len; words in a Plain entry's hole add none.
Hashed == {"Plain", "Relative", "FileOnly"}

HoleLen(e) == IF e.kind = "Plain" THEN Word * e.meta ELSE 0
RvaEnd(e) == e.rva + e.len + HoleLen(e)
FileEnd(e) == e.file_off + e.len + HoleLen(e)

Saturated(words) == IF words < MaxMeta THEN words ELSE MaxMeta

\* The one or two entries that e and the next stand for, or none if they are as they should be.
Combined(e, next) ==
  LET words == next.len \div Word
      room == MaxMeta - e.meta
      hole == e.kind = "Plain" /\ next.kind = "Hole" /\ next.len % Word = 0 /\ room > 0
  IN CASE RvaEnd(e) # next.rva \/ FileEnd(e) # next.file_off -> <<>>
       [] e.kind = "Plain" /\ next.kind = "Plain" /\ e.meta = 0 ->
            <<[e EXCEPT !.len = @ + next.len, !.meta = next.meta]>>
       [] hole /\ words <= room -> <<[e EXCEPT !.meta = Saturated(@ + words)]>>
       [] hole /\ words > room ->
            <<[e EXCEPT !.meta = MaxMeta],
              [next EXCEPT !.rva = @ + Word * room, !.file_off = @ + Word * room,
                           !.len = @ - Word * room]>>
       [] e.kind # "Plain" /\ e.kind = next.kind /\ e.meta = next.meta ->
            <<[e EXCEPT !.len = @ + next.len]>>
       [] OTHER -> <<>>

MergesWith(e, next) == Combined(e, next) # <<>>

Merge(entries) ==
  LET step(out, e) ==
        IF out # <<>> /\ MergesWith(Last(out), e)
        THEN Front(out) \o Combined(Last(out), e)
        ELSE Append(out, e)
  IN FoldLeft(step, <<>>, entries)

-----------------------------------------------------------------------------
(* Stored entries: relative and repeats are the bits of byte 13.           *)

Stored(e) ==
  [rva |-> e.rva, file_off |-> e.file_off, len |-> e.len, kind |-> e.kind, meta |-> e.meta,
   relative |-> FALSE, repeats |-> 0]

HasRun(w) == w.relative \/ w.repeats > 0
Period(w) == w.len + Word * w.meta
Ends(w) == <<w.rva + Period(w) * (w.repeats + 1), w.file_off + Period(w) * (w.repeats + 1)>>

\* Entry i takes the Relative run after it as its words.
TakesNext(entries, i) ==
  LET e == entries[i]  next == entries[i + 1]
  IN /\ i \in 1..Len(entries) - 1
     /\ e.kind = "Plain" /\ e.meta = 0
     /\ next.kind = "Relative" /\ next.meta = 0
     /\ next.len # 0 /\ next.len % Word = 0
     /\ next.rva = e.rva + e.len /\ next.file_off = e.file_off + e.len
     /\ next.len \div Word <= MaxMeta

Unit(entries, i) ==
  IF TakesNext(entries, i)
  THEN [Stored(entries[i]) EXCEPT !.meta = entries[i + 1].len \div Word, !.relative = TRUE]
  ELSE Stored(entries[i])

RepeatsPeriod(last, unit) ==
  /\ unit.kind = "Plain" /\ unit.meta # 0 /\ last.kind = "Plain"
  /\ <<last.len, last.meta, last.relative>> = <<unit.len, unit.meta, unit.relative>>
  /\ last.repeats < MaxRepeats
  /\ Ends(last) = <<unit.rva, unit.file_off>>

Pack(entries) ==
  LET heads == SelectSeq([i \in 1..Len(entries) |-> i], LAMBDA i : i = 1 \/ ~TakesNext(entries, i - 1))
      step(out, i) ==
        IF out # <<>> /\ RepeatsPeriod(Last(out), Unit(entries, i))
        THEN Append(Front(out), [Last(out) EXCEPT !.repeats = @ + 1])
        ELSE Append(out, Unit(entries, i))
  IN FoldLeft(step, <<>>, heads)

Expand(w) ==
  LET entry == [rva |-> w.rva, file_off |-> w.file_off, len |-> w.len, kind |-> w.kind,
                meta |-> IF w.relative THEN 0 ELSE w.meta]
      shifted(e, by) == [e EXCEPT !.rva = @ + by, !.file_off = @ + by]
      run(by) == [shifted(entry, by + w.len) EXCEPT !.kind = "Relative", !.len = Word * w.meta]
      period(k) == <<shifted(entry, Period(w) * k)>>
                   \o (IF w.relative THEN <<run(Period(w) * k)>> ELSE <<>>)
  IN FlattenSeq([k \in 1..w.repeats + 1 |-> period(k - 1)])

Expanded(wires) == FlattenSeq([i \in 1..Len(wires) |-> Expand(wires[i])])

-----------------------------------------------------------------------------
(* A slot: [flags, slot_rva, slot_file_off, file_len, link_base, key_id,   *)
(* wires, records, padding, sig].                                          *)

Encode(fields, entries, sig) ==
  [flags |-> fields.flags, slot_rva |-> fields.slot_rva, slot_file_off |-> fields.slot_file_off,
   file_len |-> fields.file_len, link_base |-> fields.link_base, key_id |-> fields.key_id,
   wires |-> Pack(entries), records |-> fields.records, padding |-> 0, sig |-> sig]

FitsSlot(wires, records) == Len(wires) + Len(records) <= MaxEntries

\* A stored entry as its bytes can hold it; only a Plain one that has words repeats.
StoredEntryOk(w) ==
  /\ w.kind \in Kinds /\ w.meta \in 0..MaxMeta /\ w.repeats \in 0..MaxRepeats
  /\ w.len # 0
  /\ HasRun(w) => w.kind = "Plain" /\ w.meta # 0

EntryFits(e) == RvaEnd(e) < Limit /\ FileEnd(e) < Limit

ShapeOk(e) ==
  CASE e.kind = "Plain" -> TRUE
    [] e.kind \in {"Hole", "FileOnly"} -> e.meta = 0
    [] e.kind = "Relative" -> e.meta = 0 /\ e.len % Word = 0
    [] e.kind = "Bind" -> e.len % Word = 0

\* Records are numbered from 0 in the order of their first use, and each is used.
RecordsInOrder(entries, records) ==
  LET used(n) == {entries[i].meta : i \in {j \in 1..n : entries[j].kind = "Bind"}}
  IN /\ \A i \in 1..Len(entries) :
          entries[i].kind = "Bind" => entries[i].meta <= Cardinality(used(i - 1))
     /\ used(Len(entries)) = 0..Len(records) - 1

Payload(entries) ==
  FoldFunction(+, 0, [i \in {j \in 1..Len(entries) : entries[j].kind \in Hashed} |-> entries[i].len])

ClearOfSlot(e, slot) ==
  /\ e.rva >= slot.slot_rva + SlotSize \/ RvaEnd(e) <= slot.slot_rva
  /\ e.file_off >= slot.slot_file_off + SlotSize \/ FileEnd(e) <= slot.slot_file_off

InOrder(e, next) == next.rva >= RvaEnd(e) /\ ~MergesWith(e, next)

\* Everything parse checks; the flags known to it are 0 and 1.
Parses(slot) ==
  /\ slot.padding = 0 /\ slot.flags \in {0, 1}
  /\ slot.wires # <<>> /\ FitsSlot(slot.wires, slot.records)
  /\ IsInjective(slot.records)
  /\ slot.slot_file_off + SlotSize <= slot.file_len /\ slot.slot_rva + SlotSize < Limit
  /\ \A i \in 1..Len(slot.wires) : StoredEntryOk(slot.wires[i])
  /\ LET entries == Expanded(slot.wires)
     IN /\ Len(entries) <= MaxExpanded
        /\ \A i \in 1..Len(entries) :
             /\ ShapeOk(entries[i]) /\ EntryFits(entries[i])
             /\ FileEnd(entries[i]) <= slot.file_len
             /\ ClearOfSlot(entries[i], slot)
        /\ \A i \in 1..Len(entries) - 1 : InOrder(entries[i], entries[i + 1])
        /\ RecordsInOrder(entries, slot.records)
        /\ Payload(entries) <= slot.file_len
        /\ Pack(entries) = slot.wires

-----------------------------------------------------------------------------
(* Reference: the cells a table tells of, and what of each.                *)

CellsOf(e) ==
  {<<e.rva + i, e.file_off + i, IF i < e.len THEN e.kind ELSE "Hole", IF e.kind = "Plain" THEN 0 ELSE e.meta>> :
     i \in 0..e.len + HoleLen(e) - 1}
Told(entries) == UNION {CellsOf(entries[i]) : i \in 1..Len(entries)}

\* Merged as the signer does, once by the classifier and once for the slot, a table says of
\* every cell what it said before, has nothing left to merge, and is stored and read back as
\* itself.
TableIsCanonical(entries) ==
  LET merged == Merge(Merge(entries))
  IN /\ Told(merged) = Told(entries)
     /\ Merge(merged) = merged
     /\ Expanded(Pack(merged)) = merged

\* The stored entry with its last period as an entry of its own.
Unrolled(w) ==
  LET by == Period(w) * w.repeats
  IN <<[w EXCEPT !.repeats = @ - 1],
       [w EXCEPT !.rva = @ + by, !.file_off = @ + by, !.repeats = 0]>>

\* A slot says what it says in one way: with its entries stored otherwise it is refused.
OneSpelling(slot) ==
  LET entries == Expanded(slot.wires)
      unrolled(i) ==
        SubSeq(slot.wires, 1, i - 1) \o Unrolled(slot.wires[i]) \o SubSeq(slot.wires, i + 1, Len(slot.wires))
      others == {[i \in 1..Len(entries) |-> Stored(entries[i])]}
                \cup {unrolled(i) : i \in {j \in 1..Len(slot.wires) : slot.wires[j].repeats > 0}}
  IN \A wires \in others : Parses([slot EXCEPT !.wires = wires]) => wires = slot.wires

-----------------------------------------------------------------------------
(* What the signing tool makes of an ELF image: the words its loader       *)
(* writes, placed in the regions of its segments, become the typed entries *)
(* of the slot, and the slot's fields, its table and the image's file      *)
(* cells under it become the signed message (elf.rs, image.rs, lib.rs of   *)
(* oxicrypt-integrity-sign).                                               *)
(*                                                                         *)
(* An image is [loads, relro, dynamic, words, records, slot_off, flags,    *)
(* file]: a load is a program header, a word is what loader_words read     *)
(* from a relocation or from .dynamic, and file holds the cells of the     *)
(* file from 0 on.  Bind words, which Mach-O and PE images have, take the  *)
(* same way through image.rs.                                              *)

CONSTANT Base \* values of a cell

WordSpace == Base^Word

WordAt(cells, at) ==
  LET value[i \in 0..Word] == IF i = Word THEN 0 ELSE cells[at + i] + Base * value[i + 1] IN value[0]
CellOfWord(value, i) == (value \div Base^i) % Base

-----------------------------------------------------------------------------
(* Packed relative relocations (RELR): an address, then bitmaps of the     *)
(* words that follow it.                                                   *)

CONSTANT BitmapWords \* words one bitmap tells of (63)

IsBitmap(entry) == entry % 2 = 1
Bit(entry, i) == (entry \div 2^i) % 2

RelrStep(state, entry) ==
  IF IsBitmap(entry)
  THEN [words |-> state.words \cup
                    {state.next + Word * (bit - 1) : bit \in {b \in 1..BitmapWords : Bit(entry, b) = 1}},
        next |-> state.next + Word * BitmapWords]
  ELSE [words |-> state.words \cup {entry}, next |-> entry + Word]

RelrWords(entries) == FoldLeft(RelrStep, [words |-> {}, next |-> 0], entries).words

-----------------------------------------------------------------------------
(* Regions: [va, len, file_off, kind, writable].                           *)

End(r) == r.va + r.len
Clamped(x, low, high) == IF x < low THEN low ELSE IF x > high THEN high ELSE x

RegionsOf(load, relro) ==
  LET end == load.vaddr + load.filesz
      lo == Clamped(relro[1], load.vaddr, end)
      hi == Clamped(relro[2], lo, end)
      region(from, to, kind) ==
        [va |-> from, len |-> to - from, file_off |-> load.offset + from - load.vaddr,
         kind |-> kind, writable |-> load.writable]
  IN SelectSeq(
       IF load.writable
       THEN <<region(load.vaddr, lo, "FileOnly"), region(lo, hi, "Plain"), region(hi, end, "FileOnly")>>
       ELSE <<region(load.vaddr, end, "Plain")>>,
       LAMBDA r : r.len > 0)

Regions(image) == FlattenSeq([i \in 1..Len(image.loads) |-> RegionsOf(image.loads[i], image.relro)])

InRegion(w, r) == w.va >= r.va /\ w.va < End(r)

InZeroFill(w, load) ==
  /\ load.writable
  /\ w.va >= load.vaddr + load.filesz /\ w.va + w.len <= load.vaddr + load.memsz

\* A word [va, len, kind, meta, relocation, copy] that no typing describes.
Refused(image, w) ==
  LET regions == ToSet(Regions(image))
  IN \/ w.relocation /\ w.va < image.dynamic[2] /\ w.va + w.len > image.dynamic[1]
     \/ \E r \in regions :
          /\ InRegion(w, r)
          /\ \/ w.copy
             \/ w.va + w.len > End(r)
             \/ w.relocation /\ r.kind # "FileOnly" /\ ~r.writable
     \/ /\ \A r \in regions : ~InRegion(w, r)
        /\ \A load \in ToSet(image.loads) : ~InZeroFill(w, load)

\* The words, ascending, that lie in Plain regions; others are dropped.
Kept(image) ==
  LET plain == {r \in ToSet(Regions(image)) : r.kind = "Plain"}
  IN SelectSeq(image.words, LAMBDA w : \E r \in plain : InRegion(w, r))

Placeable(image) ==
  LET kept == Kept(image)
  IN /\ \A w \in ToSet(image.words) : ~Refused(image, w)
     /\ \A i \in 1..Len(kept) - 1 : kept[i].va + kept[i].len <= kept[i + 1].va

-----------------------------------------------------------------------------
(* Entries.                                                                *)

\* A region cut at the words in it.
EntriesOf(r, words, base) ==
  LET inside == SelectSeq(words, LAMBDA w : InRegion(w, r))
      entry(va, len, kind, meta) ==
        [rva |-> va - base, file_off |-> r.file_off + va - r.va, len |-> len, kind |-> kind, meta |-> meta]
      after(i) == IF i = 0 THEN r.va ELSE inside[i].va + inside[i].len
      before(i) == IF i > Len(inside) THEN End(r) ELSE inside[i].va
      gap(i) == IF before(i) > after(i - 1)
                THEN <<entry(after(i - 1), before(i) - after(i - 1), "Plain", 0)>> ELSE <<>>
      word(i) == IF i > Len(inside) THEN <<>>
                 ELSE <<entry(inside[i].va, inside[i].len, inside[i].kind, inside[i].meta)>>
  IN IF r.kind = "FileOnly" THEN <<entry(r.va, r.len, "FileOnly", 0)>>
     ELSE FlattenSeq([i \in 1..Len(inside) + 1 |-> gap(i) \o word(i)])

ImageBase(image) == image.loads[1].vaddr

Typed(image) ==
  LET regions == Regions(image)
      words == Kept(image)
  IN FlattenSeq([i \in 1..Len(regions) |-> EntriesOf(regions[i], words, ImageBase(image))])

OverlapsSlot(e, rva) == RvaEnd(e) > rva /\ e.rva < rva + SlotSize

\* The parts of an entry before and after the slot.
Subtracted(e, rva) ==
  LET head == IF e.rva < rva THEN <<[e EXCEPT !.len = rva - e.rva]>> ELSE <<>>
      skipped == rva + SlotSize - e.rva
      tail == IF RvaEnd(e) > rva + SlotSize
              THEN <<[e EXCEPT !.rva = rva + SlotSize, !.file_off = @ + skipped, !.len = @ - skipped]>>
              ELSE <<>>
  IN IF OverlapsSlot(e, rva) THEN head \o tail ELSE <<e>>

SubtractSlot(entries, rva) == FlattenSeq([i \in 1..Len(entries) |-> Subtracted(entries[i], rva)])

HoldsSlot(load, off) == off >= load.offset /\ off + SlotSize <= load.offset + load.filesz

SlotRva(image) ==
  LET load == SelectSeq(image.loads, LAMBDA p : HoldsSlot(p, image.slot_off))[1]
  IN load.vaddr - ImageBase(image) + image.slot_off - load.offset

\* What classify gives for the slot.
Extent(image) == Merge(SubtractSlot(Typed(image), SlotRva(image)))

\* The image is one that the classifier takes: .dynamic lies in typed bytes of one segment,
\* every word can be placed, and the slot lies in what the loader does not write.
Classified(image) ==
  LET typed == Typed(image)
      holding == {load \in ToSet(image.loads) : HoldsSlot(load, image.slot_off)}
  IN /\ \E r \in ToSet(Regions(image)) :
          r.kind = "Plain" /\ image.dynamic[1] >= r.va /\ image.dynamic[2] <= End(r)
     /\ Placeable(image)
     /\ \A i \in 1..Len(typed) - 1 : RvaEnd(typed[i]) <= typed[i + 1].rva
     /\ holding # {} /\ \A load \in holding : ~load.writable
     /\ \A e \in ToSet(typed) : OverlapsSlot(e, SlotRva(image)) => e.kind = "Plain"
     /\ \E e \in ToSet(Extent(image)) : e.kind = "Plain"

-----------------------------------------------------------------------------
(* Signing.                                                                *)

\* Fault: the extent is taken to be canonical after the classifier's own merge.
Entries_MergedOnce(image) == Extent(image)
\* The extent of the classifier, merged again: one pass can leave a hole that the next joins.
Entries(image) == Merge(Extent(image))

UnsignedSlot(image, key) ==
  LET entries == Entries(image)
  IN Encode([flags |-> image.flags, slot_rva |-> SlotRva(image), slot_file_off |-> image.slot_off,
             file_len |-> Cardinality(DOMAIN image.file), link_base |-> ImageBase(image), key_id |-> key,
             records |-> IF \E e \in ToSet(entries) : e.kind = "Bind" THEN image.records ELSE <<>>],
            entries, "none")

\* The slot is taken by the verifier's own parser and says what it was asked to.
Signable(image, key) ==
  LET slot == UnsignedSlot(image, key)
  IN Parses(slot) /\ Expanded(slot.wires) = Entries(image)

Header(slot) == [slot EXCEPT !.sig = "cut"]

\* What entry e adds of the cells from at on; a Relative word adds its unslid value.
CellsFrom(cells, at, e) == IF e.kind \in Hashed THEN [i \in 1..e.len |-> cells[at + i - 1]] ELSE <<>>

FileSignatureInput(image, slot) ==
  LET entries == Expanded(slot.wires)
  IN <<Header(slot), FlattenSeq([i \in 1..Len(entries) |-> CellsFrom(image.file, entries[i].file_off, entries[i])])>>

\* A signature is the key and the message it was made for.
SignedSlot(image, key) ==
  LET slot == UnsignedSlot(image, key)
  IN [slot EXCEPT !.sig = <<key, FileSignatureInput(image, slot)>>]

Largest(S) == CHOOSE x \in S : \A y \in S : y <= x
Floor(x, to) == (x \div to) * to
Ceiling(x, to) == Floor(x + to - 1, to)

ImageSpan(slot) ==
  LET entries == Expanded(slot.wires)
  IN Largest({slot.slot_rva + SlotSize} \cup {RvaEnd(entries[i]) : i \in 1..Len(entries)})

-----------------------------------------------------------------------------
(* The file of the image, from the process's mappings.                     *)

Holding(maps, addr) == SelectSeq(maps, LAMBDA m : addr >= m.start /\ addr < m.end)

\* Whether every cell is mapped: neighbours in maps may continue one another.
RangeMapped(maps, addr, len) ==
  \A a \in addr..addr + len - 1 : \E i \in 1..Len(maps) :
    maps[i].access /\ a >= maps[i].start /\ a < maps[i].end

SamePath(maps, slot_addr) ==
  LET own == Holding(maps, slot_addr)[1]
  IN SelectSeq(maps, LAMBDA m : m.access /\ m.path = own.path)

HasFile(p) == Holding(p.maps, p.slot_addr) # <<>> /\ Holding(p.maps, p.slot_addr)[1].path # "none"

\* Cells of the image's file that are mapped where the slot says the image is.
MappedCells(p, base, span) ==
  LET ours == SamePath(p.maps, p.slot_addr)
      within(m) == Cardinality((m.start..m.end - 1) \cap (base..base + span - 1))
  IN FoldFunction(+, 0, [i \in 1..Len(ours) |-> within(ours[i])])

\* The runs of the file that the slot places at rva - file_off = delta, in order.
RunsAt(slot, delta) ==
  LET entries == Expanded(slot.wires)
      runs == <<<<slot.slot_file_off, slot.slot_file_off + SlotSize, slot.slot_rva - slot.slot_file_off>>>>
              \o [i \in 1..Len(entries) |->
                    <<entries[i].file_off, FileEnd(entries[i]), entries[i].rva - entries[i].file_off>>]
  IN SortSeq(SelectSeq(runs, LAMBDA run : run[3] = delta), LAMBDA a, b : a[1] < b[1])

\* Runs no more than a page of any system apart are one.
MergedRuns(runs) ==
  LET step(out, run) ==
        IF out # <<>> /\ run[1] <= Last(out)[2] + SegmentPage
        THEN Append(Front(out), [Last(out) EXCEPT ![2] = Largest({@, run[2]})])
        ELSE Append(out, run)
  IN FoldLeft(step, <<>>, runs)

PlacesLikeTheImage(slot, rel_mem, rel_file, len) ==
  LET runs == MergedRuns(RunsAt(slot, rel_mem - rel_file))
  IN \E i \in 1..Len(runs) :
       /\ rel_file >= Floor(runs[i][1], SegmentPage)
       /\ rel_file + len <= Ceiling(runs[i][2], SegmentPage)

\* Where in its file the image begins.
FileBase(p) ==
  LET own == Holding(p.maps, p.slot_addr)[1]
  IN own.offset + p.slot_addr - own.start - p.slot.slot_file_off

\* A mapping of the image's part of the file, among the image's addresses, contradicts the slot.
Contradicts(p, m, base) ==
  LET at == FileBase(p)
      range_end == base + Ceiling(ImageSpan(p.slot), Page)
      overlaps == m.offset < at + p.slot.file_len /\ m.offset + m.end - m.start > at
  IN /\ overlaps /\ m.end > base /\ m.start < range_end
     /\ \/ ~(m.offset >= at /\ m.start >= base /\ m.end <= range_end)
        \/ ~PlacesLikeTheImage(p.slot, m.start - base, m.offset - at, m.end - m.start)

\* A library of its own file has the signed length; one in an archive must fit in it.
FileLengthFits(at, file_len, size, envelope) ==
  IF at # 0 \/ envelope THEN at + file_len <= size ELSE at + file_len = size

\* What reading the file for an entry comes to, as classify_file_failure puts it.
FileRoute(p, base, e) ==
  LET ours == SamePath(p.maps, p.slot_addr)
      size == Cardinality(DOMAIN p.files[ours[1].path])
  IN CASE ~HasFile(p) -> "Unreadable"
       [] \/ FileBase(p) < 0 \/ FileBase(p) % Page # 0
          \/ \E i \in 1..Len(ours) : Contradicts(p, ours[i], base)
          \/ ~FileLengthFits(FileBase(p), p.slot.file_len, size, FALSE)
          \/ FileBase(p) + e.file_off + e.len > size -> "SlotInvalid"
       [] OTHER -> "Ok"

-----------------------------------------------------------------------------
(* The test.                                                               *)

Words(e) == {e.rva + Word * i : i \in 0..e.len \div Word - 1}

\* What reading entry e comes to; Bind words are compared where they are read.
EntryOutcome(p, base, e) ==
  LET record == p.slot.records[e.meta + 1]
      resolved == p.resolved[record]
      expected == IF resolved = "none" THEN 0 ELSE (resolved[1] + record.addend) % WordSpace
      cells == base + e.rva..base + e.rva + e.len - 1
  IN CASE e.kind = "Hole" -> "Ok"
       [] e.kind = "FileOnly" -> FileRoute(p, base, e)
       [] e.kind = "Bind" /\ resolved = "none" /\ ~record.weak -> "SlotInvalid"
       [] ~(cells \subseteq DOMAIN p.mem) ->
            IF RangeMapped(p.maps, base + e.rva, e.len) THEN "Unreadable" ELSE "SlotInvalid"
       [] e.kind = "Bind" /\ \E at \in Words(e) : WordAt(p.mem, base + at) # expected -> "SignatureInvalid"
       [] OTHER -> "Ok"

\* What entry e adds to the message: a Relative word less the slide.
Recovered(p, base, e) ==
  LET unslid(at) == (WordAt(p.mem, at) + p.slot.link_base - base) % WordSpace
      at == base + e.rva
  IN CASE e.kind = "Relative" ->
            [i \in 1..e.len |-> CellOfWord(unslid(at + Floor(i - 1, Word)), (i - 1) % Word)]
       [] e.kind = "FileOnly" ->
            CellsFrom(p.files[Holding(p.maps, p.slot_addr)[1].path], FileBase(p) + e.file_off, e)
       [] OTHER -> CellsFrom(p.mem, at, e)

Message(p, base, entries) ==
  <<Header(p.slot), FlattenSeq([i \in 1..Len(entries) |-> Recovered(p, base, entries[i])])>>

Verified(p) ==
  LET entries == Expanded(p.slot.wires)
      base == p.slot_addr - p.slot.slot_rva
      span == ImageSpan(p.slot)
      failed == SelectSeq([i \in 1..Len(entries) |-> EntryOutcome(p, base, entries[i])], LAMBDA o : o # "Ok")
  IN CASE ~Parses(p.slot) \/ p.slot.key_id # p.key \/ base < 0 -> "SlotInvalid"
       [] ~HasFile(p) \/ MappedCells(p, base, span) = 0 -> "Unreadable"
       [] Payload(entries) > span \/ Payload(entries) > MappedCells(p, base, span) -> "SlotInvalid"
       [] failed # <<>> -> failed[1]
       [] p.slot.sig # <<p.key, Message(p, base, entries)>> -> "SignatureInvalid"
       [] OTHER -> "Ok"

-----------------------------------------------------------------------------
(* The loader, from what the classifier takes it to do.                    *)

\* The file of a path: the image, alone or in an archive from a page on.
FileOf(image, slot, archive) ==
  LET n == Cardinality(DOMAIN image.file)
  IN [a \in 0..(IF archive = 0 THEN n ELSE archive + n + Page) - 1 |->
        IF a \in archive..archive + n - 1 THEN image.file[a - archive] ELSE 1]

Pages(load) == Floor(load.vaddr, Page)..Ceiling(load.vaddr + load.memsz, Page) - 1

\* A segment is mapped by whole pages; what RELRO protects is a mapping of its own.
MapsOf(image, load, at, archive) ==
  LET move == at - ImageBase(image)
      start == Floor(load.vaddr, Page)
      end == Ceiling(load.vaddr + load.filesz, Page)
      cut == Clamped(Floor(image.relro[2], Page), start, end)
      mapping(from, to) ==
        [start |-> from + move, end |-> to + move, path |-> "image", access |-> TRUE,
         offset |-> archive + Floor(load.offset, Page) + from - start]
      zero == [start |-> end + move, end |-> Ceiling(load.vaddr + load.memsz, Page) + move,
               path |-> "none", access |-> TRUE, offset |-> 0]
  IN SelectSeq(IF load.writable THEN <<mapping(start, cut), mapping(cut, end), zero>>
                                ELSE <<mapping(start, end)>>,
               LAMBDA m : m.end > m.start)

\* Memory of an image at an address: the file's cells, the words the loader writes, and
\* whatever the program wrote where it may.
MemoryOf(image, at, junk, resolved) ==
  LET move == at - ImageBase(image)
      cells == UNION {Pages(image.loads[i]) : i \in 1..Len(image.loads)}
      load(a) == CHOOSE i \in 1..Len(image.loads) : a \in Pages(image.loads[i])
      off(a) == image.loads[load(a)].offset + a - image.loads[load(a)].vaddr
      file(a) == IF off(a) \in DOMAIN image.file THEN image.file[off(a)] ELSE 0
      within(a) == {i \in 1..Len(image.words) : a \in image.words[i].va..image.words[i].va + image.words[i].len - 1}
      regions == ToSet(Regions(image))
      free(a) == image.loads[load(a)].writable
                 /\ \A r \in regions : a \in r.va..End(r) - 1 => r.kind = "FileOnly"
      word(a) == image.words[CHOOSE i \in within(a) : TRUE]
      slid(w) == (WordAt([c \in w.va..w.va + w.len - 1 |-> file(c)], w.va) + move) % WordSpace
      bound(w) == LET r == image.records[w.meta + 1]
                  IN IF resolved[r] = "none" THEN 0 ELSE (resolved[r][1] + r.addend) % WordSpace
      loaded(a) ==
        IF within(a) # {} /\ ~free(a)
        THEN CASE word(a).kind = "Relative" -> CellOfWord(slid(word(a)), a - word(a).va)
               [] word(a).kind = "Bind" -> CellOfWord(bound(word(a)), (a - word(a).va) % Word)
               [] OTHER -> (junk + a) % Base
        ELSE IF free(a) THEN (junk * (a + 1)) % Base ELSE file(a)
  IN [a \in {c + move : c \in cells} |-> loaded(a - move)]

Loaded(image, slot, at, archive, junk, resolved) ==
  [key |-> slot.key_id, slot |-> slot, slot_addr |-> at + slot.slot_rva,
   mem |-> MemoryOf(image, at, junk, resolved),
   maps |-> FlattenSeq([i \in 1..Len(image.loads) |-> MapsOf(image, image.loads[i], at, archive)]),
   files |-> [path \in {"image"} |-> FileOf(image, slot, archive)], resolved |-> resolved]

-----------------------------------------------------------------------------
(* What signing and testing owe each other.                                *)

\* Every cell of the file that the loader maps is the slot's or told of by one entry.
CoverageIsWhole(image) ==
  LET entries == Entries(image)
      spans(a) == Cardinality({i \in 1..Len(entries) : a \in entries[i].file_off..FileEnd(entries[i]) - 1})
                  + (IF a \in image.slot_off..image.slot_off + SlotSize - 1 THEN 1 ELSE 0)
  IN \A i \in 1..Len(image.loads) :
       \A a \in image.loads[i].offset..image.loads[i].offset + image.loads[i].filesz - 1 : spans(a) = 1

\* The same file loaded once more, elsewhere.
Twice(p, by) ==
  [p EXCEPT !.maps = @ \o [i \in 1..Len(@) |-> [@[i] EXCEPT !.start = @ + by, !.end = @ + by]]]

\* Wherever the image is loaded, whatever the loader and the program write where they may, and
\* whatever else of its file is mapped, the image that was signed passes.
LoadVerifies(image, slot, at, archive, junk, resolved) ==
  LET p == Loaded(image, slot, at, archive, junk, resolved)
  IN Verified(p) = "Ok" /\ Verified(Twice(p, 64)) = "Ok"

\* One cell changed that the slot tells of, in memory or, of what is checked in the file, there.
CellDamages(p) ==
  LET entries == Expanded(p.slot.wires)
      base == p.slot_addr - p.slot.slot_rva
      of(kinds) == {entries[i] : i \in {j \in 1..Len(entries) : entries[j].kind \in kinds}}
      cells == UNION {base + e.rva..base + e.rva + e.len - 1 : e \in of({"Plain", "Relative", "Bind"})}
      filed == UNION {FileBase(p) + e.file_off..FileBase(p) + e.file_off + e.len - 1 : e \in of({"FileOnly"})}
  IN {[p EXCEPT !.mem[a] = (@ + 1) % Base] : a \in cells}
     \cup {[p EXCEPT !.files["image"][a] = (@ + 1) % Base] : a \in filed}

WireDamages(w) ==
  {[w EXCEPT !.len = @ + 1], [w EXCEPT !.len = @ - 1], [w EXCEPT !.rva = @ + 1],
   [w EXCEPT !.file_off = @ + 1], [w EXCEPT !.meta = @ + 1], [w EXCEPT !.meta = 0],
   [w EXCEPT !.repeats = @ + 1], [w EXCEPT !.relative = ~@]}
  \cup {[w EXCEPT !.kind = k] : k \in Kinds \ {w.kind}}

SlotDamages(slot) ==
  {[slot EXCEPT !.flags = 1 - @], [slot EXCEPT !.slot_rva = @ + Page], [slot EXCEPT !.slot_rva = @ - 1],
   [slot EXCEPT !.slot_file_off = @ + Page], [slot EXCEPT !.file_len = @ + 1],
   [slot EXCEPT !.file_len = @ - 1], [slot EXCEPT !.link_base = @ + 1],
   [slot EXCEPT !.key_id = "other"], [slot EXCEPT !.padding = 1],
   [slot EXCEPT !.wires = Front(@)], [slot EXCEPT !.records = Reverse(@)]}
  \cup UNION {{[slot EXCEPT !.wires[i] = w] : w \in WireDamages(slot.wires[i])} : i \in 1..Len(slot.wires)}

\* A cell or a field of the slot that is not as it was signed fails the test, and a cell is
\* always reported as a signature that does not verify.
DamageShows(image, slot, at, archive, resolved) ==
  LET p == Loaded(image, slot, at, archive, 1, resolved)
  IN /\ \A q \in CellDamages(p) : Verified(q) = "SignatureInvalid"
     /\ \A other \in SlotDamages(slot) \ {slot} : Verified([p EXCEPT !.slot = other]) # "Ok"

\* What a RELR section tells of: a linker's packing of some words is read back as those words.
RelrIsExact(words) ==
  LET least(S) == CHOOSE x \in S : \A y \in S : x <= y
      bitmap(S, from) == 1 + FoldFunction(+, 0, [b \in 1..BitmapWords |->
                                IF from + Word * (b - 1) \in S THEN 2^b ELSE 0])
      window(from) == {from + Word * (b - 1) : b \in 1..BitmapWords}
      \* addresses, and after each the bitmaps as long as they have a word to tell of
      pack[S \in SUBSET words] ==
        IF S = {} THEN <<>>
        ELSE LET from == least(S)
                 run[k \in 0..Cardinality(S)] ==
                   IF k = 0 THEN [rest |-> S \ {from}, next |-> from + Word, out |-> <<from>>]
                   ELSE LET was == run[k - 1]
                            now == was.rest \cap window(was.next)
                        IN IF now = {} THEN was
                           ELSE [rest |-> was.rest \ now, next |-> was.next + Word * BitmapWords,
                                 out |-> Append(was.out, bitmap(now, was.next))]
                 end == run[Cardinality(S)]
             IN end.out \o pack[end.rest]
  IN RelrWords(pack[words]) = words
=============================================================================
