------------------------------ MODULE EntropyRng ------------------------------
(***************************************************************************)
(* EntropyRng of oxicrypt-entropy: the generator that hands out the bytes  *)
(* of conditioned blocks and keeps the tail of the last one between calls. *)
(* Its owner reaches the pipeline behind it too (pipeline_mut), so every   *)
(* call of EntropyPipeline happens between two fills, and the module may   *)
(* fail between any two steps.                                             *)
(*                                                                         *)
(* A byte is named by the first sample of its block and its offset in it.  *)
(***************************************************************************)
EXTENDS EntropyPipeline

CONSTANTS
  BlockLen,  \* CONDITIONED_BLOCK_LEN
  MaxFill    \* bound: bytes asked for in one call

ASSUME RngAssumption == BlockLen \in Nat \ {0} /\ MaxFill \in Nat

VARIABLES
  rng,     \* "idle", "filling", or "drawing" a block
  left,    \* bytes of the call in progress still to be written
  dst,     \* those it has written
  block,   \* the first sample of the buffered block, 0 once it is wiped
  pos,     \* BlockLen: the buffer is empty
  failed,  \* the last fill returned an error
  last,    \* history: the last byte that was taken from a block
  tail     \* history: bytes taken since the pipeline was poisoned

buffer == <<block, pos>>
rngVars == <<rng, left, dst, buffer, failed, last, tail>>
allVars == <<vars, rngVars>>

RngInit ==
  /\ Init
  /\ rng = "idle" /\ left = 0 /\ dst = <<>>
  /\ block = 0 /\ pos = BlockLen
  /\ failed = FALSE /\ last = <<0, 0>> /\ tail = 0

\* discard_block.
Discard == block' = 0 /\ pos' = BlockLen

-----------------------------------------------------------------------------
(* fill.                                                                   *)

\* The module is asked first; a refusal empties the buffer and writes nothing.
RefuseFill ==
  /\ rng = "idle" /\ at = "idle"
  /\ ~Admits
  /\ Discard
  /\ failed' = TRUE
  /\ UNCHANGED <<vars, rng, left, dst, last, tail>>

BeginFill ==
  /\ rng = "idle" /\ at = "idle"
  /\ Admits
  /\ rng' = "filling" /\ failed' = FALSE
  /\ \E n \in 0..MaxFill : left' = n
  /\ UNCHANGED <<vars, dst, buffer, last, tail>>

\* Fault: a block is drained one byte late.
Drained_Late(p) == p > BlockLen

\* A block whose last byte went is wiped at once.
Drained(p) == p >= BlockLen

\* One byte of the buffered block; get(pos) outside it would read as zero.
TakeByte ==
  /\ rng = "filling" /\ left > 0 /\ ~Drained(pos)
  /\ dst' = Append(dst, <<block, pos>>) /\ last' = <<block, pos>>
  /\ left' = left - 1
  /\ tail' = IF state = "Poisoned" THEN tail + 1 ELSE tail
  /\ IF Drained(pos + 1) THEN Discard ELSE pos' = pos + 1 /\ UNCHANGED block
  /\ UNCHANGED <<vars, rng, failed>>

\* conditioned_block is called: it may refuse at once.
DrawBlock ==
  /\ rng = "filling" /\ left > 0 /\ Drained(pos)
  /\ BeginBlock \/ NotReady("conditioned_block") \/ ModuleRefuses("conditioned_block")
  /\ rng' = "drawing"
  /\ UNCHANGED <<left, dst, buffer, failed, last, tail>>

\* Its samples, its failures and its end.
BlockStep ==
  /\ rng = "drawing" /\ at = "block"
  /\ \/ FinishBlock \/ SourceFails
     \/ \E s \in Samples : Absorb(s) \/ SampleTrips(s)
  /\ UNCHANGED rngVars

TakeBlock ==
  /\ rng = "drawing" /\ at = "idle" /\ result = "ok"
  /\ block' = out[1] /\ pos' = 0
  /\ rng' = "filling"
  /\ UNCHANGED <<vars, left, dst, failed, last, tail>>

\* Any error wipes the destination and the buffer.
FailFill ==
  /\ rng = "drawing" /\ at = "idle" /\ result # "ok"
  /\ Discard
  /\ rng' = "idle" /\ left' = 0 /\ dst' = <<>> /\ failed' = TRUE
  /\ UNCHANGED <<vars, last, tail>>

\* The destination is the caller's.
EndFill ==
  /\ rng = "filling" /\ left = 0
  /\ rng' = "idle" /\ dst' = <<>>
  /\ UNCHANGED <<vars, left, buffer, failed, last, tail>>

\* into_inner and new again: the tail is wiped, the next generator starts empty.
Rewrap ==
  /\ rng = "idle" /\ at = "idle"
  /\ Discard
  /\ failed' = FALSE
  /\ UNCHANGED <<vars, rng, left, dst, last, tail>>

-----------------------------------------------------------------------------

\* pipeline_mut: the owner calls the pipeline itself.
OwnerCall ==
  /\ rng = "idle"
  /\ PipelineStep
  /\ UNCHANGED rngVars

ModuleStep == Lifecycle /\ UNCHANGED rngVars

RngNext ==
  \/ RefuseFill \/ BeginFill \/ TakeByte \/ DrawBlock \/ BlockStep
  \/ TakeBlock \/ FailFill \/ EndFill \/ Rewrap
  \/ OwnerCall \/ ModuleStep

RngSpec == RngInit /\ [][RngNext]_allVars
-----------------------------------------------------------------------------
(* What the generator promises.                                            *)

Later(a, b) == a[1] > b[1] \/ (a[1] = b[1] /\ a[2] > b[2])

\* Every byte given out is a byte of a block that was finished, and none is given
\* out twice, to one call or to two: not after an error, a rewrap, or a block
\* that failed halfway.
BytesOnce ==
  [][dst' # <<>> /\ dst' # dst =>
       LET b == dst'[Len(dst')]
       IN b[1] > 0 /\ b[2] \in 0..(BlockLen - 1) /\ Later(b, last)]_allVars

\* Nothing that was conditioned earlier outlives a failure, but for the tail of the one
\* block in the buffer. After the module refused a fill, or a draw failed, nothing is left
\* in the caller's buffer or in the generator's; once the pipeline is poisoned, at most
\* that tail is served, whatever is asked for.
PoisonedServesTailOnly ==
  /\ rng = "idle" => dst = <<>>
  /\ rng = "idle" /\ failed => block = 0
  /\ tail < BlockLen

=============================================================================
