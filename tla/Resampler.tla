----------------------------- MODULE Resampler -----------------------------
(***************************************************************************)
(* dolanik/resampler.cpp: what calculateDstSamplesNumber, resample, flush    *)
(* and setInputFormat do to the samples between a decoder and Audio.  The   *)
(* calls come from one thread, so each is a function of a resampler's state. *)
(*                                                                          *)
(* A source sample is its number in its song.  A sample the filter graph    *)
(* made is <<song, number>>.  A resampler is a record of                     *)
(*   song, rate   what setInputFormat was called for (rate: destination      *)
(*                samples for rate[2] source samples);                      *)
(*   in, out      inputBuffer and outputBuffer;                              *)
(*   fed, made    how many samples the graph took and made;                  *)
(*   sink         the frames that wait at the sink.                          *)
(***************************************************************************)
EXTENDS Integers, Sequences, SequencesExt, FiniteSetsExt

CONSTANTS FRAME_SIZE,
          GraphDelay   \* destination samples that the graph's filters keep back

ASSUME ResamplerAssumption == FRAME_SIZE \in Nat \ {0} /\ GraphDelay \in Nat

NoFormat == <<0, 1>>
NewResampler == [song |-> 0, rate |-> NoFormat, in |-> <<>>, out |-> <<>>,
                 fed |-> 0, made |-> 0, sink |-> <<>>]

Numbers(from, to) == [i \in 1 .. to - from + 1 |-> from + i - 1]
RoundUp(n, d) == (n + d - 1) \div d

(* The graph is external: it takes consecutive samples, its filters work at   *)
(* the ratio of the rates behind a fixed delay, and a frame in makes at most  *)
(* one frame out.  A frame that is not the continuation of what it was fed    *)
(* makes noise, which has number 0.                                           *)
Made(rate, fed) == Max({0, (fed * rate[1]) \div rate[2] - GraphDelay})

AddFrame(r, frame) ==
  LET fed == r.fed + Len(frame)
      upTo == Made(r.rate, fed)
      good == frame = Numbers(r.fed + 1, fed)
      samples == [i \in 1 .. upTo - r.made |-> <<r.song, IF good THEN r.made + i ELSE 0>>]
  IN  [r EXCEPT !.fed = fed, !.made = upTo,
                !.sink = IF samples = <<>> THEN @ ELSE Append(@, samples)]

-----------------------------------------------------------------------------
(* The resampler after each of the whole frames of all went into the graph.  *)
Fed(r, all) ==
  LET f[i \in 0 .. Len(all) \div FRAME_SIZE] ==
        IF i = 0 THEN r
        ELSE AddFrame(f[i - 1], SubSeq(all, (i - 1) * FRAME_SIZE + 1, i * FRAME_SIZE))
  IN  f

(* Faulty variants: the samples that waited in inputBuffer come last; a frame  *)
(* that is just full waits; outputBuffer gets no room.                       *)
ConsumeNewFirst(r, src) ==
  LET all == src \o r.in
      frames == Len(all) \div FRAME_SIZE
  IN  [Fed(r, all)[frames] EXCEPT !.in = SubSeq(all, frames * FRAME_SIZE + 1, Len(all))]

ConsumeFullWaits(r, src) ==
  LET all == r.in \o src
      frames == (Len(all) - 1) \div FRAME_SIZE
  IN  [Fed(r, all)[frames] EXCEPT !.in = SubSeq(all, frames * FRAME_SIZE + 1, Len(all))]

CalculateNoLeftover(r, srcSamples) ==
  LET real == ((Len(r.in) + srcSamples) \div FRAME_SIZE) * FRAME_SIZE
  IN  RoundUp(real * r.rate[1], r.rate[2])

CalculateDstSamplesNumber(r, srcSamples) ==
  LET real == ((Len(r.in) + srcSamples) \div FRAME_SIZE) * FRAME_SIZE
  IN  RoundUp(real * r.rate[1], r.rate[2]) + Len(r.out)

(* Whole frames go into the graph, the rest stays in inputBuffer.            *)
Consume(r, src) ==
  LET all == r.in \o src
      frames == Len(all) \div FRAME_SIZE
  IN  [Fed(r, all)[frames] EXCEPT !.in = SubSeq(all, frames * FRAME_SIZE + 1, Len(all))]

(* A frame at the sink goes to dstData, to outputBuffer what dstSamples does  *)
(* not allow any more; at dstSamples = 0 the loop ends.                      *)
TakeFrame(acc, frame) ==
  LET n == IF acc.room < Len(frame) THEN acc.room ELSE Len(frame)
  IN  IF acc.room = 0
      THEN [acc EXCEPT !.sink = Append(@, frame)]
      ELSE [acc EXCEPT !.data = @ \o SubSeq(frame, 1, n),
                       !.out = IF n < Len(frame) THEN SubSeq(frame, n + 1, Len(frame)) ELSE @,
                       !.room = @ - n]

Taken(fed, dstSamples) ==
  LET f[i \in 0 .. Len(fed.sink)] ==
        IF i = 0 THEN [data |-> fed.out, out |-> <<>>, room |-> dstSamples, sink |-> <<>>]
        ELSE TakeFrame(f[i - 1], fed.sink[i])
  IN  f

(* The result is the resampler after the call and what it wrote to dstData.  *)
(* What outputBuffer held comes first and does not lower dstSamples.         *)
Resample(r, src, dstSamples) ==
  LET fed == Consume(r, src)
      taken == Taken(fed, dstSamples)[Len(fed.sink)]
  IN  [resampler |-> [fed EXCEPT !.out = taken.out, !.sink = taken.sink], data |-> taken.data]

(* flush: the partial frame goes into the graph, what it makes to            *)
(* outputBuffer; inputBuffer is left to the caller.  (Its error returns, no    *)
(* memory and a frame the graph refuses, would lose the partial frame: the    *)
(* caller does not ask.  They are left out.)                                  *)
Flush(r) ==
  IF r.in = <<>> THEN r
  ELSE LET fed == AddFrame(r, r.in)
       IN  [fed EXCEPT !.out = @ \o FlattenSeq(fed.sink), !.sink = <<>>]

(* setInputFormat, but for the graph's filters: a new graph for a new song.  *)
SetInputFormat(r, song, rate) ==
  [Flush(r) EXCEPT !.song = song, !.rate = rate, !.in = <<>>,
                   !.fed = 0, !.made = 0, !.sink = <<>>]
=============================================================================
