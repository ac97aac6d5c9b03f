----------------------------- MODULE AudioFilter -----------------------------
(***************************************************************************)
(* tp_04_03/src/utils/audio_filter.c and SIMD_AudioFilter.asm: the filter  *)
(* that the server applies to each frame.  A frame interleaves the samples *)
(* of two channels; each channel goes through three FIR filters.           *)
(*                                                                         *)
(* The two versions of the FIR differ where a product or a sum does not    *)
(* fit a sample: C wraps each product and saturates each sum, the assembly *)
(* adds with the double of the width and wraps the result.  Both read      *)
(* taps - 1 samples past the channel.  The assembly stores a double word   *)
(* for each sample, and so two bytes past the last one, in the bytes that  *)
(* align the next array.                                                   *)
(***************************************************************************)
EXTENDS Integers, Sequences

CONSTANTS
  Half,      \* 2^15: samples are -Half .. Half - 1
  SAMPLE_N,  \* samples of a channel in a frame
  Coefs      \* coefs_0_Low, coefs_0_Mid and coefs_0_High

CHANNELS == 2

VARIABLES
  input,     \* a frame
  taps,      \* taps with which the two versions are compared
  beyond,    \* the samples in memory after the channel
  output     \* what AudioDSP makes of input; << >> before

vars == <<input, taps, beyond, output>>

Sample == -Half .. Half - 1

\* the low bits of a wider number
Wrap(n) == ((n + Half) % (2 * Half)) - Half

SaturatingAdd(a, b) ==
  LET sum == a + b
  IN IF sum <= -Half THEN -Half ELSE IF sum >= Half - 1 THEN Half - 1 ELSE sum

\* The sum of the products with the samples from j on, after each tap.
Sums(in, h, j) ==
  LET sum[i \in 0 .. Len(h)] ==
        IF i = 0 THEN 0 ELSE sum[i - 1] + h[i] * in[i + j - 1]
  IN sum

\* ch1 of the C version after each tap
Accumulated(in, h, j) ==
  LET ch1[i \in 0 .. Len(h)] ==
        IF i = 0 THEN 0
        ELSE SaturatingAdd(ch1[i - 1], Wrap(h[i] * in[i + j - 1]))
  IN ch1

-----------------------------------------------------------------------------
(* Faulty variants.  No specification uses them. *)

\* the last tap is left out
FirShort(in, h) == [j \in 1 .. SAMPLE_N |-> Wrap(Sums(in, h, j)[Len(h) - 1])]

-----------------------------------------------------------------------------

C_fir_mono_16bit(in, h) ==
  [j \in 1 .. SAMPLE_N |-> Accumulated(in, h, j)[Len(h)]]

\* four partial sums, which are added in the end: the sum in another order
asm_fir_16b(in, h) == [j \in 1 .. SAMPLE_N |-> Wrap(Sums(in, h, j)[Len(h)])]

separateChannels(in, channel) ==
  [j \in 1 .. SAMPLE_N |-> in[(j - 1) * CHANNELS + channel]]

joinChannels(ch1, ch2) ==
  [k \in 1 .. CHANNELS * SAMPLE_N |->
     LET j == ((k - 1) \div CHANNELS) + 1
     IN IF (k - 1) % CHANNELS = 0 THEN ch1[j] ELSE ch2[j]]

Filtered(channel) ==
  LET low  == asm_fir_16b(channel \o beyond, Coefs[1])
      mid  == asm_fir_16b(low \o beyond, Coefs[2])
  IN asm_fir_16b(mid \o beyond, Coefs[3])

AudioDSP(in) ==
  joinChannels(Filtered(separateChannels(in, 1)), Filtered(separateChannels(in, 2)))

-----------------------------------------------------------------------------

\* one frame goes through the filter
Filter ==
  /\ output = << >>
  /\ output' = AudioDSP(input)
  /\ UNCHANGED <<input, taps, beyond>>

-----------------------------------------------------------------------------
(* Properties *)

TypeOK ==
  /\ input \in Seq(Sample) /\ Len(input) = CHANNELS * SAMPLE_N
  /\ output = << >> \/ (output \in Seq(Sample) /\ Len(output) = Len(input))

\* With the coefficients of the source the frame that leaves the filter is the
\* frame that entered it, sample by sample and channel by channel, whatever the
\* memory past the channels holds: what thread_FiltradoDSP checks with memcmp.
FrameKept == output # << >> => output = input

Channel == separateChannels(input, 1) \o beyond

\* the exact value of the filter after the first i taps
Exact(h, j, i) == Sums(Channel, h, j)[i]

\* nothing saturates or wraps at sample j
Fits(h, j) ==
  \A i \in DOMAIN h :
    /\ h[i] * Channel[i + j - 1] \in Sample
    /\ Exact(h, j, i) \in Sample

\* Both versions of the filter compute the sum of the products wherever all its
\* parts fit a sample: there, and only there, one may stand for the other.
VersionsAgree ==
  \A j \in 1 .. SAMPLE_N : Fits(taps, j) =>
    /\ C_fir_mono_16bit(Channel, taps)[j] = Exact(taps, j, Len(taps))
    /\ asm_fir_16b(Channel, taps)[j] = Exact(taps, j, Len(taps))

Clamp(n) == IF n < -Half THEN -Half ELSE IF n > Half - 1 THEN Half - 1 ELSE n

\* Where the products fit and have one sign, what the C version saturates is the
\* sum cut off at the limit on its side; with both signs it depends on their
\* order.
SaturatesOnItsSide ==
  \A j \in 1 .. SAMPLE_N :
    LET product(i) == taps[i] * Channel[i + j - 1]
    IN (\/ \A i \in DOMAIN taps : product(i) \in 0 .. Half - 1
        \/ \A i \in DOMAIN taps : product(i) \in -Half .. 0)
       => C_fir_mono_16bit(Channel, taps)[j] = Clamp(Exact(taps, j, Len(taps)))

\* The filter changes nothing it should keep, and its two versions agree where
\* they have to.
Safe == TypeOK /\ FrameKept /\ VersionsAgree /\ SaturatesOnItsSide
=============================================================================
