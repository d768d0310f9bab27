------------------------------- MODULE Backoff -------------------------------
(***************************************************************************)
(* The arithmetic of BackoffTracker (soda-pool/src/broken_endpoints.rs):   *)
(* how long a failed address waits, the u8 failure counter, and how that   *)
(* counter is hidden in the low byte of the timestamp's nanoseconds.       *)
(* Durations are in seconds.                                               *)
(***************************************************************************)
EXTENDS Integers

CONSTANTS
  U8Max,    (* the largest failure count; 255 in the code (a u8)           *)
  MaxShift  (* the largest exponent of the backoff; 6 in the code          *)

ASSUME U8MaxAssumption == U8Max \in Nat \ {0}
ASSUME MaxShiftAssumption == MaxShift \in 0 .. 6

\* The values of the u8 failure counter.
FailCount == 0 .. U8Max

\* failed_times.saturating_sub(1), cut off at MaxShift, is the exponent.
calculate_backoff(failed_times) ==
  LET shift == IF failed_times = 0 THEN 0 ELSE failed_times - 1
  IN  2 ^ (IF shift < MaxShift THEN shift ELSE MaxShift)

\* Mutant: the sum of a wider type.
WideAdd1(count) == count + 1

\* u8 addition as the release profile compiles it: modulo 2^8.
WrappingAdd1(count) == (count + 1) % (U8Max + 1)

-----------------------------------------------------------------------------
(* The encoding of the counter.  These two use the real widths: the low    *)
(* byte of DateTime::nanosecond().                                         *)

Byte == 0 .. 255

\* nanosecond() & 0xFFFF_FF00 | failed_times
set_retires(nanos, failed_times) == nanos - (nanos % 256) + failed_times

\* nanosecond() & 0xFF
get_retires(nanos) == nanos % 256

=============================================================================
