------------------------------- MODULE LedRamp -------------------------------
(* The numbers LedLightManager.setColor hands to the LED driver for one      *)
(* channel: a duty ramp scaled by the brightness, and a blink cycle that     *)
(* ramps up, holds and ramps down within the requested time.                 *)
EXTENDS Integers

RAMP_SIZE == 8
RAMP_STEP_DURATION == 50
BRIGHTNESS_RAMP == <<0, 12, 25, 37, 50, 72, 85, 100>>
Ramp == 2 * RAMP_SIZE * RAMP_STEP_DURATION

\* The duty table, rounded down.
GetScaledDutyPcts(brightness) ==
  [i \in 1 .. RAMP_SIZE |-> (BRIGHTNESS_RAMP[i] * brightness) \div 255]

\* Mutated form: the full step is kept when the ramp does not fit.
MutTiming(onMs) ==
  [step |-> RAMP_STEP_DURATION, pauseHi |-> IF Ramp > onMs THEN 0 ELSE onMs - Ramp]
\* Ramp step and hold time of setRedLight, setGreenLight and setBlueLight: a
\* cycle too short for the full ramp gets shorter steps and no hold.
Timing(onMs) ==
  IF Ramp > onMs THEN [step |-> onMs \div (2 * RAMP_SIZE), pauseHi |-> 0]
                 ELSE [step |-> RAMP_STEP_DURATION, pauseHi |-> onMs - Ramp]

\* Where a channel's duty table starts in the table the channels share.
StartIdx == [red |-> 0, green |-> RAMP_SIZE, blue |-> 2 * RAMP_SIZE]

\* What is written to the property of a channel.
Channel(name, value, onMs, offMs) ==
  [value |-> value,
   pattern |-> [startIdx |-> StartIdx[name], duty |-> GetScaledDutyPcts(value),
                pauseLo |-> offMs, pauseHi |-> Timing(onMs).pauseHi,
                step |-> Timing(onMs).step]]

\* The lit part of a cycle takes the requested time: never more, and less by no
\* more than the rounding of the ramp steps.
Fits(pattern, onMs) ==
  LET lit == 2 * RAMP_SIZE * pattern.step + pattern.pauseHi
  IN  lit <= onMs /\ onMs - lit < 2 * RAMP_SIZE

\* The duty table rises from dark to no more than the requested share of the
\* brightest step.
Rises(pattern, value) ==
  /\ pattern.duty[1] = 0
  /\ \A i \in 1 .. RAMP_SIZE - 1 : pattern.duty[i] <= pattern.duty[i + 1]
  /\ 255 * pattern.duty[RAMP_SIZE] <= 100 * value

\* The duty tables of two channels do not overlap.
Apart(p, q) == p.startIdx + RAMP_SIZE <= q.startIdx \/ q.startIdx + RAMP_SIZE <= p.startIdx
=============================================================================
