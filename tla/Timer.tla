------------------------------- MODULE Timer -------------------------------
(***************************************************************************)
(* The repeating timer of game/Timer.roc.  Time is counted in whole units  *)
(* instead of the seconds, in floating point, of the code.                 *)
(***************************************************************************)
EXTENDS Integers

create(duration) == [duration |-> duration, elapsed |-> 0, lapsed |-> FALSE]

(* A lapse keeps the time that is left over for the next one.              *)
update(timer, delta) ==
  LET elapsed == timer.elapsed + delta
      lapsed  == elapsed >= timer.duration
  IN  [timer EXCEPT !.elapsed = IF lapsed THEN elapsed - timer.duration ELSE elapsed,
                    !.lapsed  = lapsed]

reset(timer) == [timer EXCEPT !.elapsed = 0, !.lapsed = FALSE]
=============================================================================
