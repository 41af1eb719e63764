--------------------------- MODULE MCWeeklyBacktest ---------------------------
(***************************************************************************)
(* A small instance of WeeklyBacktest: three weeks, one of them with an    *)
(* event.  The feed may leave out any bar, so that a week may lack its     *)
(* Friday or be missing as a whole.                                        *)
(***************************************************************************)
EXTENDS WeeklyBacktest

MCWeeks == 0..2
MCDays == 0..4
MCSlots == 0..3

=============================================================================
