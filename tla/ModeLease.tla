------------------------------ MODULE ModeLease ------------------------------
(***************************************************************************)
(* What the expiring modes of the C API promise (game_state_c.h,           *)
(* sb_add_mode, sb_add_mode_expiring, sb_remove_mode, sb_clear_modes): a   *)
(* mode of the game is absent, kept until it is removed, or leased for the *)
(* seconds it has left.  Only a lease that has run out ends by itself.     *)
(***************************************************************************)
EXTENDS Integers

CONSTANTS ModeNames,   \* modes the application uses
          Durations    \* durations it asks for, in seconds

VARIABLE lease         \* the lease of each mode

Absent == -2
Kept   == -1

\* "0 is normalized to 3 seconds", "Values greater than 10 are clamped to 10
\* seconds", "Values 1-10 are used as-is".
Granted(d) == CASE d = 0  -> 3
                [] d > 10 -> 10
                [] OTHER  -> d

\* One second less, down to a lease that has run out.
SecondLess(n) == IF n > 0 THEN n - 1 ELSE n

Init == lease = [m \in ModeNames |-> Absent]

Keep(m) ==
    /\ lease[m] = Absent
    /\ lease' = [lease EXCEPT ![m] = Kept]

\* A new lease replaces whatever the mode had.
Lease(m, d) == lease' = [lease EXCEPT ![m] = Granted(d)]

Remove(m) == lease' = [lease EXCEPT ![m] = Absent]

\* Cleared, or the game they belong to ends.
RemoveAll == lease' = [m \in ModeNames |-> Absent]

\* Every mode whose lease has run out goes; the others are left alone.
Expire == lease' = [m \in ModeNames |-> IF lease[m] = 0 THEN Absent ELSE lease[m]]

SecondPasses == lease' = [m \in ModeNames |-> SecondLess(lease[m])]

Next ==
    \/ \E m \in ModeNames : Keep(m) \/ Remove(m)
    \/ \E m \in ModeNames, d \in Durations : Lease(m, d)
    \/ RemoveAll
    \/ Expire
    \/ SecondPasses

Spec == Init /\ [][Next]_lease
=============================================================================
