------------------------------- MODULE MasterData -------------------------------
(* What operators maintain by hand, side by side: the registry of devices,    *)
(* components and installations with its alerts (MeterRegistry), and the      *)
(* effective windows of a service point (EffectiveWindows).  The two share    *)
(* no table and no transaction; edit is the transaction that works on the     *)
(* windows.                                                                   *)
EXTENDS MeterRegistry

CONSTANTS MaxRows,      \* of EffectiveWindows
          MaxTime       \* of EffectiveWindows

VARIABLES rows, edit, editBeside

windowVars == <<rows, edit, editBeside>>

Windows == INSTANCE EffectiveWindows WITH tx <- edit

ASSUME BoundsAreNumbers == Windows!BoundsAreNumbers

(* EffectiveWindows: "Billing context periods must not overlap for the same   *)
(* service point", and one row is current.                                    *)
OneWindowAtATime == Windows!OneWindowAtATime

================================================================================
