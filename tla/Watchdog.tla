------------------------------ MODULE Watchdog ------------------------------
(***************************************************************************)
(* The SoC watchdog and the code that programs it (src/watchdog.c).        *)
(*                                                                         *)
(* The device counts down while it is enabled and resets the SoC when the  *)
(* count runs out and its expiry is routed to the reset line.  On IPQ806X  *)
(* that route is a register of its own                                     *)
(* (APCS_WDT0_CPU0_WDOG_EXPIRED_ENABLE); on IPQ4XXX it is wired.           *)
(*                                                                         *)
(* The operators below are action fragments over the one variable wdt; the *)
(* loader's specification conjoins them with its own steps.  Time is       *)
(* counted in units of TickSec seconds.                                    *)
(***************************************************************************)
EXTENDS Integers

CONSTANTS
  CPU_TYPES,     \* the SoCs to look at; a build has one of them as CPU_TYPE
  TickSec        \* seconds that one tick of the model stands for

ASSUME WatchdogAssumption ==
  /\ CPU_TYPES \subseteq {"IPQ4XXX", "IPQ806X"}
  /\ TickSec \in Nat \ {0}

VARIABLE wdt     \* [cpu, en, route, left]: CPU_TYPE, enabled, expiry routed, ticks left

WDT_RESETUP_PERIOD == 10

\* The count that a bite time of `period' seconds loads.
Ticks(period) == period \div TickSec

WatchdogTypeOK == wdt \in [cpu : CPU_TYPES, en : BOOLEAN, route : BOOLEAN, left : Nat]

\* After a reset of the SoC the watchdog is off and its expiry unrouted.
WatchdogReset(cpu) == [cpu |-> cpu, en |-> FALSE, route |-> cpu = "IPQ4XXX", left |-> 0]

\* What the first-stage boot loader may leave: off, or running.
WatchdogHandedOver(cpu) == {WatchdogReset(cpu), [WatchdogReset(cpu) EXCEPT !.en = TRUE]}

-----------------------------------------------------------------------------
\* Mutated forms: the counter is loaded but never switched on again; the
\* expiry is never routed.
WatchdogSetupNoEnable(period) ==
  wdt' = [wdt EXCEPT !.en = FALSE, !.route = TRUE, !.left = Ticks(period)]

WatchdogSetupNoRoute(period) ==
  wdt' = [wdt EXCEPT !.en = TRUE, !.left = Ticks(period)]

\* watchdog_setup: disable, reset the count, load the times, enable; on
\* IPQ806X also route the expiry to the reset line.
WatchdogSetup(period) ==
  wdt' = [wdt EXCEPT !.en = TRUE, !.route = TRUE, !.left = Ticks(period)]

\* watchdog_resetup
WatchdogResetup == WatchdogSetup(WDT_RESETUP_PERIOD)

-----------------------------------------------------------------------------
\* One tick of the watchdog's clock (the device).
Countdown ==
  /\ wdt.en
  /\ wdt.left > 0
  /\ wdt' = [wdt EXCEPT !.left = @ - 1]

\* The bite: the SoC is about to be reset (the device).
Expired == wdt.en /\ wdt.route /\ wdt.left = 0

\* A watchdog that will bite if nobody touches it.
Armed == wdt.en /\ wdt.route
=============================================================================
