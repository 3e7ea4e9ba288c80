--------------------------------- MODULE Gpio ---------------------------------
(***************************************************************************)
(* The pins of an RB3011 (src/gpio.c) through ipq806x_rb3011_preinits      *)
(* (src/loader.c), from whatever RouterBOOT left in their registers to the *)
(* moment the PHYs are spoken to.                                          *)
(***************************************************************************)
EXTENDS Integers, Sequences

CONSTANTS LeftConfig, LeftOut   \* what may be in the registers of a pin

ASSUME GpioAssumption == LeftConfig \subseteq 0 .. 1023 /\ LeftOut \subseteq {0, 1}

Pins == {"LCD_POWER", "USER_LED", "MDIO1", "MDC1", "SW0_RESET", "SW1_RESET"}
Resets == {"SW0_RESET", "SW1_RESET"}

GPIO_INPUT == 0
GPIO_OUTPUT == 1
GPIO_OUT_LOW == 0

\* Calls of the driver and of mdelay, as records.
Config(pin, func, third, pull, drvstr, oe) ==
  [call |-> "config", pin |-> pin, func |-> func, third |-> third,
   pull |-> pull, drvstr |-> drvstr, oe |-> oe]
Set(pin, out) == [call |-> "set", pin |-> pin, out |-> out]
Delay(ms) == [call |-> "delay", ms |-> ms]

\* ipq806x_rb3011_preinits, up to do_phys_pwdown.
Preinits ==
  <<Config("LCD_POWER", 0, GPIO_OUT_LOW, 1, 7, 1),
    Config("USER_LED", 0, GPIO_OUT_LOW, 1, 7, 1),
    Config("MDIO1", 5, GPIO_INPUT, 0, 3, 0),
    Config("MDC1", 6, GPIO_OUTPUT, 0, 3, 1),
    Config("SW0_RESET", 0, GPIO_OUTPUT, 1, 7, 1),
    Config("SW1_RESET", 0, GPIO_OUTPUT, 1, 7, 1),
    Set("LCD_POWER", 0), Set("SW0_RESET", 0), Set("SW1_RESET", 0), Delay(20),
    Set("SW0_RESET", 1), Set("SW1_RESET", 1), Delay(20)>>

VARIABLES
  at,            \* the call to come
  half,          \* gpio_tlmm_config has written its first register
  config, out,   \* per pin: configuration register, output bit
  levels         \* history, per pin: the levels it has been driven to, with how long

pinVars == <<at, half, config, out, levels>>

-----------------------------------------------------------------------------
(* The pins. *)

Func(c) == (c \div 4) % 16
Driven(c) == Func(c) = 0 /\ (c \div 512) % 2 = 1
Level(c, o) == IF ~Driven(c) THEN "none" ELSE IF o = 1 THEN "high" ELSE "low"

LastOf(s) == s[Len(s)]

\* The levels after registers were written and ms milliseconds went by.
Track(ms) ==
  levels' = [p \in Pins |->
    LET level == Level(config'[p], out'[p]) IN
      IF level # LastOf(levels[p]).level THEN Append(levels[p], [level |-> level, ms |-> 0])
      ELSE [levels[p] EXCEPT ![Len(levels[p])].ms = @ + ms]]

-----------------------------------------------------------------------------
Call == Preinits[at]
Calling(call) == at <= Len(Preinits) /\ Call.call = call

\* The fields of the configuration register.
ConfigWord(c) == c.pull + 4 * c.func + 64 * c.drvstr + 512 * c.oe

ConfigFirst ==
  /\ Calling("config") /\ ~half
  /\ config' = [config EXCEPT ![Call.pin] = ConfigWord(Call)]
  /\ IF Call.func = 0 THEN half' = TRUE /\ at' = at ELSE half' = FALSE /\ at' = at + 1
  /\ UNCHANGED out /\ Track(0)

ConfigAdds ==
  /\ Calling("config") /\ half
  /\ out' = [out EXCEPT ![Call.pin] = @ + Call.third]
  /\ half' = FALSE /\ at' = at + 1
  /\ UNCHANGED config /\ Track(0)

\* The output bit: the third argument is ORed in.
ConfigOutput ==
  /\ Calling("config") /\ half
  /\ out' = [out EXCEPT ![Call.pin] = IF Call.third = 1 THEN 1 ELSE @]
  /\ half' = FALSE /\ at' = at + 1
  /\ UNCHANGED config /\ Track(0)

SetOnly ==
  /\ Calling("set")
  /\ out' = [out EXCEPT ![Call.pin] = IF Call.out = 1 THEN 1 ELSE @]
  /\ at' = at + 1 /\ UNCHANGED <<half, config>> /\ Track(0)

\* gpio_set_value
SetValue ==
  /\ Calling("set")
  /\ out' = [out EXCEPT ![Call.pin] = Call.out]
  /\ at' = at + 1 /\ UNCHANGED <<half, config>> /\ Track(0)

MDelay ==
  /\ Calling("delay")
  /\ at' = at + 1 /\ UNCHANGED <<half, config, out>> /\ Track(Call.ms)

PinsInit ==
  /\ at = 1 /\ half = FALSE
  /\ config \in [Pins -> LeftConfig] /\ out \in [Pins -> LeftOut]
  /\ levels = [p \in Pins |-> <<[level |-> Level(config[p], out[p]), ms |-> 0]>>]

PinsNext == ConfigFirst \/ ConfigOutput \/ SetValue \/ MDelay
PinsSpec == PinsInit /\ [][PinsNext]_pinVars

-----------------------------------------------------------------------------
PinsTypeOK ==
  /\ at \in 1 .. Len(Preinits) + 1 /\ half \in BOOLEAN
  /\ config \in [Pins -> 0 .. 1023] /\ out \in [Pins -> {0, 1}]
  /\ \A p \in Pins : \A k \in DOMAIN levels[p] : levels[p][k].level \in {"none", "low", "high"}

Over == at = Len(Preinits) + 1

\* When the PHYs are spoken to, both switches have been held in reset for the whole of
\* the first delay and out of it for the whole of the second with nothing in between,
\* the bus has its pins and the LCD is off, whatever was in the registers before.
ResetPulse ==
  Over =>
    /\ \A p \in Resets :
         LET n == Len(levels[p]) IN
           /\ n >= 2
           /\ levels[p][n].level = "high" /\ levels[p][n].ms >= 20
           /\ levels[p][n - 1].level = "low" /\ levels[p][n - 1].ms >= 20
    /\ Func(config["MDIO1"]) = 5 /\ Func(config["MDC1"]) = 6
    /\ Level(config["LCD_POWER"], out["LCD_POWER"]) = "low"
=============================================================================
