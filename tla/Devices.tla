------------------------------- MODULE Devices --------------------------------
(***************************************************************************)
(* The drivers against their devices: the timer, the pins and the PHYs of  *)
(* an RB3011, and the serial line.  In a behaviour, one of them begins and *)
(* the others have come to their end.                                      *)
(***************************************************************************)
EXTENDS Timer, Gpio, Phys, Uart

\* A delay may be the shortest there is, and a string empty.
ASSUME DevicesAssumption == 1 \in Usecs /\ 1 \in Times /\ <<>> \in Texts

-----------------------------------------------------------------------------
(* Each of them at its end. *)

TimerEnded ==
  /\ waiting = "done" /\ modulus = GPT_FREQ /\ usec = 1 /\ due = 1 /\ left = 0
  /\ last = 1 /\ runcount = 1 /\ val = 1 /\ count = 1 /\ part = 0
  /\ began = 0 /\ first = 0 /\ periods = 1

PinsEnded ==
  /\ at = Len(Preinits) + 1 /\ half = FALSE
  /\ config = [p \in Pins |->
       ConfigWord(Preinits[CHOOSE k \in 1 .. 6 : Preinits[k].pin = p])]
  /\ out = [p \in Pins |-> IF p \in Resets THEN 1 ELSE 0]
  /\ levels = [p \in Pins |->
       IF p \in Resets THEN <<[level |-> "low", ms |-> 20], [level |-> "high", ms |-> 20]>>
       ELSE <<[level |-> Level(config[p], out[p]), ms |-> 40]>>]

PhysEnded ==
  /\ phase = "done" /\ bus = 1 /\ a = LastPhy /\ limiter = 0 /\ op = "write" /\ polls = 0
  /\ value = {"set", "PDOWN"}
  /\ flight = [b \in Buses |-> {}] /\ data = [b \in Buses |-> value]
  /\ ready = [p \in Phy |-> TRUE] /\ bmcr = [p \in Phy |-> value]
  /\ reported = {} /\ spent = 0 /\ worst = 0

UartEnded ==
  /\ sending = "done" /\ text = <<>> /\ i = 1 /\ c = NUL
  /\ fifo = <<>> /\ shift = <<>> /\ remaining = 0 /\ txReady = FALSE
  /\ line = <<>> /\ garbled = FALSE

devicesVars == <<timerVars, pinVars, phyVars, uartVars>>

DevicesInit ==
  \/ PinsEnded /\ PhysEnded /\ UartEnded /\ TimerInit
  \/ TimerEnded /\ PhysEnded /\ UartEnded /\ PinsInit
  \/ TimerEnded /\ PinsEnded /\ UartEnded /\ PhysInit
  \/ TimerEnded /\ PinsEnded /\ PhysEnded /\ UartInit

DevicesNext ==
  \/ TimerNext /\ UNCHANGED <<pinVars, phyVars, uartVars>>
  \/ PinsNext /\ UNCHANGED <<timerVars, phyVars, uartVars>>
  \/ PhysNext /\ UNCHANGED <<timerVars, pinVars, uartVars>>
  \/ UartNext /\ UNCHANGED <<timerVars, pinVars, phyVars>>

\* As PhysFairSpec and UartFairSpec: the processor goes on, the watchdog bites, and the
\* transmitter sends what it is given; the buses and the PHYs may be silent.
DevicesSpec ==
  /\ DevicesInit /\ [][DevicesNext]_devicesVars
  /\ WF_phyVars(PowerDown) /\ WF_phyVars(Bite)
  /\ WF_uartVars(PutString) /\ WF_uartVars(Load) /\ WF_uartVars(Emit)

\* Every variable has its type; registers hold what the code can write.
DevicesTypeOK == TimerTypeOK /\ PinsTypeOK /\ PhysTypeOK /\ UartTypeOK
=============================================================================
