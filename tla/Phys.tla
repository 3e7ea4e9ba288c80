--------------------------------- MODULE Phys ---------------------------------
(***************************************************************************)
(* Powering down the PHYs of an RB3011 over MDIO (do_phys_pwdown in        *)
(* src/loader.c, src/mdio.c), against a bus and PHYs that answer when they *)
(* like, and a watchdog.                                                   *)
(*                                                                         *)
(* A 16-bit word is the set of its bits, as far as they matter.            *)
(***************************************************************************)
EXTENDS Integers, FiniteSets

CONSTANTS
  LastPhy,       \* addresses are 0 .. LastPhy
  Tries, Polls,  \* limits of the two loops: 100 and 10
  Short, Long,   \* what udelay(10) and udelay(1000) take
  Period         \* of the watchdog

ASSUME PhysAssumption ==
  /\ LastPhy \in Nat /\ Tries \in Nat \ {0} /\ Polls \in Nat \ {0}
  /\ Short \in Nat /\ Long \in Nat /\ Period \in Nat

\* "set" stands for the bits a PHY has set in BMCR, "clear" for those it has not.
Bits == {"PDOWN", "set", "clear"}
Id == {"clear"}        \* 0x4d, what MII_PHYSID1 of a PHY reads that is ready
MinusOne == Bits       \* -1, and what is read of a PHY that does not answer
Initial == {"set"}     \* BMCR after a reset

Buses == {0, 1}
Phy == Buses \X (0 .. LastPhy)
Ops == {"id", "bmcr", "write"}

VARIABLES
  phase,            \* "try", "data", "start", "poll", "done", "reset"
  bus, a,        \* mdio_reg_base and the address
  limiter,       \* of do_phys_pwdown
  op, polls,     \* the operation asked for, limiter of ipq_mdio_read and ipq_mdio_write
  value,
  flight,        \* per bus: operations in flight (at most one: MII_BUSY)
  data,          \* per bus: the data register
  ready, bmcr,   \* per PHY
  reported,      \* PHYs said to be NOT READY
  spent,         \* ticks the watchdog has counted
  worst          \* history: the most polls an operation took, Polls for one given up

loopState == <<bus, a, limiter, op, polls, value>>
busState == <<flight, data, ready, bmcr>>
phyVars == <<phase, loopState, busState, reported, spent, worst>>

-----------------------------------------------------------------------------
(* The bus and the PHYs. *)

\* The operation in flight is done: a read leaves its word in the data register.
Complete(b) ==
  \E f \in flight[b] :
    LET p == <<b, f.phy>> IN
      /\ flight' = [flight EXCEPT ![b] = {}]
      /\ data' = IF f.op = "write" THEN data
                 ELSE [data EXCEPT ![b] = IF ~ready[p] THEN MinusOne
                                          ELSE IF f.op = "id" THEN Id ELSE bmcr[p]]
      /\ bmcr' = IF f.op = "write" /\ ready[p] THEN [bmcr EXCEPT ![p] = data[b]] ELSE bmcr
      /\ UNCHANGED <<phase, loopState, ready, reported, spent, worst>>

GetReady(p) ==
  /\ ~ready[p] /\ ready' = [ready EXCEPT ![p] = TRUE]
  /\ UNCHANGED <<phase, loopState, flight, data, bmcr, reported, spent, worst>>

\* What has been written to the address register while an operation is in flight
\* may replace it or be lost.
Accept(f) == flight' = [flight EXCEPT ![bus] = {f}] \/ (flight[bus] # {} /\ UNCHANGED flight)

Bite ==
  /\ phase \notin {"done", "reset"} /\ spent >= Period /\ phase' = "reset"
  /\ UNCHANGED <<loopState, busState, reported, spent, worst>>

-----------------------------------------------------------------------------
(* The program. *)

Running == spent < Period

StartSlow ==
  /\ phase = "start" /\ Running
  /\ Accept([op |-> op, phy |-> a])
  /\ polls' = 0 /\ spent' = spent + Long /\ phase' = "poll"
  /\ UNCHANGED <<bus, a, limiter, op, value, data, ready, bmcr, reported, worst>>

\* Writing the address register and udelay(10).
Start ==
  /\ phase = "start" /\ Running
  /\ Accept([op |-> op, phy |-> a])
  /\ polls' = 0 /\ spent' = spent + Short /\ phase' = "poll"
  /\ UNCHANGED <<bus, a, limiter, op, value, data, ready, bmcr, reported, worst>>

NextPhy ==
  /\ limiter' = 0
  /\ \/ a < LastPhy /\ a' = a + 1 /\ bus' = bus /\ phase' = "try"
     \/ a = LastPhy /\ bus = 0 /\ a' = 0 /\ bus' = 1 /\ phase' = "try"
     \/ a = LastPhy /\ bus = 1 /\ UNCHANGED <<a, bus>> /\ phase' = "done"

LeaveEarly(count) ==
  /\ reported' = IF count >= Tries THEN reported \cup {<<bus, a>>} ELSE reported
  /\ NextPhy

\* Behind the loop over the tries: a PHY that has used them all up is reported.
Leave(count) ==
  /\ reported' = IF count > Tries THEN reported \cup {<<bus, a>>} ELSE reported
  /\ NextPhy

\* The head of that loop.
Try ==
  /\ phase = "try" /\ Running
  /\ \/ /\ limiter < Tries /\ limiter' = limiter + 1 /\ op' = "id" /\ phase' = "start"
        /\ UNCHANGED <<bus, a, reported>>
     \/ limiter >= Tries /\ Leave(limiter + 1) /\ UNCHANGED op
  /\ UNCHANGED <<polls, value, busState, spent, worst>>

\* What the operation asked for returns.
Result(v) ==
  \/ /\ op = "id" /\ v = Id /\ op' = "bmcr" /\ phase' = "start"
     /\ UNCHANGED <<bus, a, limiter, value, reported, spent>>
  \/ /\ op = "id" /\ v # Id /\ spent' = spent + Long /\ phase' = "try"
     /\ UNCHANGED <<bus, a, limiter, op, value, reported>>
  \/ /\ op = "bmcr" /\ value' = v \cup {"PDOWN"} /\ op' = "write" /\ phase' = "data"
     /\ UNCHANGED <<bus, a, limiter, reported, spent>>
  \/ /\ op = "write" /\ Leave(limiter) /\ UNCHANGED <<op, value, spent>>

Answer ==
  /\ phase = "poll" /\ Running /\ polls < Polls /\ flight[bus] = {}
  /\ worst' = IF polls > worst THEN polls ELSE worst
  /\ Result(data[bus]) /\ UNCHANGED <<polls, busState>>

\* MII_BUSY is still set: udelay(1000).
Wait ==
  /\ phase = "poll" /\ Running /\ polls < Polls /\ flight[bus] # {}
  /\ polls' = polls + 1 /\ spent' = spent + Long
  /\ UNCHANGED <<phase, bus, a, limiter, op, value, busState, reported, worst>>

GiveUp ==
  /\ phase = "poll" /\ Running /\ polls = Polls
  /\ worst' = Polls
  /\ Result(MinusOne) /\ UNCHANGED <<polls, busState>>

\* The first register ipq_mdio_write writes.
WriteData ==
  /\ phase = "data" /\ Running
  /\ data' = [data EXCEPT ![bus] = value] /\ phase' = "start"
  /\ UNCHANGED <<loopState, flight, ready, bmcr, reported, spent, worst>>

PowerDown == Try \/ Start \/ Answer \/ Wait \/ GiveUp \/ WriteData

PhysInit ==
  /\ phase = "try" /\ bus = 0 /\ a = 0 /\ limiter = 0 /\ op = "id" /\ polls = 0 /\ value = {}
  /\ flight = [b \in Buses |-> {}] /\ data = [b \in Buses |-> {}]
  /\ ready \in [Phy -> BOOLEAN] /\ bmcr = [p \in Phy |-> Initial]
  /\ reported = {} /\ spent = 0 /\ worst = 0

PhysNext == PowerDown \/ Bite \/ (\E b \in Buses : Complete(b)) \/ (\E p \in Phy : GetReady(p))
PhysSpec == PhysInit /\ [][PhysNext]_phyVars

\* The processor goes on and the watchdog bites; the bus and the PHYs may be silent.
PhysFairSpec == PhysSpec /\ WF_phyVars(PowerDown) /\ WF_phyVars(Bite)

-----------------------------------------------------------------------------
PhysTypeOK ==
  /\ phase \in {"try", "data", "start", "poll", "done", "reset"}
  /\ bus \in Buses /\ a \in 0 .. LastPhy /\ limiter \in 0 .. Tries
  /\ op \in Ops /\ polls \in 0 .. Polls /\ value \subseteq Bits
  /\ flight \in [Buses -> SUBSET [op : Ops, phy : 0 .. LastPhy]]
  /\ \A b \in Buses : Cardinality(flight[b]) <= 1
  /\ data \in [Buses -> SUBSET Bits]
  /\ ready \in [Phy -> BOOLEAN] /\ bmcr \in [Phy -> SUBSET Bits]
  /\ reported \subseteq Phy /\ spent \in Nat /\ worst \in 0 .. Polls

\* The PHYs the loop has done with.
Behind == IF phase = "done" THEN Phy ELSE {p \in Phy : p[1] < bus \/ (p[1] = bus /\ p[2] < a)}

\* While no operation had to be given up: a PHY that has been gone over is powered
\* down with nothing else in BMCR changed, or it is reported and left as it was,
\* and none ahead has been touched.
Settled ==
  worst < Polls /\ phase # "reset" =>
    \A p \in Phy :
      /\ p \in Behind =>
           IF p \in reported THEN bmcr[p] = Initial ELSE bmcr[p] = Initial \cup {"PDOWN"}
      /\ p \notin Behind => p \notin reported /\ (p # <<bus, a>> => bmcr[p] = Initial)

\* The longest that an operation polled w times takes, a try at a PHY that is not
\* ready, and all tries with what follows the last.
OpTime(w) == Short + w * Long
TryTime(w) == OpTime(w) + Long
PhyTime(w) ==
  (Tries - 1) * TryTime(w) + (IF Long <= 2 * OpTime(w) THEN 3 * OpTime(w) ELSE TryTime(w))

\* The loops take no longer than their slowest operation explains, given up or not; so
\* the watchdog interrupts them only if the bus was that slow.
InTime ==
  \E w \in {worst, polls} :
    LET most == 2 * (LastPhy + 1) * PhyTime(w) IN
      spent <= most /\ (phase = "reset" => Period <= most)

\* On a bus that has each operation done within udelay(10), the loops come to an end by
\* themselves and the watchdog does not interrupt, however many PHYs are not ready.
PhysEnd == [](polls = 0) => <>(phase = "done")
=============================================================================
