----------------------------- MODULE MCPlatform -----------------------------
(* The parts of the platform that do not share state with each other,      *)
(* checked in one run: start-up, fault log and watchdog, monitors, and the *)
(* UART, Ethernet, CAN and I2C drivers.  A behaviour is of one of them;    *)
(* focus says which, and the others stay as they were initialised.         *)
EXTENDS Boot, Fault, Monitor, Uart, Eth, Can, I2c

VARIABLE focus

platformVars == <<bootVars, faultVars, monitorVars, uartVars, ethVars, canVars,
                  i2cVars, focus>>

(* Every assignment of different priorities.                               *)
MCDistinct == {p \in [Task -> Task] : \A t, u \in Task : p[t] = p[u] => t = u}

(* Where the focus is elsewhere one initial state of a part is enough.     *)
PlatformInit ==
    /\ BootInit /\ FaultInit /\ MonitorInit /\ UartInit /\ EthInit /\ CanInit /\ I2cInit
    /\ focus \in {"boot", "fault", "deadline", "jitter", "stack", "ring", "usart", "eth",
                  "flexcan", "fdcan", "i2c"}
    /\ focus # "boot" => plan = [t \in Task |-> t]
    /\ focus # "ring" => serial
    /\ focus # "eth" => ~txr.own[0]
    /\ focus # "i2c" => \A d \in Device : sensor[d].genuine

PlatformNext ==
    /\ \/ /\ focus = "boot" /\ BootNext
          /\ UNCHANGED <<faultVars, monitorVars, uartVars, ethVars, canVars, i2cVars>>
       \/ /\ focus = "fault" /\ FaultNext
          /\ UNCHANGED <<bootVars, monitorVars, uartVars, ethVars, canVars, i2cVars>>
       \/ /\ \/ focus = "deadline" /\ DeadlineNext
             \/ focus = "jitter" /\ JitterNext
             \/ focus = "stack" /\ StackNext
          /\ UNCHANGED <<bootVars, faultVars, uartVars, ethVars, canVars, i2cVars>>
       \/ /\ \/ focus = "ring" /\ RingNext
             \/ focus = "usart" /\ UsartNext
          /\ UNCHANGED <<bootVars, faultVars, monitorVars, ethVars, canVars, i2cVars>>
       \/ /\ focus = "eth" /\ EthNext
          /\ UNCHANGED <<bootVars, faultVars, monitorVars, uartVars, canVars, i2cVars>>
       \/ /\ \/ focus = "flexcan" /\ FlexcanNext
             \/ focus = "fdcan" /\ FdcanNext
          /\ UNCHANGED <<bootVars, faultVars, monitorVars, uartVars, ethVars, i2cVars>>
       \/ /\ focus = "i2c" /\ I2cNext
          /\ UNCHANGED <<bootVars, faultVars, monitorVars, uartVars, ethVars, canVars>>
    /\ UNCHANGED focus

PlatformSpec == PlatformInit /\ [][PlatformNext]_platformVars

(* The FDCAN driver alone.                                                 *)
FdcanSpec ==
    /\ PlatformInit /\ focus = "fdcan"
    /\ [][PlatformNext]_platformVars
=============================================================================
