------------------------------- MODULE Fault -------------------------------
(***************************************************************************)
(* Crash diagnostics across a reset: the fault handlers (hardfault.c), the *)
(* fault record in Backup SRAM (fault_log.c), the independent watchdog     *)
(* (iwdg.c) and the boot sequence that reports both (main of the           *)
(* Stm32h753zi application).                                               *)
(*                                                                         *)
(* The record spans two lines of the data cache.  Line 1 holds magic and   *)
(* the first fields, line 2 the rest.  The CPU writes to the cache; a line *)
(* reaches memory when it is cleaned or evicted, and a reset discards what *)
(* has not.  A fault is a number; a field holds the number of the fault    *)
(* that wrote it.                                                          *)
(***************************************************************************)
EXTENDS Integers, FiniteSets

CONSTANTS
    MaxFaults,      \* bound: faults of one behaviour
    IwdgTicks,      \* time the armed watchdog waits for a kick, coarse
    KickTicks,      \* sched_delay_ms of task_housekeep, in the same unit
    AskedTimeout    \* arguments of iwdg_init, milliseconds

(* Up to here the 32-bit products of iwdg_init do not wrap.                *)
LongestAsked == 536870

ASSUME FaultAssumption ==
    /\ MaxFaults \in Nat /\ IwdgTicks \in Nat /\ KickTicks \in 1 .. IwdgTicks - 1
    /\ AskedTimeout \subseteq Nat
    /\ \A ms \in AskedTimeout : ms <= LongestAsked

VARIABLES
    bkpsram,   \* physical Backup SRAM: magic, first, second
    cached,    \* the record as the CPU sees it
    dirty,     \* the lines whose memory is behind the cache
    unlocked,  \* PWR_CR1.DBP and RCC_AHB4ENR.BKPRAMEN are set
    where,     \* what the CPU executes
    fault,     \* faults so far, and whether a HardFault is handled
    iwdg,      \* armed, time left, prescaler and reload registers, argument
    rstf,      \* RCC_RSR.IWDGRSTF
    due,       \* time until task_housekeep wakes
    out,       \* the record fault_log_check_and_clear copied, 0s if none
    told,      \* auxiliary: the faults reported by earlier boots or calls
    pending,   \* auxiliary: the fault whose complete record waits to be read
    cut        \* auxiliary: a reset or a second fault hit a valid record half-way

faultVars == <<bkpsram, cached, dirty, unlocked, where, fault, iwdg, rstf, due, out, told, pending, cut>>
memVars == <<bkpsram, cached, dirty, unlocked>>
auxVars == <<told, pending, cut>>

Empty == [magic |-> FALSE, first |-> 0, second |-> 0]
Booting == {"init", "cause", "check", "clear", "print", "sensor", "arm"}
Writing == {"write1", "write2", "magic", "clean1", "clean2", "peek"}

(* iwdg_init: the first of the seven prescalers whose reload fits; the     *)
(* longest timeout if none does; never a reload of zero.                   *)
LSI_FREQ_HZ == 32000
Prescaler(code) == 4 * 2^code
ReloadFor(timeout_ms, code) == (timeout_ms * (LSI_FREQ_HZ \div Prescaler(code))) \div 1000

(* Mutant: the fitting prescaler is not stored.                            *)
MutProgramWide(timeout_ms) ==
    [pr |-> 6, rlr |-> IF ReloadFor(timeout_ms, 6) > 4095 THEN 4095 ELSE ReloadFor(timeout_ms, 6)]

Programmed(timeout_ms) ==
    LET fits == {c \in 0 .. 6 : ReloadFor(timeout_ms, c) <= 4095}
        code == IF fits = {} THEN 6 ELSE CHOOSE c \in fits : \A d \in fits : c <= d
        rl   == IF fits = {} THEN 4095 ELSE ReloadFor(timeout_ms, code)
    IN  [pr |-> code, rlr |-> IF rl = 0 THEN 1 ELSE rl]

Off == [armed |-> FALSE, left |-> 0, pr |-> 0, rlr |-> 0, asked |-> 0]

FaultInit ==
    /\ bkpsram = Empty /\ cached = Empty /\ dirty = {} /\ unlocked = FALSE
    /\ where = "init" /\ fault = [count |-> 0, hard |-> FALSE]
    /\ iwdg = Off /\ rstf = FALSE /\ due = 0
    /\ out = Empty /\ told = {} /\ pending = 0 /\ cut = FALSE
-----------------------------------------------------------------------------
(* The cache.                                                              *)
LineOf(field) == IF field = "second" THEN 2 ELSE 1
Lines == {1, 2}

WriteBack(lines) ==
    /\ bkpsram' = IF unlocked
                  THEN [f \in DOMAIN bkpsram |-> IF LineOf(f) \in lines THEN cached[f] ELSE bkpsram[f]]
                  ELSE bkpsram
    /\ dirty' = dirty \ lines

Store(field, value) ==
    /\ cached' = [cached EXCEPT ![field] = value]
    /\ dirty' = dirty \cup {LineOf(field)}
    /\ UNCHANGED bkpsram

(* The cache may evict a dirty line at any time.                           *)
Evict(line) ==
    /\ line \in dirty /\ WriteBack({line})
    /\ UNCHANGED <<cached, unlocked, where, fault, iwdg, rstf, due, out, auxVars>>

(* Any reset: the start-up code invalidates the cache, the watchdog and    *)
(* the backup domain's write access are off, the watchdog's flag persists. *)
ResetTo(flag) ==
    /\ cached' = bkpsram /\ dirty' = {} /\ unlocked' = FALSE
    /\ where' = "init" /\ fault' = [fault EXCEPT !.hard = FALSE]
    /\ iwdg' = Off /\ rstf' = flag /\ due' = 0 /\ out' = Empty
    /\ cut' = (cut \/ where \in {"clean1", "clean2"})
    /\ UNCHANGED <<bkpsram, told, pending>>

ResetPin == where # "init" /\ ResetTo(rstf)
-----------------------------------------------------------------------------
(* Boot: report_boot_diagnostics, then the rest of main.                   *)
Step(from, to) == where = from /\ where' = to

fault_log_init ==
    /\ Step("init", "cause") /\ unlocked' = TRUE
    /\ UNCHANGED <<bkpsram, cached, dirty, fault, iwdg, rstf, due, out, auxVars>>

(* iwdg_reset_was_watchdog is printed, iwdg_clear_reset_flags.             *)
ReportCause ==
    /\ Step("cause", "check") /\ rstf' = FALSE
    /\ UNCHANGED <<memVars, fault, iwdg, due, out, auxVars>>

(* fault_log_check_and_clear: no record, or it is copied and its magic     *)
(* cleared in the cache, then cleaned to memory.                           *)
fault_log_check ==
    /\ IF cached.magic
       THEN Step("check", "clear") /\ out' = cached /\ Store("magic", FALSE)
       ELSE Step("check", "sensor") /\ UNCHANGED <<out, bkpsram, cached, dirty>>
    /\ pending' = 0
    /\ UNCHANGED <<unlocked, fault, iwdg, rstf, due, told, cut>>

(* Mutant: the clear stays in the cache.                                   *)
MutClearCached ==
    /\ Step("clear", "print")
    /\ UNCHANGED <<memVars, fault, iwdg, rstf, due, out, auxVars>>

fault_log_clear ==
    /\ Step("clear", "print") /\ WriteBack({LineOf("magic")})
    /\ UNCHANGED <<cached, unlocked, fault, iwdg, rstf, due, out, auxVars>>

PrintReport ==
    /\ Step("print", "sensor")
    /\ told' = told \cup {out.first}
    /\ out' = Empty
    /\ UNCHANGED <<memVars, fault, iwdg, rstf, due, pending, cut>>

(* mpu6050_init: on failure main spins, with the watchdog still off.       *)
SensorInit ==
    /\ Step("sensor", "arm") \/ Step("sensor", "stuck")
    /\ UNCHANGED <<memVars, fault, iwdg, rstf, due, out, auxVars>>

iwdg_init(timeout_ms) ==
    /\ Step("arm", "run")
    /\ iwdg' = [armed |-> TRUE, left |-> IwdgTicks, asked |-> timeout_ms,
                pr |-> Programmed(timeout_ms).pr, rlr |-> Programmed(timeout_ms).rlr]
    /\ due' = KickTicks
    /\ UNCHANGED <<memVars, fault, rstf, out, auxVars>>

(* task_housekeep; a hung or faulted system does not come to it.           *)
iwdg_kick ==
    /\ where = "run" /\ due = 0
    /\ due' = KickTicks /\ iwdg' = [iwdg EXCEPT !.left = IwdgTicks]
    /\ UNCHANGED <<memVars, where, fault, rstf, out, auxVars>>

(* A more urgent task keeps the CPU for ever.                              *)
Hang ==
    /\ Step("run", "stuck")
    /\ UNCHANGED <<memVars, fault, iwdg, rstf, due, out, auxVars>>

(* Time, while the watchdog counts.                                        *)
WatchdogTime ==
    /\ iwdg.armed /\ iwdg.left > 0
    /\ where = "run" => due > 0
    /\ iwdg' = [iwdg EXCEPT !.left = @ - 1]
    /\ due' = IF due > 0 THEN due - 1 ELSE 0
    /\ UNCHANGED <<memVars, where, fault, rstf, out, auxVars>>

WatchdogReset == iwdg.armed /\ iwdg.left = 0 /\ ResetTo(TRUE)
-----------------------------------------------------------------------------
(* MemManage, BusFault, UsageFault and HardFault handlers end in           *)
(* hardfault_c.  A fault in the handler of a configurable fault escalates  *)
(* to HardFault; one in HardFault locks the CPU up.                        *)
EnterFault(hard) ==
    /\ fault.count < MaxFaults /\ where # "halted"
    /\ IF where \in Writing /\ fault.hard
       THEN /\ where' = "halted"
            /\ cut' = (cut \/ where \in {"clean1", "clean2"})
            /\ UNCHANGED <<fault, pending>>
       ELSE /\ where \in Writing => hard
            /\ where' = "write1"
            /\ fault' = [count |-> fault.count + 1, hard |-> hard]
            /\ pending' = 0
            /\ cut' = (cut \/ cached.magic \/ bkpsram.magic)
    /\ out' = Empty
    /\ UNCHANGED <<memVars, iwdg, rstf, due, told>>

(* Mutant: magic is written with the first fields.                         *)
MutMagicFirst ==
    /\ \/ /\ Step("write1", "write2")
          /\ cached' = [cached EXCEPT !.first = fault.count, !.magic = TRUE]
          /\ dirty' = dirty \cup {1} /\ UNCHANGED bkpsram
       \/ Step("write2", "magic") /\ Store("second", fault.count)
    /\ UNCHANGED <<unlocked, fault, iwdg, rstf, due, out, auxVars>>

(* fault_log_write: the fields in order, magic last, then the lines.       *)
WriteFields ==
    /\ \/ Step("write1", "write2") /\ Store("first", fault.count)
       \/ Step("write2", "magic") /\ Store("second", fault.count)
    /\ UNCHANGED <<unlocked, fault, iwdg, rstf, due, out, auxVars>>

WriteMagic ==
    /\ Step("magic", "clean1") /\ Store("magic", TRUE)
    /\ UNCHANGED <<unlocked, fault, iwdg, rstf, due, out, auxVars>>

clean_dcache_range ==
    /\ \/ Step("clean1", "clean2") /\ WriteBack({1}) /\ UNCHANGED pending
       \/ /\ Step("clean2", "peek") /\ WriteBack({2})
          /\ pending' = IF unlocked THEN fault.count ELSE 0
    /\ UNCHANGED <<cached, unlocked, fault, iwdg, rstf, due, out, told, cut>>

(* fault_log_peek_magic is printed, then while (1).                        *)
Halt ==
    /\ Step("peek", "halted")
    /\ UNCHANGED <<memVars, fault, iwdg, rstf, due, out, auxVars>>

FaultNext ==
    \/ fault_log_init \/ ReportCause \/ fault_log_check \/ fault_log_clear \/ PrintReport
    \/ SensorInit \/ (\E ms \in AskedTimeout : iwdg_init(ms)) \/ iwdg_kick \/ Hang
    \/ WatchdogTime \/ WatchdogReset \/ ResetPin \/ (\E line \in Lines : Evict(line))
    \/ (\E hard \in BOOLEAN : EnterFault(hard)) \/ WriteFields \/ WriteMagic
    \/ clean_dcache_range \/ Halt

FaultSpec == FaultInit /\ [][FaultNext]_faultVars
-----------------------------------------------------------------------------
(* Properties.                                                             *)

(* A fault is reported at most once, over any number of resets at any      *)
(* point: fault_log_check_and_clear puts the clear into memory before the  *)
(* report is printed.                                                      *)
FaultReportedOnce == where = "print" => out.first \notin told

(* Once fault_log_write has returned, the record is in memory and whole    *)
(* until a boot reads it or another fault overwrites it, whatever lines    *)
(* the cache writes back and whatever resets come.                         *)
FaultDurable ==
    pending # 0 => bkpsram = [magic |-> TRUE, first |-> pending, second |-> pending]

(* Magic vouches for the record: what a boot reports was written by one    *)
(* fault, unless a reset hit between the write of magic and the last       *)
(* write-back, or a fault came while an unread record had its magic set.   *)
FaultMagicMeansWhole == out.magic /\ ~cut => out.first = out.second

(* The watchdog waits as long as iwdg_init was asked, to within one step   *)
(* of the finest prescaler that can count it, and up to its maximum.       *)
IwdgTimeoutKept ==
    LET ms == iwdg.asked  span == iwdg.rlr * Prescaler(iwdg.pr)
    IN  iwdg.armed =>
          /\ 1 <= iwdg.rlr /\ iwdg.rlr <= 4095
          /\ 1 <= ms /\ ms <= 32760 =>
               /\ span <= 32 * ms /\ 32 * ms < span + Prescaler(iwdg.pr)
               /\ iwdg.pr > 0 => 32 * ms > 4095 * Prescaler(iwdg.pr - 1)
          /\ ms > 32767 => span = 4095 * 256

(* What fault_log_write has stored is there, whole, for the next boot, and *)
(* what a boot takes for a record is one.                                  *)
FaultRecordWhole == FaultDurable /\ FaultMagicMeansWhole
=============================================================================
