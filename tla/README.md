# Verification of the PPU software

TLA+ models, TLC runs and TLAPS proofs for the software of the PPU, a
PULPino-like RISC-V microcontroller with an SD/eMMC host, a camera port and a
neural-network accelerator. All paths below are relative to the root of the
source repository, which the tables call `src/`.

The repository is C and C++ that runs on bare metal. Most of it knows no
processes: concurrency is between one thread, the interrupt handlers that
preempt it, and hardware that moves on its own (a host controller, a DMA, a card,
a bus with other masters, a timer). FreeRTOS, which `apps/freertos` ports to this
core, adds tasks. That is also where the code is hard to test: on the boards the
interrupt nearly always comes at the same point.

## Running

    tlc -config command.cfg MCEmmcCommand.tla     # likewise for each row of "Runs"
    tlapm EmmcCommandProofs.tla                   # likewise for each *Proofs module

`PROJECT.json` is the machine-readable index: components, runs, mutants (for
each property a wrong variant of a definition that the property rejects), the
source lines of each definition, findings, hazards and theorems.

## Inventory

### The eMMC/SD driver (`libs/sys_lib/src/emmc.c`, `emmc_callback.c`)

The largest program of the repository, and the one with all the hard
behaviours at once. From the bottom up:

| Part | State | Operations | What makes it correct |
|---|---|---|---|
| **Host controller** (hardware) | RINTSTS, IDSTS, INT_ENABLE, the response register, CMD_DONE_BIT, the command line, the data lines, the DMA | takes a command, answers it, raises data requests, ends a transfer, suspends the DMA | external: what the driver relies on |
| **Command engine** | `current_task` (status, error, corruption flag, callback, `idma_mode_on`), `interrupt_already_done`, `poll_demand_count`, `enum_status` | thread: `emmc_send_serial_command` → `emmc_form_n_send_cmd` → `emmc_cmd_to_host` → `emmc_execute_command`, then the wait; handler: `ISR_EMMC` with a post-processing callback per command, `emmc_handle_standard_idsts` | a wake-up is neither lost nor left over; success means that this command was answered and its data moved; every call returns |
| **Data transfer** | `card_state`, retry counters, result | `emmc_read_write_bytes`: select, block length, FIFO or descriptor, data command, busy, CMD12, HOUSEKEEP | success is honest; the card is where the driver believes; retry loops end |
| **Descriptor ring** | OWN bits, `next`, `busy`, DBADDR | `emmc_set_qptr`, `emmc_get_qptr`, `dma_ownbit_set`, and the DMA itself | indices in the ring; a descriptor is not given back under a transfer |
| **Enumeration** | `the_card_info`: `enum_status`, `card_type`, `card_state`, RCA; CTYPE | `emmc_get_card_type`, `emmc_reset_sd_card`, `emmc_reset_sd_2_0_card`, `emmc_reset_sdio_card`, wide bus | success means a usable card; the host is never wider than the card; belief follows the card |
| FIFO copy | FIFO count, bytes left | `emmc_read_in_data`, `emmc_write_out_data` | no byte lost or past the buffer; the last partial word |
| Callback lookup | a sorted table | `emmc_lookup_callback_table` | binary search finds every entry and ends |
| Block access, erase | — | argument checks, 32-bit byte addresses | no wrap at 4 GiB |
| Set-up, high speed, 1.8 V, DDR | clock registers | straight register sequences | — |

Interaction: enumeration and transfer call the command engine for every
command; the thread and `ISR_EMMC` share `current_task` and
`interrupt_already_done` without a lock, the only protection being INT_ENABLE
switched off between the preprocessing and the poll of the command register;
transfer and DMA share the OWN bits; the callback of an application command
calls the engine again, from inside the engine, for its CMD55.

### The Arduino library (`libs/Arduino_lib`)

| Part | State | Hard behaviour | What makes it correct |
|---|---|---|---|
| **TWI master** (`twi.c`) | `twi_state`, buffer and index, `Address_ACK`, `twi_inRepStart`, `twi_sendStop`, `twi_error` | the thread starts a transaction and spins while `ISR_I2C` drives it; the interrupt of the last STOP is still pending; other masters take the bus | result codes tell what happened on the bus; the bytes read are those sent; the bus is given back; calls return |
| Wire, SPI | two buffers each way; the saved INTEN | nested `beginTransaction` | buffers do not overflow; interrupts are restored |
| **Timekeeping** (`wiring.c`) | count of compare matches, timer A, `timerA_millis`, `timerA_fract` | the count and the timer are read at two moments; 2^32 wrap | `delay` is not early; `millis` does not drift further than its fraction |
| **Pins** (`WInterrupts.c`, `wiring_digital.c`, `wiring_analog.c`) | PADOUT, IER, the PWM tables | read-modify-write of shared registers by thread and handlers; one count of the pins under PWM, kept by both; one pin served per interrupt | a pin keeps its level; a pulse keeps its width; the PWM handler is on as long as a pin needs it |
| Serial, Stream | one byte of look-ahead | `peek` before `read`; a read that never times out | no byte lost; timeouts happen |
| Strings, C++ support | — | none | — |

### FreeRTOS 8.2.2 (`apps/freertos/Source`)

As `FreeRTOSConfig.h` sets it up: preemption, no mutexes, no timers, no
`vTaskSuspend`; `portmacro.h` makes TickType_t 16 bits wide and UBaseType_t an
unsigned char.

| Part | State | Operations | Hard behaviour | What makes it correct |
|---|---|---|---|---|
| **Lists** (`list.c`) | items and `pxIndex` | insert, insert sorted, remove, walk | an item is removed while a walk stands on it | every task is in exactly one list; a walk passes over nobody |
| **Scheduler and tick** (`tasks.c`) | ready, delayed, overflow, pending and event lists, `xTickCount`, `xNextTaskUnblockTime`, `uxPendedTicks`, `xYieldPending` | `vTaskSwitchContext`, `xTaskIncrementTick`, `vTaskSuspendAll`, `xTaskResumeAll` | the tick wraps; ticks are held back; a counter is incremented without a lock | nobody sleeps past his time; one suspension at a time; a due switch is made |
| **Queues** (`queue.c`) | the ring, two locks, two event lists | send, receive, peek, reset, from tasks and handlers | a handler sends between the test of a full queue and the sleep on it | a queue is a queue; no wake-up is lost; a time-out is neither early nor a round late |
| **Delays, notifications, deletion** (`tasks.c`) | wake times, `ulNotifiedValue`, `xTasksWaitingTermination` | `vTaskDelay`, `vTaskDelayUntil`, `ulTaskNotifyTake`, `xTaskNotifyGive`, `vTaskDelete` | a period is missed by a wrap; a notification comes before the sleep | delays and periods are exact; no notification is slept through; the dead are in no list |
| **RI5CY port** (`portable/GCC/RI5CY`) | the critical section | `vPortYield`, the tick handler | critical sections that do not count their depth; context restored with interrupts enabled | the kernel's critical sections exclude its handlers |
| Timers, event groups, co-routines, `heap_1` | — | — | off, or users of the above | — |

### Everything else

| Part | Remarks |
|---|---|
| Start-up code, vectors (`ref/crt0*`, `int.c`, `exceptions.c`) | a handler runs to its end with interrupts off; the models rely on it |
| Character and bus drivers (`uart.c`, `i2c.c`, `spi.c`, `timer.c`, `gpio.c`, `camctl.c`, …) | register accesses and busy-waits |
| Printing, benchmarks (`libs/string_lib`, `libs/bench_lib`) | sequential; `divu10` and `remu10` are worth checking |
| Boot loader (`apps/boot_code`) | sequential loop over the UART |
| Camera and accelerator application (`apps/testANN`) | a thread and two handlers that talk through `Isr_Type` and `count` |
| Wi-Fi/BLE applications (`apps/wifible`) | command-and-event protocol without timeouts; `sdcard.c` is the caller the eMMC models take their calls from |
| Tests, benchmark kernels, scripts | read for how they call the code |

`PROJECT.json` lists the hazards that matter most, each at its line, with the
property that covers each, or why none does yet.

## Modules

    CommandService            what a command call promises
        ^ refines
    EmmcHost <- EmmcCommand <- MCEmmcCommand, EmmcCommandProofs
                    |
                    | "Exchange", "Try": a call as one step
                    v
    EmmcCard <- EmmcTransfer  <- MCEmmcTransfer, EmmcTransferProofs
             <- EmmcEnum      <- MCEmmcEnum,     EmmcEnumProofs

    TwiMaster   <- TwiMasterProofs

    FreeRtosList <- FreeRtosTasks <- FreeRtosDelay <- MCFreeRtosDelay, FreeRtosDelayProofs
                                  <- FreeRtosQueue <- MCFreeRtosQueue, FreeRtosQueueProofs
                                          | refines
                                          v
                                     BoundedQueue
                                  <- FreeRtosTasksProofs (lemmas about tasks.c, for
                                       FreeRtosDelayProofs and FreeRtosQueueProofs)

    WiringTime  <- MCWiringTime
    ArduinoPins <- MCArduinoPins
    WiringTime, ArduinoPins <- ArduinoProofs

Each definition has a row under `map` in `PROJECT.json` with the lines it
stands for. Definitions whose comment begins with "Mutant" are wrong on
purpose and used by no specification.

### EmmcHost, EmmcCommand: the command engine

`EmmcHost` is the controller: its registers and the steps it takes by itself.
`quiet` says that the handler is not running, so that a bit raised while it
runs can be allowed or not. The history variables `answer` and `moved` record
how the command and the transfer of the *present* call really ended; no guard
reads `answer`, and `moved` only keeps the controller from raising two data
errors.

`EmmcCommand` adds the thread and the handler, which share `current_task`.

| Model | Code |
|---|---|
| `SetEnumStatus` | the enumeration opening and closing the gate at emmc.c:720 |
| `Send`, `NotSupported`, `Preprocess` | `emmc_send_serial_command`, `emmc_form_n_send_cmd`; `Preprocess` of an ACMD re-enters with CMD55 (`outer` is the suspended call) |
| `SetCurrentTask`, `Execute`, `Polled` | `emmc_cmd_to_host`, `emmc_execute_command`, `emmc_poll_cmd_register`, the interrupt enabled again |
| `Wake` | `plat_reenable_upon_interrupt_timeout` |
| `CheckStatus`, `RemoveCommand` | `emmc_last_com_status`, `emmc_remove_command` |
| `IsrDiscard`, `IsrPostProcess` | the two branches of `ISR_EMMC`; `PostProcess` is the part of a callback that uses the RINTSTS read at entry |
| `IsrBusy`, `IsrReadData`, `IsrWriteData` | the r1b callback's busy wait; the second look of the data callbacks at the registers |
| `IsrEnd`, `IsrPollDemand`, `IsrDmaReset` | `emmc_handle_standard_idsts` and the end of `ISR_EMMC`, with its write of all ones to RINTSTS (`Conclude`) |
| `Controller` | any step of `EmmcHost` |

One command per post-processing callback, and per way to form it, stands for
all commands that share them. A command that is refused (`"missing"`) is CMD10,
which has no entry. Which R1 error bit is set is left out, and so is the
copying of data: one data interrupt does not move the transfer on here.

`CommandService` is the same call without registers and interrupts: one
command open at a time, and a result that agrees with what the card did.
`EmmcCommand` implements it (`ServiceRefined`) under the mapping `Known`. The
layers above use the engine as it is promised there: `Exchange` and `Try` are
one step per call, success means the card obeyed, failure leaves open whether
it did.

### EmmcCard, EmmcTransfer: one transfer

`EmmcCard` is the card's state machine, as in `CURRENT_STATE` of CMD13, and
which commands it obeys in which state. It answers nothing that is illegal in
its state; a command or its answer may be lost.

`EmmcTransfer` is `emmc_read_write_bytes` for one or several blocks, moved by
the processor before `EnableIdmac` (the end of `emmc_init_controller`) and by
the DMA after it.

| Model | Code |
|---|---|
| `Call` | entry of `emmc_read_write_bytes` |
| `SelectStatus`, `Select` | `emmc_put_in_trans_state`, called twice (`back` is the return address) |
| `BlockLength`, `FillFifo` | CMD16; the first words of a write |
| `DmaOwnbitSet`, `SetQptr`, `NoDescriptor`, `TooLong` | `dma_ownbit_set`, `emmc_set_qptr`, the ERRNOMEMORY and ERRNOTSUPPORTED returns |
| `IsCardReady` | `emmc_is_card_ready_for_data` |
| `CommandStarts`, `CommandFails`, `SlaveData`, `DmaEnd`, `DmaUnavailable`, `DmaReturn` | the data command, the DMA at work, and `emmc_get_qptr` at the end of the call |
| `NotBusy`, `StopTransmission` | the poll of STATUS_DAT_BUSY; CMD12 |
| `LeaveSelected`, `HouseRead`, `HouseWrite`, `AwaitProgrammed`, `Deselect` | HOUSEKEEP |
| `CardProgresses` | the card ends programming, or a block nobody takes |

Not modelled: CMD23, stream transfers, SDIO addressing, CUSTCOM_DONT_TRANS and
the argument checks before the first command.

### EmmcEnum: enumeration

One action per command of `emmc_get_card_type` (`AskSdio`, `AskReset`,
`AskSd2`, `AskSd1`), of the SD resets (`ResetCard`, `CheckInterface`,
`NoCardDetect`, `AppCommand`, `SetVoltage1` and `2`, `GetCid`, `SetRca`,
`ProcessCsd`, `ProcessScr`), of the wide-bus switch (`Wide…`) and of the SDIO
reset (`Io…`). `Enumerate` may be called again at any time: nothing in the driver
forbids it. `kind` is the card that is really there, `known` whether the RCA the
driver holds is that card's; `cardWide` and `hostWide` are the two ends of the
bus width. `emmc_process_scr` and the read of the CCCR are transfers; they are
one step here with the outcomes `EmmcTransfer` allows.

### TwiMaster: the I2C master

The thread (`Call` … `Return` for `twi_writeTo` and `twi_readFrom`), the
branches of `ISR_I2C` (`IsrArbitrationLost`, `IsrReady`, `IsrWrite`,
`IsrRead`, `IsrNack`; `Stop` and `RepeatStart` are `twi_stop` and the START of a
repeated start) and the bus (`Bus…`), which carries out the command in I2C_CMD
and raises the interrupt flag. A command written over another leaves it open
which of the two is carried out. `log` records what was acknowledged on the
bus since the last START.

### FreeRtosList, FreeRtosTasks: the kernel

`FreeRtosList` is `list.c`: a list is its items from `xListEnd` on, and the
position of `pxIndex` among them. `FreeRtosTasks` is the scheduler as functions
of one record, `kernel`, so that a queue or a delay can use them inside one
critical section, in the order in which the C code calls them.

| Model | Code |
|---|---|
| `InsertEnd`, `InsertSorted`, `ListRemove`, `Advance` | `vListInsertEnd`, `vListInsert`, `uxListRemove`, `listGET_OWNER_OF_NEXT_ENTRY` |
| `AddToReady`, `RemoveGeneric`, `RemoveEvent`, `Unblock` | `prvAddTaskToReadyList` and the removals that go before it |
| `AddToDelayed`, `Delay`, `PlaceOnEventList` | `prvAddCurrentTaskToDelayedList`, `vTaskPlaceOnEventList` |
| `RemoveFromEventList`, `WakeOne`, `Outranks` | `xTaskRemoveFromEventList` and the test its callers make first |
| `IncrementTick`, `SwitchRequired`, `Expired`, `SwitchDelayedLists`, `ResetNextUnblock` | `xTaskIncrementTick` |
| `TimeOut`, `TimedOut`, `Elapsed`, `TimeLeft` | `vTaskSetTimeOutState`, `xTaskCheckForTimeOut`; the difference of two counts is signed, what is left of a wait is modulo the counter |
| `ShouldDelay` | the test of `vTaskDelayUntil` |
| `SwitchContext`, `Chosen`, `Highest` | `vTaskSwitchContext`, `taskSELECT_HIGHEST_PRIORITY_TASK` |
| `ReleasePending`, `ReleaseTicks`, `ResumeAll` | `xTaskResumeAll` |
| `KernelInit`, `FirstTask` | `xTaskGenericCreate` for every task, then `vTaskStartScheduler` |

### FreeRtosQueue, BoundedQueue: queues

Two or more tasks and the interrupt handlers on one queue. A call is cut where
interrupts are enabled; everything inside a critical section is one action, and a
tick or a handler may come before any action. `app` is the program: who calls
what. `vTaskSuspendAll` is two actions, a load and a store, because the
increment of `uxSchedulerSuspended` is not protected.

| Model | Code |
|---|---|
| `Call`, `Succeed`, `FailAtOnce`, `PrepareToWait` | the critical section of `xQueueGenericSend` and `xQueueGenericReceive` |
| `LoadSuspended`, `StoreSuspended` | `vTaskSuspendAll` |
| `Lock`, `Expire`, `NotYetExpired`, `TestAgain`, `Place` | `prvLockQueue`, `xTaskCheckForTimeOut`, `prvIsQueueFull` or `-Empty`, `vTaskPlaceOnEventList` |
| `UnlockTx`, `UnlockRx`, `Resume`, `Yield` | `prvUnlockQueue`, `xTaskResumeAll`, `portYIELD_WITHIN_API` |
| `CopyDataToQueue`, `NextItem`, `Removed` | `prvCopyDataToQueue`, `prvCopyDataFromQueue` on the ring |
| `Reset` | `xQueueReset` |
| `Tick`, `IsrSend`, `IsrReceive` | `vPortYieldFromTick`, `xQueueGenericSendFromISR`, `xQueueReceiveFromISR` |

`BoundedQueue` is the queue without ring, locks and handlers: a sequence that
grows at either end, is overwritten or emptied as a whole. The refinement maps
it to the items from the read position on (`Contents`).

### FreeRtosDelay: waiting without a queue

The same kernel under `vTaskDelay`, `vTaskDelayUntil` (`SuspendAll`,
`DelayBody`, `DelayUntilBody`, `Resume`, `Yield`), `ulTaskNotifyTake` (`Take`,
`Taken`), `xTaskNotifyGive` and its handler form (`Give`, `GiveFromISR`),
`vTaskDelete` (`Delete`, `AfterDelete`) and the idle task that frees what was
deleted (`IdleLook`, `IdleLooked`, `IdleReap`). Two variables measure time by
counting the ticks that really come rather than by the kernel's arithmetic: `owed`,
the ticks until a delay or a wait for a notification is over, which starts and ends
with the call, and `ahead`, the ticks until the time a periodic task keeps in its
`pxPreviousWakeTime`, which runs on through whatever else the task does.

### WiringTime: the Arduino clock

`Cycle` is timer A, `ISR_TA_CMP` its handler. `micros` is `Mask`, `ReadCount`,
`ReadTimer`; `delay` and `delayMicroseconds` are `Call`, `Begin`,
`MillisecondOver`, `MicrosecondsOver`, `NotYetOver`, `Return`. `now` counts
cycles without end and is what a call's length is measured by; `torn` says
that a reading of `micros` was not the time. `Micros` divides where the code
multiplies by 0.005 and truncates; rounding of that product is left out.

### ArduinoPins: pins, interrupts, PWM

The program, `sketch`, is one of `Sketches`: the calls it may make, in any order.
It makes one access to a shared location at a time, and `ISR_TB_CMP` (the PWM)
and `ISR_GPIO`, with the interrupt function it calls, come before any of them.

| Model | Code |
|---|---|
| `SetDirection` | `pinMode`, also at the start of `analogWrite` |
| `TestEnabled`, `ClearEnabled`, `LoadCount`, `StoreCount`, `LoadIER`, `StoreIER` | `turnOffPWM`, which runs with interrupts on; the last four also `PWM_global_en++` and `IER \|=` of `analogWrite` |
| `Enable`, `SetValue` | the flag and the value of `analogWrite` |
| `MaskInterrupts`, `Load`, `Store`, `Unmask` | the rest of `digitalWrite` |
| `SetFunction`, `EnableInput`, `LoadIER`, `StoreIER`, `DisableInput`, `ForgetFunction` | `attachInterrupt`, `detachInterrupt` |
| `WriteLed` in `ISR_GPIO` | an interrupt function that calls `digitalWrite(Led, …)`, `turnOffPWM` included; `Led` may be under PWM when it does |

`written` and `settled` record what was asked for. The PWM tables and
`PWM_global_en` are not volatile; the model keeps their accesses in the order of
the program.

## What the code is assumed to run on

These are the facts about hardware that the models take from how the code uses
it; each is external in `map`.

- The handler runs with the processor's interrupts off, so the thread stands
  still until it ends (`ref/crt0.riscv.S`).
- The host controller takes a data command only when its data path is idle
  (CMD_WAIT_PRV_DAT_BIT), and a suspended DMA keeps the path busy.
- The interrupt flag of the I2C controller is set after a STOP too (the comment
  at twi.c:260 says so), RXACK keeps its last value, BUSY clears with the
  completion of the STOP.
- From `SetState` on a pending I2C interrupt is taken before the thread's next
  step; a bus command takes longer than the handler, and (`Overtaken = FALSE`)
  longer than the few instructions from the command to the wait loop. With
  `Overtaken = TRUE` the ordering of twi.c:164-172 no longer holds up; nothing
  in the tree says whether another handler may delay the thread that long.
- Interrupts are never off for as long as timer A takes from one compare match
  to the next (131072 cycles): no match is overwritten by the one after it.
- The timer restarts in the cycle in which it matches, and the event unit keeps
  the match until the handler runs.

## Runs

Runs that pass:

| Run | Module | Shows | States |
|---|---|---|---|
| `command` | EmmcCommand | thread and handler agree on every command whatever the interleaving; success means answered and moved; every call returns; CommandService is implemented | 2,548 |
| `any` | EmmcCommand | with DMA, errors ahead of CMD_DONE and bits raised inside the handler, a thread is still never left waiting for a task that is over | 1,110,350 |
| `xfer` | EmmcTransfer | ring indices and retries in bounds; a single-block slave-mode transfer returns 0 only if the data moved; the card is selected up to the data command; slave-mode calls return | 62,319 |
| `enum` | EmmcEnum | success means a usable card; the host is never wider than the card; belief follows an SD 2.0 card; enumerations return | 3,503 |
| `twi` | TwiMaster | honest results of reads and writes, the bus given back, calls on a quiet bus return | 148,475 |
| `queue` | FreeRtosQueue | one suspension at a time; nobody waits for what is there, sleeps past the time he was put to sleep for or gives up early; a due switch is marked; BoundedQueue is implemented | 2,117,338 |
| `delay` | FreeRtosDelay | delays and periods exact to the tick across wraps and suspensions; no notification slept through; the deleted are in no list when they are freed | 89,912 |
| `share` | FreeRtosDelay | of two tasks of one priority the one that sleeps runs again, whatever the other does | 6,191 |
| `time` | WiringTime | `delay` and `delayMicroseconds` return early only after a torn reading; the milliseconds lag by less than their fraction | 1,072,836 |
| `pins` | ArduinoPins | pins keep their levels and pulses their width under both handlers; in a program that never puts the interrupt function's pin under PWM the PWM handler stays enabled as long as a pin needs it | 2,666,210 |

Runs that end in a counterexample. Each checks what a comment of the
repository says, and the counterexample is what the code does:

| Run | Property | What the trace shows |
|---|---|---|
| `hang` | `CallReturns` | the DMA gives back, for the transfer before, a descriptor already filled for the next; the DMA suspends, and the call after that polls CMD_DONE_BIT for ever instead of CMD_MAX_RETRIES times (emmc.c:527, 533) |
| `delayearly` | `DelayKept` | `micros` reads the count, the timer restarts while interrupts are off, the reading lies a compare period back, and the unsigned differences of `delay(2)` are over at once (wiring.c:88, 97) |

Further configurations are kept beside them, each for one property that TLC
refutes; `tlc -config <name>.cfg <module>` prints the trace:

| Configuration | Module | Property | What the trace shows |
|---|---|---|---|
| `split` | MCEmmcCommand | `WakeNeedsAnswer` | an error is reported ahead of CMD_DONE (emmc.c:374 expects that); `emmc_remove_command` only marks the task, so the late CMD_DONE ends the next command's wait (emmc_callback.c:1457, 1464) |
| `early` | MCEmmcCommand | `SuccessMeansMoved` | in DMA mode the read callback takes CMD_DONE for the end of the data (emmc_callback.c:900, against emmc.c:759) |
| `lost` | MCEmmcCommand | `WaitEnds` | DAT_OVER raised after the callback's last look is cleared by the write to RINTSTS at emmc.c:414, and the wait of emmc.c:751 has no timeout |
| `late` | MCEmmcCommand | `SuccessMeansMoved` | the data ends, with a CRC error, after the handler has read RINTSTS for errors and before the read callback looks for DAT_OVER: the callback finds no error, and the call succeeds (emmc_callback.c:865, 916) |
| `falsefail` | MCEmmcTransfer | `TransferredMeansSuccess` | after a write HOUSEKEEP waits for the card to leave programming, which leads it to the transfer state, and then fails because it is not in standby (emmc.c:1965, against 1609) |
| `powerup` | MCEmmcEnum | `PowerUpOver` | an SD 1.x card that is still powering up is taken for ready: any non-zero answer will do (emmc.c:1165) |
| `twistart` | TwiMaster | `RepeatedStart` | after `endTransmission(false)` the bus stays busy, held by this master, and the next call waits for it (twi.c:222, Wire.cpp:146) |
| `slip` | MCFreeRtosDelay | `InTime` | `uxPendedTicks` is an unsigned char on this port: a suspension of 256 ticks (2.56 ms at the configured rate of 100 kHz) loses them all, against tasks.c:1715, "This ensures the tick count does not slip" |
| `notify` | MCFreeRtosDelay | `YieldRequired` | `vTaskNotifyGiveFromISR` readies a task "so a yield is required" (tasks.c:4428), but tells only a caller that asks, and marks nothing: the woken task waits for the next tick |
| `round` | MCFreeRtosQueue | `BlocksNoLonger` | a call that looks again after its time is over and after the tick has wrapped is told to wait on, as the difference of two 16-bit counts is a negative `int`; what it is left with is taken modulo the counter, nearly a round (tasks.c:2621, 2624, against queue.h:749) |
| `pwmoff` | MCArduinoPins | `PwmOn` | the sketch's `digitalWrite(p)` has tested `PWM_enabled` when an interrupt function writes `p`, clears the flag and counts `PWM_global_en` down; the sketch counts down again, finds 0 and disables the timer B interrupt, with another pin still under PWM (wiring_digital.c:64, against wiring_analog.c:41) |

### Bounds

- **Commands.** `command` takes one command of each callback (10 of them); the
  engine keeps nothing of a command but its callback, whether it has data, and
  whether it is an ACMD. `any` takes one without a response, one read and one
  write: the DMA and error bits multiply the states, not the callbacks.
- **MaxPoll**, the poll demands for the life of the driver, is 3 in the code
  and in all runs but `any`, which has 1: both branches (another demand, reset)
  are reached, and the proof of `NoLostWakeup` covers every value.
- **SplitErrors, LateBits** say what the controller may do to the handler.
  `command` lets the command line, not the data lines, raise a bit in the
  handler; `any` lets both, with early errors; `split`, `early` and `lost` each
  allow one kind of misfortune only, so that the trace has one cause.
- **NoOfDesc** is 1 in the code (emmc.h), 2 in `xfer` so that `next`, `busy`,
  `base` and `cur` can differ. The proofs take any length.
- **Tries** is 2 in place of 20 (READY_FOR_DATA), 100 (DIS_STATE_TRIES) and
  1000 (the bring-up loops): a first try, a last one and the exit are there.
  The proofs take any number.
- **TWI_BUFFER_LENGTH** is 2 in place of 32 (1 in `twistart`): an empty, a
  partial and a full buffer, a first byte, a last one and the address.

- **TickMod** is 3 (`queue`) or 4 (`delay`, `share`) in place of 2^16, so that the
  counter wraps inside nearly every wait; **OverflowMod** 2 or 1, **PendedMod**
  4. A task waits up to TickMod - 1, which is portMAX_DELAY. **MaxPended** (1 or
  2) bounds the ticks during one suspension, **MaxLock** (1) the items handlers
  move while a queue is locked (the proofs take up to 127: the counts are signed
  chars here, and the 128th would turn one below 0), **MaxNotified** (2) a notification count.
- **Applications**: a queue of one and of two items; two readers, two senders,
  a mailbox, a queue that is reset again and again, a stream of differing
  items sent, read and looked at by one task and handlers. Two priorities are enough for a waiter to
  be outranked, woken and overtaken.
- **Compare** is 5 cycles in place of 131072, **CycleMod** 20 in place of 2^32,
  **PerMilli** 6 with a fraction of 2: a match, a carry of the fraction and a
  wrap of the cycle count all fall inside a call. **MaxNow** (32 cycles, one wrap
  and a half) ends a behaviour of `time`.
- **PWM_MAX_COUNT** 2 and **PWM_STEP** 2: a period of three counts, values at its
  start, middle and end. **CountMod** 4 in place of 256: three pins under PWM
  fit, one count down too many wraps. **Sketches**: one program puts the interrupt
  function's pin under PWM and one does not.

Nothing else is bounded: calls follow each other for ever.

`CHECK_DEADLOCK FALSE` stands where the driver really stops: in `any`,
`early`, `lost`, `split`, `xfer`, `hang` a thread can wait for an interrupt or
a command register for ever (as in `lost` and `hang`, or a DMA command whose
final interrupt a poll demand consumed), in `twi` and `twistart` a call waits
for a bus it holds, and `time` and `delayearly` end at MaxNow.

### Fairness

- `ProcessorFairness`: weak fairness of the thread's steps inside a call and of
  the handler. A processor executes; the caller need not call, so `Send` and
  `SetEnumStatus` have none.
- `ControllerFairness`: weak for taking a command (CMD_DONE_BIT stays set until
  it is taken), strong for answering it and for ending a transfer. Strong,
  because with `LateBits` off these steps are disabled each time the handler
  runs, and data requests can make it run again and again; the controller's
  own timeouts (TMOUT) end a command and a transfer however often it does.
- `EmmcTransfer`: weak fairness of the driver, the data path and the card; the
  card is not obliged to be ready, `IsCardReady` counts its tries.
- `EmmcEnum`: weak fairness of the driver.
- `TwiMaster`: weak fairness of thread, handler and bus; other masters free
  the bus (`BusFreed`), the device need not acknowledge anything.
- `FreeRtosDelay`: weak fairness of a task that is inside a kernel call or has
  deleted tasks to free, and of the tick, written out over the states that enable
  them (`MayStep`, `MayTick`). The application's own code is owed nothing: it may
  compute for ever, and `SleeperRunsAgain` holds because the tick takes the
  processor away from it.

No liveness is claimed of `FreeRtosQueue`: a call can be overtaken without end by
a task of higher priority, and a time-out that is looked at only after the tick
has wrapped may be extended by nearly a round (`round`).

## Proofs

TLAPS checks 37 theorems, for every value of the constants that the ASSUMEs
allow: sets of commands, requests, cards, tasks, pins and calls; programs,
sketches, lengths, counter widths, numbers of retries.

### The eMMC driver

| Theorem | Inductive invariant |
|---|---|
| `EmmcCommandProofs!TypeCorrect`: `TypeOK` | `TypeOK`; its conjunct "a command past `form` has a callback" is what makes it inductive |
| `WakeupNeverLost`: `NoLostWakeup` | `TypeOK /\ Owed`. `NoLostWakeup` speaks of states with the handler off. `Owed` says what the handler owes while it runs: if it has taken the task off, it carries an error, or the flag is set already. `PostProcessAbsent` is the key lemma: the only callback that takes a task off by itself (no response) does so with an error |
| `SuccessIsAnswered`, `SuccessHasMoved`, `NoWakeupLeftOver`, `IdleHasNoTask`, `WokenByAnswer` | `CallInv`, which follows a call through its stages: `Unanswered`, `Answered`, `Moving`, `Handling`, `Decided`. Assumes `Orderly`: no error ahead of CMD_DONE, no DMA. The data may end at any step of the handler; only `SuccessHasMoved` needs that it does not (`Punctual`), and is false without it, as `late` shows. `ShortSays` and `R1Says` are the key lemmas: the callback reports an error exactly when the bits, or the R1 response, say one |
| `DriverImplementsService`: `ServiceRefined` | `CallInv` again, with `Orderly` and `Punctual`: each action maps to one of `Open`, `Settle`, `Doubt`, `PrefixDone`, `Close`, `Refuse` of `CommandService`, or to a stutter |
| `EmmcTransferProofs!TransferTypeCorrect` | `Typed`: `TypeOK` and retries left in the loop |
| `SelectedUntilDataCommand` | `Selected`: CMD7 is sent only to a card in standby, otherwise it could send one in "dis" back to programming |
| `SuccessIsHonest` | `ResultHonest`: from the data command to the return, a result of 0 means moved data, and a single-block transfer never sends CMD12, whose result would overwrite the error |
| `EmmcEnumProofs!EnumTypeCorrect` | `Typed`: each retry loop is entered with retries left |
| `HostNeverWider` | `Narrow`: through the whole bring-up CTYPE is one line, set before the reset that makes the card narrow |
| `SuccessMeansUsable` | `Usable`: from the SCR on the RCA is right and the card is addressed; it was CMD9 that earned this, as CMD3 may have been answered by a stale register |
| `BeliefIsEarned` | `Believed`: `card_state` at each step, and the card with it |

### The Arduino library

| Theorem | Inductive invariant |
|---|---|
| `TwiMasterProofs!BufferNotOverrun`, `WritesAreHonest`, `ReadsAreHonest`, `BusIsGivenBack` | `TwiInv`: `TypeOK` and `Stages`, which says for each place of the thread what state, flag, command, buffer and log agree on. While the handler drives the bus (`AtRun`) the transaction is `Addressing`, `Writing` or `Reading`, and ends `Acknowledged`, `Refused` or `Overridden`. `Deaf` is the transaction whose interrupt a leftover interrupt switched off: it never ends. Assumes `~Overtaken` |
| `ArduinoProofs!MillisNeverAhead` | `ClockInv`: the handler adds exactly one match less `Dropped`, with and without a carry |
| `DelaysAreInTime` | `WaitInv`: the count is the time of the last handled match (`CountIsTime`), so a reading with no match pending is the time since `Base`; a call that has read nothing torn knows a reading that is over (`Past`) and one made after it began (`Since`), and what `delay` took off `start` is counted in `Credit` |
| `WrittenLevelsKept` | `Pins`: between the load and the store of PADOUT interrupts are off and what was loaded is what is there |
| `PulsesKeepTheirWidth` | `Pulses`: `settled` holds only pins under PWM, whose level agrees with the count; a handler that takes its pin out of the PWM takes it out of `settled` |
| `PwmStaysServed`: `PwmServed` | `Guarded`: in a program that never puts the pin its interrupt function writes under PWM (`LedIsDigital`) `Served` holds: `PwmOn`, `Counted` (PWM_global_en counts the pins under PWM, one more or one less only while `turnOffPWM` or `analogWrite` is between the flag and the count) and `Alone` (what the sketch has tested or loaded is still so). The condition is part of the property; in other programs `PwmOn` is false, as `pwmoff` shows. The two theorems before are about every program |

### FreeRTOS

`FreeRtosTasksProofs` has the lemmas about `tasks.c`: what each operation of
`FreeRtosTasks` keeps, for every number of tasks and priorities and counters of
every width. `Lists` says that the kernel's lists are in order: no task twice,
the delayed lists sorted by wake time and the event lists by priority, the walk
of each ready list inside it, no ready task above the cached top priority.
`Placed` says that each living task is in exactly one list by its generic item,
`Waits` that a task on an event list or in the pending list is asleep, and
`NoOverdueSleeper` that the delayed lists and the cached next wake time agree
with the tick. The model writes the kernel's loops (waking the sleepers that are
due, emptying the pending list, taking in the held-back ticks, looking down the
priorities) as folds. A lemma follows such a fold step by step and compares it
with the least step at which a claim fails (`WFMin`), so it needs no induction
scheme.

| Theorem of `FreeRtosQueueProofs` | Part of the inductive invariant `Correct` that gives it |
|---|---|
| `OneSuspensionAtATime` | `Exclusive`: `SuspensionExclusive` strengthened by `LoadedIsZero`: a task preempted between the load and the store of `uxSchedulerSuspended` runs again only when no other is inside a suspension, so what it loaded is 0 |
| `QueueKeepsPromise` | `RingInv`: read and write position are as far apart in the ring as it has items (`IsRing`), and a call in progress is one of the program's (`CallsOK`); then each operation is one move of `BoundedQueue` |
| `QueueTypeCorrect` | `Sound`: the lists of the kernel, and what ties them to the calls: a task on an event list is in a call that waits there (`CallsMatch`), the locks are held by the running task (`LocksMatch`), it is out of the ready list only on its way to the switch (`Awake`), and ticks are held back only during a suspension |
| `NobodySleepsPast` | the `NoOverdueSleeper` of `Sound`. A call that `xTaskCheckForTimeOut` left with no ticks and lets wait on is put into the delayed list at its very time; the property lets it stand there until the next tick, and no other |
| `SwitchIsPending` | the `SwitchDue` of `Sound`: the switch is marked when a task of higher priority comes back, also during a suspension, whose end makes it; the pending list holds those not yet back |
| `GivesUpInTime` | `Timely`: of the ticks a call was given, those since it took the time, held-back ones included, and those it is still owed add up to no more than it asked for; once the tick has wrapped the call may be left more than it is owed, never less |
| `NoWakeupIsLost` | `Covered`: while somebody is on the event list, the items (or free slots) are no more than the tasks overtaken on their way to look again plus the marks on the lock that will each wake one. With no mark left this is `NoLostWakeup`; the marks are what holds while a task has the queue locked |
| `TimeOutUpToTheWrap`, and `PeriodsAreExact` of `FreeRtosTasksProofs` | none: they are about the arithmetic of `xTaskCheckForTimeOut` and `vTaskDelayUntil` for counters of any width. `TimeOutUpToTheWrap` says that a time-out is exact as long as the tick has not wrapped since it was set, and what becomes of it once it has |

The parts are preserved together: a step picks the next task by `Lists`, its
being outside a suspension needs `Exclusive`, and what it wakes is counted by
`Placed` and `Waits`.

The delays have an invariant of their own on the same lemmas, in two layers.
`Sound` is about who is where; `Clock` is preserved by the steps that keep `Sound`
and is about when.

| Theorem of `FreeRtosDelayProofs` | Inductive invariant |
|---|---|
| `DelayTypeCorrect`: `TypeOK` | `Sound`: `Typed` (where a task stands tells which call it is in), `Housed` (the lists are in order and hold exactly the tasks that live, the idle task among the ready ones), `Awake` (a running task is out of the ready lists only on its way to the switch), `Exclusive` (one suspension, and nothing held back outside it) |
| `TheDeadStayDead`: `DeadStayDead` | the `Buried` of `Sound`: the count the idle task reads is the length of the list, it is about to take a head only if there is one, a deleted task runs only in its own `portYIELD_WITHIN_API`; with `Housed`, which places no dead task |
| `NoNotificationIsLost`: `NoLostNotification` | the `Noticed` of `Sound`: a task marked as waiting has a count of 0, and one that sleeps in the call without that mark has been given a notification during a suspension and is in the pending list |
| `WakesInTime`: `InTime` | `Sound /\ Clock`. `InTime` says nothing of a delay that has not gone to sleep yet, of one woken and not yet back, or of a periodic task between two rounds. `Starting`, `Waking` and `Periods` do, and `Sleeping` adds the held-back ticks to what a sleeper is due. `Periods` ties `last`, a time on a counter that wraps, to `ahead`, a number that does not: they differ by a multiple of a round, and `PeriodsAreExact` decides from that whether `vTaskDelayUntil` sleeps |

`WakesInTime` assumes `MaxPended < PendedMod`: the ticks of one suspension fit
`uxPendedTicks`, an unsigned char on this port. Without it the statement is false,
as `slip` shows. The theorem leaves a periodic task that was a whole round of the
counter late (`Late`) out of its exactness, as the code cannot tell that from being
in time. The other three assume nothing beyond the ASSUMEs.

The set of tasks is assumed finite
(`KernelAssumption`), as the tasks that can be created are; everything else is
arbitrary. No theorem assumes anything of the schedule.

Each proof has one step per action; a temporal conclusion combines Init, step
and implication.

### Only model-checked

Every liveness property (liveness under fairness is beyond the prover), and what
the command engine does with DMA or early errors beyond `NoLostWakeup`
(`any`). Every invariant that a passing run checks is also proved. `IdleHasNoTask`
is proved only: no run checks it.

## Observed, without a run of its own

No comment or test says otherwise closely enough to state a property, but the
models contain each of these:

- A controller that never answers stops the driver: no wait has a timeout
  (emmc.c:4096, 536).
- The CMD55 of an ACMD enables the interrupt that the outer call had disabled
  (emmc_callback.c:1011); its failure is ignored. `ServiceRefined` holds all the same.
- In DMA mode the end of a transfer that meets a command without data leaves its
  IDSTS bit set and no branch clears it: the handler is entered for ever.
- The check of an R4 answer ORs the error bit in where it should mask it out, so
  it never reports an error (emmc_callback.c:419).
- The R5 data callbacks look for the IDSTS bits of the DMA in the RINTSTS they
  are passed (emmc_callback.c:530).
- A poll demand consumes the interrupt that ends the transfer it restarted.
- `idma_mode_on` outlives its transfer (emmc.c:1890).
- The result of CMD12 replaces a data error of a multi-block transfer
  (emmc.c:1937), so `SuccessMeansTransferred` is about single blocks.
- CUSTCOM_DONTSTDBY is tested the wrong way round (emmc.c:1948, emmc.h:723).
- `emmc_is_desc_free` answers yes for a descriptor the DMA owns (emmc.c:3551);
  applications set the OWN bit first (`dma_ownbit_set`) to get past it.
- A failed SD_CMD8, or a failed CMD7 of an SDIO card, returns past HOUSEKEEP
  and leaves `enum_status` 0 (emmc.c:2306, 2518).
- The CCCR is read with the flag that deselects the card, and the CMD52s that
  follow need it selected (emmc.c:3168).
- `emmc_get_card_type` may end without a return (emmc.c:352); the model lets it
  return any type.
- A data bit (DAT_OVER) that comes between the two looks of the read callback is
  taken for the end of the data before the words in the FIFO are read
  (emmc_callback.c:913, 916).
- The count of bytes left at the end of a FIFO read is copied to `data_buffer`
  plus four times the word count of this look, whatever was read before; the
  last bytes of a write are taken from the start of what is left (emmc.c:3226).
- After a transaction that ended in a NACK, the interrupt its STOP leaves behind
  finds RXACK set and stops the next one (twi.c:361): `CallReturns` of
  `TwiMaster` is stated for a bus left acknowledged.
- `portEXIT_CRITICAL` enables interrupts whatever the depth (portmacro.h:117). No
  path of the kernel as configured nests two critical sections.
- `portRESTORE_CONTEXT` enables interrupts before the handler has returned
  (port.c:284): a second tick there would save its context on top of the first.
- `portTICK_PERIOD_MS` is 1000 / 100000, which is 0 (portmacro.h:125).
- `ISR_GPIO` serves one pin, the highest of INTSTATUS (WInterrupts.c:188);
  with no bit set the search for the bit does not end.
- `attachInterrupt` changes `intFunc` with interrupts enabled and sets the bit of
  INTEN with a read-modify-write that nothing protects.
- `micros` is a count of 2^32 cycles, 21.5 s, in microseconds (wiring.c:94);
  subtraction of two readings is right only within one such round.
- `delayMicroseconds` "should work even if interrupts are disabled"
  (wiring.c:110), but with interrupts disabled the count stands still after one
  match, the reading goes back and the unsigned difference ends the wait.
- `analogWrite` counts in steps, so that the values just below 255 make a pulse
  as long as the period.
- A second `SPI.beginTransaction` saves the INTEN the first has masked
  (SPI.h:130), and the first value is lost; `usingInterrupt(255)` shifts 1 by 255.
- `HardwareSerial::read` ignores the byte `peek` has taken, and waits for the
  next without end (HardwareSerial.cpp:122).

## Not modelled, and why

- Post-processing for R4, R5, bus test, stream and voltage switch: the commands
  are not sent by the paths modelled, or differ from `short` and `r1` only in
  which bits are errors.
- Chain-mode descriptors, `emmc_get_qptr_force`, lock and unlock, MMC cards'
  reset: compiled out or never called.
- `emmc_init_controller`: a straight sequence at power-up; the models start
  from the registers it leaves.
- FreeRTOS timers, event groups, co-routines, mutexes, `xTaskNotifyWait`:
  configured off, or users of what is modelled that nothing in the tree calls.
- The copy between FIFO and buffer (`emmc_read_in_data`, `emmc_write_out_data`):
  the bring-up uses slave mode for short reads only (SCR, CCCR), which end in one
  look; larger transfers go through the DMA.
- Drivers of `uart.c`, `i2c.c`, `spi.c`, `timer.c` and the like, the neural-network
  kernels, stimuli and golden data: register writes, arithmetic and tables
  without state of their own to interleave.
- Formatting, strings, benchmarks, the boot loader: sequential, covered by
  ordinary tests.
- The compiler: `interrupt_already_done` is a plain `int` polled in a loop; the
  models read it at every turn.

## Plan

Done: the command engine, the transfer, the ring, the enumeration, the TWI
master, the FreeRTOS scheduler with its queues, delays and notifications, the
Arduino clock, pins, interrupts and PWM, with their abstract specifications and
theorems. What is left, in order:

1. **Wire** over `TwiMaster`: its two buffers, and an abstract bus transaction
   that `TwiMaster` implements; **SPI** transactions, the one-byte look-ahead of
   **Serial**.
2. **Algorithms** of the eMMC driver and the string library, each against a
   reference definition: the binary search of `emmc_lookup_callback_table`
   (unsigned wrap at emmc_callback.c:1277; ACMD42 and CMD42 share the index 42,
   and the entry the search meets first serves both), the FIFO copy
   (emmc.c:3193, 3330), the 32-bit addresses at emmc.c:4339 and the erase checks,
   `divu10` and `remu10`.
3. **CameraPipeline**: the camera handler, the accelerator handler and the
   thread of `testANN_cam`; then the firmware download of `ble.c`.
4. CMD23 and SDIO transfers in `EmmcTransfer`, the r4 and r5 callbacks in
   `EmmcCommand`.
5. Theorems: `CallInv` with the DMA or early errors, and what then remains true
   of a call.
