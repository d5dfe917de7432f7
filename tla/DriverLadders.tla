--------------------------- MODULE DriverLadders ---------------------------
(***************************************************************************)
(* What each driver of the repository takes in init(), probe() or open(),  *)
(* what the error path of each step gives back, and what exit(), remove()  *)
(* or release() gives back, in the order of the code.  The names are those *)
(* of the files (exemples/ by chapter, tp_* from solutions/).              *)
(***************************************************************************)
EXTENDS Sequences

\* if (take(...) fails) { undo; return err; }
Try(takes, undo) == [takes |-> takes, undo |-> undo, on_error |-> "undo"]
\* Cannot fail.
Sure(takes) == [takes |-> takes, undo |-> <<>>, on_error |-> "none"]
\* Can fail, and the result is not looked at.
Unchecked(takes) == [takes |-> takes, undo |-> <<>>, on_error |-> "ignored"]

\* A module.
Module(init, exit, uses) ==
    [init |-> init, exit |-> exit, uses |-> uses, devm |-> {}, owned |-> TRUE]
\* A driver bound to a device, which may go while a file is open.
DeviceDriver(init, exit, uses, devm) ==
    [init |-> init, exit |-> exit, uses |-> uses, devm |-> devm, owned |-> FALSE]

NoUses == [e \in {} |-> {}]
-----------------------------------------------------------------------------
\* Chapters II to IV.
II_06 == Module(<<Try({"proc"}, <<>>)>>, <<"proc">>, NoUses)

tp_II_02 ==
    Module(<<Try({"proc_dir"}, <<>>), Try({"proc"}, <<"proc_dir">>)>>,
           <<"proc", "proc_dir">>, NoUses)

III_03 == Module(<<Sure({"timer"})>>, <<"timer">>, NoUses)
III_04 == Module(<<Sure({"hrtimer"})>>, <<"hrtimer">>, NoUses)

IV_02 ==
    Module(<<Try({"region"}, <<>>), Try({"cdev"}, <<"region">>)>>,
           <<"cdev", "region">>, NoUses)

IV_03 ==
    Module(<<Try({"region"}, <<>>), Try({"class"}, <<"region">>), Unchecked({"node"}),
             Try({"cdev"}, <<"node", "class", "region">>)>>,
           <<"node", "class", "cdev", "region">>, NoUses)

\* Two of the NB_COUNTERS devices.
tp_IV_04 ==
    Module(<<Unchecked({"misc"}), Unchecked({"misc1"})>>, <<"misc", "misc1">>, NoUses)
-----------------------------------------------------------------------------
\* Chapter V: the GPIOs, requested then given their directions.
BothGpios == <<"gpio_out", "gpio_in">>
\* MUTANT of GpioPair: the last error path forgets a GPIO.
GpioPairKeepsOne ==
    <<Try({"gpio_in"}, <<>>), Try({"gpio_out"}, <<"gpio_in">>), Try({}, BothGpios),
      Try({}, <<"gpio_out">>)>>
GpioPair ==
    <<Try({"gpio_in"}, <<>>), Try({"gpio_out"}, <<"gpio_in">>), Try({}, BothGpios),
      Try({}, BothGpios)>>

V_01 ==
    Module(GpioPair \o <<Try({"misc"}, BothGpios)>>, <<"misc">> \o BothGpios,
           [misc |-> {"gpio_in", "gpio_out"}])

V_01_with_fdt ==
    DeviceDriver(<<Try({"gpio_in"}, <<>>), Try({"gpio_out"}, <<"gpio_in">>),
                   Try({"misc"}, BothGpios)>>,
                 <<"misc">> \o BothGpios, [misc |-> {"gpio_in", "gpio_out"}],
                 {"gpio_in", "gpio_out"})

V_02 == Module(<<Try({"thread"}, <<>>)>>, <<"thread">>, NoUses)

V_03 ==
    Module(GpioPair \o <<Try({"irq"}, BothGpios)>>, <<"irq">> \o BothGpios,
           [irq |-> {"gpio_out"}])

V_04 ==
    Module(GpioPair \o <<Try({"irq"}, BothGpios)>>, <<"irq", "tasklet">> \o BothGpios,
           [tasklet |-> {"gpio_out"}])

\* MUTANT of V_05: the work is flushed while the interrupt may still schedule it.
V_05_FlushFirst ==
    Module(GpioPair \o <<Try({"irq"}, BothGpios)>>, <<"work", "irq">> \o BothGpios,
           [work |-> {"gpio_out"}])
V_05 ==
    Module(GpioPair \o <<Try({"irq"}, BothGpios)>>, <<"irq", "work">> \o BothGpios,
           [work |-> {"gpio_out"}])

V_06 ==
    Module(GpioPair \o <<Try({"irq"}, BothGpios)>>, <<"irq">> \o BothGpios,
           [irq_thread |-> {"gpio_out"}])

\* The array behind a spinlock, filled by the interrupt and read through a misc device.
\* MUTANT of ArrayInit: request_irq() fails and its error path frees the interrupt.
ArrayInitFreesIrq ==
    <<Try({"gpio_in"}, <<>>), Try({}, <<"gpio_in">>), Sure({"lock"}),
      Try({"irq"}, <<"irq", "gpio_in">>), Try({"misc"}, <<"irq", "gpio_in">>)>>
ArrayInit ==
    <<Try({"gpio_in"}, <<>>), Try({}, <<"gpio_in">>), Sure({"lock"}),
      Try({"irq"}, <<"gpio_in">>), Try({"misc"}, <<"irq", "gpio_in">>)>>
ArrayDriver ==
    Module(ArrayInit, <<"misc", "irq", "gpio_in">>, [irq |-> {"lock"}, misc |-> {"lock"}])

V_07 == ArrayDriver
V_08 == ArrayDriver
V_09 == ArrayDriver
example_select == ArrayDriver

\* open() and release(): an array, and a handler, for each file.
V_10 ==
    Module(<<Try({"data"}, <<>>), Try({"gpio_in"}, <<"data">>), Try({}, <<"gpio_in", "data">>),
             Try({"irq"}, <<"gpio_in", "data">>)>>,
           <<"irq", "gpio_in", "data">>, [irq |-> {"data"}])

V_11 ==
    Module(<<Try({"page"}, <<>>), Try({"misc"}, <<"page">>), Sure({"timer"})>>,
           <<"timer", "page", "misc">>, [timer |-> {"page"}, misc |-> {"page"}])
-----------------------------------------------------------------------------
\* Chapters VI and VII.
VI_01 ==
    Module(<<Try({"dev0"}, <<>>), Try({"net0"}, <<"net0", "dev0">>)>>,
           <<"net0", "dev0">>, [net0 |-> {"dev0"}])

\* MUTANT of VI_02: the memory of the second device is freed before it is unregistered.
VI_02_FreeFirst ==
    Module(<<Try({"dev0"}, <<>>), Try({"net0"}, <<"dev0">>),
             Try({"dev1"}, <<"net0", "dev0">>), Try({"net1"}, <<"dev1", "net0", "dev0">>)>>,
           <<"dev1", "net1", "net0", "dev0">>,
           [net0 |-> {"dev0", "dev1"}, net1 |-> {"dev0", "dev1"}])
VI_02 ==
    Module(<<Try({"dev0"}, <<>>), Try({"net0"}, <<"dev0">>),
             Try({"dev1"}, <<"net0", "dev0">>), Try({"net1"}, <<"dev1", "net0", "dev0">>)>>,
           <<"net1", "dev1", "net0", "dev0">>,
           [net0 |-> {"dev0", "dev1"}, net1 |-> {"dev0", "dev1"}])
VI_03 == VI_02

\* "ref" is the reference of usb_get_dev().
UsbOutInit ==
    <<Sure({"ref"}), Try({}, <<>>), Try({"out_urb"}, <<>>), Try({"out_buffer"}, <<"out_urb">>),
      Try({"usbdev"}, <<"out_buffer", "out_urb">>)>>

VII_03 ==
    DeviceDriver(UsbOutInit, <<"usbdev", "out_buffer", "out_urb">>,
                 [usbdev |-> {"out_urb", "out_buffer"}], {})

\* write() and release() use both too; the test for the device at the head of write() keeps
\* them from what disconnect() freed until a second probe() sets the device again.
VII_04 ==
    DeviceDriver(UsbOutInit, <<"usbdev", "out_buffer", "out_urb">>,
                 [usbdev |-> {"out_urb", "out_buffer"}], {})
=============================================================================
