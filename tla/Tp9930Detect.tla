---------------------------- MODULE Tp9930Detect ----------------------------
(***************************************************************************)
(* The plug detection of CameraAD/tp9930/tp9930.c: a delayed work that     *)
(* arms itself again polls the detect GPIOs, keeps their levels in         *)
(* last_status and sends a uevent when one has changed.  The event does    *)
(* not say which camera it is about, so a listener reads the "online"      *)
(* attribute, which shows all of last_status, one element after the other. *)
(***************************************************************************)
EXTENDS Naturals, Sequences

CONSTANT detect_gpio_count    \* the GPIOs det_init found

ASSUME CountAssumption == detect_gpio_count \in Nat \ {0}

VARIABLES
    gpio,         \* the level of each detect GPIO: a camera is there
    last_status,  \* the level the work saw last; static, so it outlives a removal
    driver,       \* "bound", "removing" or "unbound"
    work,         \* the delayed work: "idle", "pending" or where it is
    index, val,   \* its locals
    uevent,       \* an event the listener has not received
    reader,       \* the next element of the listener's read, or Done
    view          \* the cameras the listener believes in

detect_vars == <<gpio, last_status, driver, work, index, val, uevent, reader, view>>

Cameras == 0..(detect_gpio_count - 1)
Done    == detect_gpio_count

DetectInit ==
    /\ gpio \in [Cameras -> BOOLEAN]
    /\ last_status = [i \in Cameras |-> FALSE]
    /\ driver = "unbound"
    /\ work = "idle" /\ index = 0 /\ val = FALSE
    /\ uevent = FALSE /\ reader = Done /\ view = [i \in Cameras |-> FALSE]

\* A camera comes or goes.
Plug ==
    /\ \E i \in Cameras : gpio' = [gpio EXCEPT ![i] = ~@]
    /\ UNCHANGED <<last_status, driver, work, index, val, uevent, reader, view>>

\* sensor_probe and tp9930_sensor_det_init; the listener opens the new attribute.
Probe ==
    /\ driver = "unbound"
    /\ driver' = "bound"
    /\ work' = "pending"
    /\ uevent' = FALSE /\ reader' = 0
    /\ UNCHANGED <<gpio, last_status, index, val, view>>

WorkStart ==
    /\ work = "pending"
    /\ work' = "read" /\ index' = 0
    /\ UNCHANGED <<gpio, last_status, driver, val, uevent, reader, view>>

\* __sensor_insert_detect
WorkRead ==
    /\ work = "read" /\ index # Done
    /\ val' = gpio[index]
    /\ work' = "compare"
    /\ UNCHANGED <<gpio, last_status, driver, index, uevent, reader, view>>

\* Variant: the event is sent before the status is stored.
Change_SendFirst == <<"send", "store">>
\* What is done about a changed level, in this order.
Change == <<"store", "send">>

WorkCompare ==
    /\ work = "compare"
    /\ IF last_status[index] # val
       THEN work' = Change[1] /\ UNCHANGED index
       ELSE work' = "read" /\ index' = index + 1
    /\ UNCHANGED <<gpio, last_status, driver, val, uevent, reader, view>>

\* From one statement of the change to the other, and to the next camera.
GoOn(from) ==
    IF from = Change[1] THEN work' = Change[2] /\ UNCHANGED index
    ELSE work' = "read" /\ index' = index + 1

WorkStore ==
    /\ work = "store"
    /\ last_status' = [last_status EXCEPT ![index] = val]
    /\ GoOn("store")
    /\ UNCHANGED <<gpio, driver, val, uevent, reader, view>>

\* sensor_msg_sent
WorkSend ==
    /\ work = "send"
    /\ uevent' = TRUE
    /\ GoOn("send")
    /\ UNCHANGED <<gpio, last_status, driver, val, reader, view>>

\* Variant: a work that is being cancelled arms itself again.
WorkEnd_Rearms ==
    /\ work = "read" /\ index = Done
    /\ work' = "pending"
    /\ UNCHANGED <<gpio, last_status, driver, index, val, uevent, reader, view>>
\* schedule_delayed_work does nothing while cancel_delayed_work_sync waits.
WorkEnd ==
    /\ work = "read" /\ index = Done
    /\ work' = IF driver = "removing" THEN "idle" ELSE "pending"
    /\ UNCHANGED <<gpio, last_status, driver, index, val, uevent, reader, view>>

\* get_det_status_show, an element at a time.
OnlineShow ==
    /\ reader # Done /\ driver # "unbound"
    /\ view' = [view EXCEPT ![reader] = last_status[reader]]
    /\ reader' = reader + 1
    /\ UNCHANGED <<gpio, last_status, driver, work, index, val, uevent>>

Listen ==
    /\ uevent /\ reader = Done
    /\ uevent' = FALSE /\ reader' = 0
    /\ UNCHANGED <<gpio, last_status, driver, work, index, val, view>>

\* sensor_remove and sensor_shutdown: cancel_delayed_work_sync takes the work off its
\* timer ...
RemoveBegin ==
    /\ driver = "bound"
    /\ driver' = "removing"
    /\ work' = IF work = "pending" THEN "idle" ELSE work
    /\ UNCHANGED <<gpio, last_status, index, val, uevent, reader, view>>

\* Variant: cancel_delayed_work, which does not wait.
RemoveEnd_NoWait ==
    /\ driver = "removing"
    /\ driver' = "unbound" /\ uevent' = FALSE /\ reader' = Done
    /\ UNCHANGED <<gpio, last_status, work, index, val, view>>
\* ... and waits for the run that is on its way; then the attribute goes.
RemoveEnd ==
    /\ driver = "removing" /\ work = "idle"
    /\ driver' = "unbound" /\ uevent' = FALSE /\ reader' = Done
    /\ UNCHANGED <<gpio, last_status, work, index, val, view>>

WorkStep == WorkStart \/ WorkRead \/ WorkCompare \/ WorkStore \/ WorkSend \/ WorkEnd

DetectNext ==
    \/ WorkStep \/ OnlineShow \/ Listen
    \/ Plug \/ Probe \/ RemoveBegin \/ RemoveEnd

DetectSpec == DetectInit /\ [][DetectNext]_detect_vars

\* The worker runs what is due, the listener reads what it was told of, and a removal
\* whose wait is over goes on.  Cameras, probe and the start of a removal owe nothing.
FairSpec ==
    /\ DetectSpec
    /\ WF_detect_vars(WorkStep) /\ WF_detect_vars(OnlineShow) /\ WF_detect_vars(Listen) /\ WF_detect_vars(RemoveEnd)

-----------------------------------------------------------------------------
(* Properties. *)

\* cancel_delayed_work_sync: once the driver is gone the work that uses its data runs no
\* more and is not armed.
RemovalFinal == driver = "unbound" => work = "idle"

\* An event is never early: while none is waiting or about to be sent, whatever the
\* listener has read since the last one is what the work has stored, although it reads
\* the elements one by one while the work changes them.
ViewCurrent ==
    driver # "unbound" /\ ~uevent /\ work # "send"
        => \A i \in Cameras : i < reader => view[i] = last_status[i]

\* sensor_det_work and sensor_remove: the listener gets to know of every camera that stays
\* plugged or unplugged, also of two that change at once, although an event names neither;
\* and a removal ends, although the work it waits for arms itself again.
WorkServes ==
    /\ \A i \in Cameras : \A there \in BOOLEAN :
           <>[](gpio[i] = there /\ driver = "bound") => <>[](view[i] = there)
    /\ driver = "removing" ~> driver = "unbound"
=============================================================================
