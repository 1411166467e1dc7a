---------------------------- MODULE RuntimeBridge ----------------------------
(* The studio's bridge between the GUI thread and the Runtime: calls made on *)
(* the GUI thread become tasks of a thread pool, whose ends come back as     *)
(* events of the GUI's queue; handlers post further events to widgets.       *)
EXTENDS Integers, Sequences, FiniteSets

CONSTANTS
    Paths,          \* connection paths of the devices that are plugged in
    Packages,       \* firmware packages that can be loaded
    MaxBridgeCalls  \* bound on the calls of a behaviour

VARIABLES
    gui,            \* the GUI thread: in its event loop, or blocked in shutdown()
    gqueue,         \* events waiting for it
    bridge,         \* RuntimeBridge::Impl: m_state, m_pendingAsyncTasks, m_discoveredDescriptors, m_flashOperation
    brt,            \* the Runtime: alive, the device connected, the package loaded, its cancel flag
    tasks,          \* the pool's tasks
    widget,         \* what the widgets show: the device list, the flash operation, the Start button
    bcalls          \* calls so far, and the number of the next task

bvars == <<gui, gqueue, bridge, brt, tasks, widget, bcalls>>

NoPath == "nopath"
NothingLoaded == "nopackage"

\* FlashOperationView{}.
NoOperation == [pkg |-> NothingLoaded, status |-> "Idle", canStart |-> FALSE]

\* unloadPlugin() is the one asynchronous call that is not counted.
Counted(kind) == kind # "unload"

\* An event of the GUI's queue: what runs, and with what.
Event(e, x) == [e |-> e, x |-> x]

\* fromCoreDescriptor() of every device found, the connected one marked.
View(paths, connected) == {<<p, p = connected>> : p \in paths}

------------------------------------------------------------------------------
(* Calls on the GUI thread.                                                  *)

CanCall == gui = "loop" /\ bcalls < MaxBridgeCalls /\ bcalls' = bcalls + 1

\* initialize(), by ApplicationController at the start.
initializeBridge ==
    /\ CanCall /\ bridge.state = "Uninitialized"
    /\ \/ /\ brt' = [brt EXCEPT !.alive = TRUE] /\ bridge' = [bridge EXCEPT !.state = "Ready"]
       \/ UNCHANGED <<brt, bridge>>
    /\ UNCHANGED <<gui, gqueue, tasks, widget>>

\* QtConcurrent::run() of one call, counted before it starts.
Async(kind, arg, b, events) ==
    /\ tasks' = tasks \cup {[id |-> bcalls, kind |-> kind, arg |-> arg, begun |-> FALSE]}
    /\ bridge' = [b EXCEPT !.pending = IF Counted(kind) THEN @ + 1 ELSE @]
    /\ gqueue' = gqueue \o events
    /\ UNCHANGED <<gui, brt, widget>>

\* discoverDevices(), connectDevice(), disconnectDevice(), loadFirmwarePackage(),
\* validateFirmware() and unloadPlugin().
Request ==
    /\ CanCall /\ brt.alive
    /\ \/ \E kind \in {"discover", "disconnect", "validate", "unload"} : Async(kind, "", bridge, <<>>)
       \/ \E p \in Paths : Async("connect", p, bridge, <<>>)
       \/ \E p \in Packages : Async("load", p, bridge, <<>>)

\* startFlash(), which only a flash already in the device stops.
startFlash ==
    /\ CanCall /\ brt.alive /\ widget.start /\ bridge.op.status # "Flashing"
    /\ LET op == [bridge.op EXCEPT !.status = "Preparing"]
       IN  Async("flash", "", [bridge EXCEPT !.op = op], <<Event("operation", op)>>)

cancelFlash ==
    /\ CanCall /\ brt.alive /\ bridge.op.status \in {"Flashing", "Preparing"}
    /\ Async("cancel", "", bridge, <<>>)

\* shutdown(), from the main window's closeEvent().
shutdownBridge ==
    /\ CanCall /\ bridge.state \notin {"Uninitialized", "Shutdown"}
    /\ gui' = "closing"
    /\ UNCHANGED <<gqueue, bridge, brt, tasks, widget>>

\* waitForPendingOperations() sleeps until nothing is pending.
NonePending == bridge.pending = 0

\* Mutant: shutdown() does not wait.
DoesNotWait == TRUE

waitForPendingOperations == NonePending

shutdownEnds ==
    /\ gui = "closing" /\ waitForPendingOperations
    /\ gui' = "loop"
    /\ bridge' = [bridge EXCEPT !.state = "Shutdown", !.disc = {}]
    /\ brt' = [brt EXCEPT !.alive = FALSE, !.connected = NoPath, !.pkg = NothingLoaded]
    /\ UNCHANGED <<gqueue, tasks, widget, bcalls>>

------------------------------------------------------------------------------
(* The pool's threads.  A task's end is posted to the GUI's queue.           *)

Ends(t, res) ==
    /\ tasks' = tasks \ {t}
    /\ gqueue' = Append(gqueue, Event("finished", [kind |-> t.kind, arg |-> t.arg, res |-> res]))

\* The flash's task writes m_flashOperation itself before it flashes.
FlashBegins(t) ==
    /\ t.kind = "flash" /\ ~t.begun
    /\ tasks' = (tasks \ {t}) \cup {[t EXCEPT !.begun = TRUE]}
    /\ bridge' = [bridge EXCEPT !.op.status = "Flashing"]
    /\ gqueue' = Append(gqueue, Event("progress", "Flashing"))
    /\ UNCHANGED brt

\* Runtime::flash() fails once Runtime::cancel() has been called.
FlashEnds(t) ==
    /\ t.kind = "flash" /\ t.begun
    /\ \/ ~brt.cancelled /\ brt.connected # NoPath /\ bridge.op.pkg # NothingLoaded /\ Ends(t, TRUE)
       \/ Ends(t, FALSE)
    /\ UNCHANGED <<bridge, brt>>

\* The other tasks: one call of the Runtime each, which may fail.
TaskRuns(t) ==
    /\ t.kind # "flash" /\ UNCHANGED bridge
    /\ \E ok \in BOOLEAN :
          /\ Ends(t, ok)
          /\ brt' = CASE t.kind = "connect" /\ ok -> [brt EXCEPT !.connected = t.arg]
                      [] t.kind = "disconnect" /\ ok -> [brt EXCEPT !.connected = NoPath]
                      [] t.kind = "load" /\ ok -> [brt EXCEPT !.pkg = t.arg]
                      [] t.kind = "cancel" -> [brt EXCEPT !.cancelled = TRUE]
                      [] OTHER -> brt

Pool == \E t \in tasks : (FlashBegins(t) \/ FlashEnds(t) \/ TaskRuns(t)) /\ UNCHANGED <<gui, widget, bcalls>>

------------------------------------------------------------------------------
(* Handlers: what the GUI thread does with the event at the head of its      *)
(* queue.  Each one is given the bridge and returns the bridge and events.   *)

\* updateDeviceListFromRuntime() reads isConnected(), then activeSession(), then the path of
\* that session, none of them under a lock: while the pool connects or disconnects, it may
\* see the old path, a new one or none.  (A session destroyed in between is a dangling
\* pointer, Runtime's NoDanglingSession.)
Changing == {t \in tasks : t.kind \in {"connect", "disconnect"}}
SeenPath == {brt.connected} \cup
        (IF Changing = {} THEN {} ELSE {NoPath} \cup {t.arg : t \in {u \in Changing : u.kind = "connect"}})

updateDeviceList(b, seen) == IF brt.alive THEN <<Event("list", View(b.disc, seen))>> ELSE <<>>

updateFlashOperation(b) == <<Event("operation", b.op)>>

Handled(b, events) == [b |-> b, events |-> events]

onDiscovered(b, x, seen) ==
    LET c == [b EXCEPT !.disc = IF x.res THEN Paths ELSE {}]
    IN  Handled(c, <<Event("list", View(c.disc, NoPath))>> \o updateDeviceList(c, seen))

onConnected(b, x, seen) ==
    Handled(b, (IF x.res THEN <<Event("connected", x.arg)>> ELSE <<Event("signal", "connectionFailed")>>) \o updateDeviceList(b, seen))

\* Mutant: the list is not refreshed.
onDisconnectedQuiet(b, x, seen) == Handled(b, <<Event("signal", "disconnected")>>)

onDisconnected(b, x, seen) == Handled(b, updateDeviceList(b, seen) \o <<Event("signal", "disconnected")>>)

\* m_flashOperation is set by an event of its own, after which nothing shows
\* it: the last operation posted here is the one from before.
onLoaded(b, x) ==
    Handled(b, <<Event("loaded", x), Event("operation", NoOperation), Event("packageLoaded", x.res)>> \o updateFlashOperation(b))

onValidated(b, x) ==
    LET c == [b EXCEPT !.op.canStart = x.res /\ brt.alive /\ brt.connected # NoPath]
    IN  Handled(c, updateFlashOperation(c) \o <<Event("signal", "firmwareValidated")>>)

onFlashed(b, x) ==
    LET c == [b EXCEPT !.op.status = IF x.res THEN "Completed" ELSE "Failed", !.op.canStart = FALSE]
    IN  Handled(c, <<Event("signal", IF x.res THEN "flashCompleted" ELSE "flashFailed")>> \o updateFlashOperation(c)
                       \o <<Event("progress", c.op.status), Event("result", x.res)>>)

\* unloadPlugin() ends: no list of plugins is kept.
onUnloaded(b, x) == Handled(b, IF x.res THEN <<Event("signal", "pluginListChanged")>> ELSE <<Event("signal", "error")>>)

onCancelled(b, x) ==
    LET c == [b EXCEPT !.op.status = "Cancelled", !.op.canStart = TRUE]
    IN  Handled(c, updateFlashOperation(c) \o <<Event("progress", "Cancelled"), Event("flashCancelled", "")>>)

Finished(b, x, seen) ==
    LET h == CASE x.kind = "discover" -> onDiscovered(b, x, seen)
               [] x.kind = "connect" -> onConnected(b, x, seen)
               [] x.kind = "disconnect" -> onDisconnected(b, x, seen)
               [] x.kind = "load" -> onLoaded(b, x)
               [] x.kind = "validate" -> onValidated(b, x)
               [] x.kind = "flash" -> onFlashed(b, x)
               [] x.kind = "cancel" -> onCancelled(b, x)
               [] x.kind = "unload" -> onUnloaded(b, x)
    IN  [h EXCEPT !.b.pending = IF Counted(x.kind) THEN @ - 1 ELSE @]

\* The lambda of loadFirmwarePackage(), when it comes to run.
setOperation(b, x) ==
    IF x.res /\ brt.alive
    THEN IF brt.pkg # NothingLoaded
         THEN [b EXCEPT !.op = [pkg |-> x.arg, status |-> "Idle", canStart |-> brt.connected # NoPath]] ELSE b
    ELSE [b EXCEPT !.op = NoOperation]

\* FlashWidget: updateButtonStates() and the handlers that set the button.
StartEnabled(status) == status \in {"Idle", "Completed", "Cancelled", "Failed"}

\* The widgets' slots.
Shown(w, ev) ==
    CASE ev.e = "list" -> [w EXCEPT !.list = ev.x]
      [] ev.e = "operation" -> [w EXCEPT !.op = ev.x, !.start = StartEnabled(ev.x.status)]
      [] ev.e = "packageLoaded" -> [w EXCEPT !.start = ev.x]
      [] ev.e = "result" -> [w EXCEPT !.start = TRUE, !.label = IF ev.x THEN "completed" ELSE "failed"]
      [] ev.e = "flashCancelled" -> [w EXCEPT !.start = TRUE, !.label = "cancelled"]
      [] OTHER -> w

Dispatch ==
    /\ gui = "loop" /\ gqueue # <<>>
    /\ \E seen \in SeenPath :
       LET ev == Head(gqueue)
           h  == CASE ev.e = "finished" -> Finished(bridge, ev.x, seen)
                   [] ev.e = "connected" -> Handled(bridge, updateDeviceList(bridge, seen))
                   [] ev.e = "loaded" -> Handled(setOperation(bridge, ev.x), <<>>)
                   [] OTHER -> Handled(bridge, <<>>)
       IN  /\ bridge' = h.b
           /\ gqueue' = Tail(gqueue) \o h.events
           /\ widget' = Shown(widget, ev)
    /\ UNCHANGED <<gui, brt, tasks, bcalls>>

------------------------------------------------------------------------------
BInit ==
    /\ gui = "loop" /\ gqueue = <<>> /\ tasks = {} /\ bcalls = 0
    /\ bridge = [state |-> "Uninitialized", pending |-> 0, disc |-> {}, op |-> NoOperation]
    /\ brt = [alive |-> FALSE, connected |-> NoPath, pkg |-> NothingLoaded, cancelled |-> FALSE]
    /\ widget = [list |-> {}, op |-> NoOperation, start |-> TRUE, label |-> ""]

BNext == initializeBridge \/ Request \/ startFlash \/ cancelFlash \/ shutdownBridge \/ shutdownEnds \/ Pool \/ Dispatch

------------------------------------------------------------------------------
(* Correctness.                                                              *)

FinishedEvents == {i \in DOMAIN gqueue : gqueue[i].e = "finished" /\ Counted(gqueue[i].x.kind)}

\* m_pendingAsyncTasks counts the calls whose end has not been handled, so
\* that shutdown() knows when it may take the Runtime away.
PendingIsExact == bridge.pending = Cardinality({t \in tasks : Counted(t.kind)}) + Cardinality(FinishedEvents)

\* No counted task is left when the Runtime it was given is gone.
RuntimeOutlivesTasks == ~brt.alive => \A t \in tasks : ~Counted(t.kind)

\* Once the pool and the queue are empty, the list shown is the one of the
\* devices found, with the mark at the device that is connected: no order of
\* overlapping calls leaves an old list on the screen.
QuietListIsCurrent ==
    tasks = {} /\ gqueue = <<>> /\ bridge.state = "Ready" => widget.list = View(bridge.disc, brt.connected)

BridgeIsSound == PendingIsExact /\ RuntimeOutlivesTasks /\ QuietListIsCurrent

\* What the code does not keep.  The end of a task is handled by the very
\* thread that waits in shutdown(), so closing the window while one is under
\* way never returns; the operation shown after a package is loaded is an old
\* one; a second flash starts while the first runs; an uncounted task is left
\* with a Runtime that is gone.
ShutdownCanEnd == gui = "closing" => NonePending \/ tasks # {}
QuietOperationIsCurrent == tasks = {} /\ gqueue = <<>> => widget.op = bridge.op
OneFlash == Cardinality({t \in tasks : t.kind = "flash"}) <= 1
NoTaskLeft == ~brt.alive => tasks = {}
=============================================================================
