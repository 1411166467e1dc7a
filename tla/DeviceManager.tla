---------------------------- MODULE DeviceManager ----------------------------
(***************************************************************************)
(* The session layer: DeviceManager (session/DeviceManager.cpp) with the   *)
(* DeviceSession objects it owns (session/DeviceSession.cpp), used by      *)
(* several threads.                                                        *)
(*                                                                         *)
(* A call is a list of session operations still to do (todo) and the place *)
(* in the first of them (at); an operation is cut at every access to the   *)
(* atomics m_state and m_cancelled and at every call of the flash device.  *)
(* m_sessionsMutex makes every access to the list one step.  The device is *)
(* external.  Statistics, history, log and observers only report.          *)
(***************************************************************************)
EXTENDS Integers, Sequences, FiniteSets, SequencesExt

CONSTANTS
    Sessions,     \* the session objects that may come to be
    Threads,
    Kinds,        \* busy states of the operations clients use
    Disciplined,  \* clients serialise the calls on a session, other than cancel(),
                  \* and let none overlap its removal
    MaxCalls      \* bound on the calls of all threads

BusyStates == {"Reading", "Writing", "Erasing", "Resetting"}

ASSUME SessionAssumption ==
    /\ Kinds \subseteq BusyStates /\ Disciplined \in BOOLEAN /\ MaxCalls \in Nat

VARIABLES
    list,    \* m_sessions
    where,   \* where[s]: "none", "listed", "leaving" (out of the list) or "gone" (destroyed)
    st,      \* st[s]: m_state
    flag,    \* flag[s]: m_cancelled
    dev,     \* dev[s]: the flash device is "closed", "open", or "reset" (transport left open)
    todo,    \* todo[t]: the session operations the call of thread t has still to do
    at,      \* at[t]: the next step of the first of them
    ptr,     \* ptr[t]: the session pointers thread t was given
    barred,  \* history: barred[s]: a cancel() no connect() overlapped, and no connect() after it
    calls

svars == <<st, flag, dev>>
dvars  == <<list, where, st, flag, dev, todo, at, ptr, barred, calls>>

States == BusyStates \cup {"Disconnected", "Connecting", "Ready", "Error", "Cancelled"}

\* isConnected() and isBusy(), as far as their states are ever set.
Connected == {"Ready", "Reading", "Writing", "Erasing"}
Busy      == BusyStates
Terminal  == {"Error", "Cancelled"}

Ops == [op : {"connect", "reconnect", "disconnect", "cancel", "free", "create"} \cup Kinds, s : Sessions]

Do(op, s) == [op |-> op, s |-> s]
Each(op, seq) == [k \in DOMAIN seq |-> Do(op, seq[k])]

DInit ==
    /\ list = <<>>
    /\ where = [s \in Sessions |-> "none"]
    /\ st = [s \in Sessions |-> "Disconnected"]
    /\ flag = [s \in Sessions |-> FALSE]
    /\ dev = [s \in Sessions |-> "closed"]
    /\ todo = [t \in Threads |-> <<>>]
    /\ at = [t \in Threads |-> "begin"]
    /\ ptr = [t \in Threads |-> {}]
    /\ barred = [s \in Sessions |-> FALSE]
    /\ calls = 0

------------------------------------------------------------------------------
(* The steps of the operations of one DeviceSession.                       *)

\* The operation at hand is over; the next one of the call begins, or the call
\* is over as well.
Done(t)  == todo' = [todo EXCEPT ![t] = Tail(@)] /\ at' = [at EXCEPT ![t] = "begin"]
\* It failed, and so does the call.
Fail(t)  == todo' = [todo EXCEPT ![t] = <<>>] /\ at' = [at EXCEPT ![t] = "begin"]
Goto(t, label) == at' = [at EXCEPT ![t] = label] /\ UNCHANGED todo

At(t, ops, label) == todo[t] # <<>> /\ Head(todo[t]).op \in ops /\ at[t] = label
It(t) == Head(todo[t]).s

Keep == UNCHANGED <<list, where, ptr, calls>>

setState(s, new) == st' = [st EXCEPT ![s] = new]

\* connect(); "reconnect" is the connect() of a reconnect().
Connecting == {"connect", "reconnect"}

connectTest(t) ==
    /\ At(t, Connecting, "begin")
    /\ LET s == It(t) IN
       /\ IF st[s] \in {"Ready", "Connected"} THEN Done(t)
          ELSE IF st[s] \in Terminal THEN Fail(t)
          ELSE Goto(t, "clear")
       /\ barred' = [barred EXCEPT ![s] = @ /\ st[s] \in {"Ready", "Connected"} \cup Terminal]
    /\ UNCHANGED svars /\ Keep

connectClear(t) ==
    /\ At(t, Connecting, "clear")
    /\ flag' = [flag EXCEPT ![It(t)] = FALSE]
    /\ Goto(t, "connecting")
    /\ UNCHANGED <<st, dev, barred>> /\ Keep

connectState(t) ==
    /\ At(t, Connecting, "connecting")
    /\ setState(It(t), "Connecting")
    /\ Goto(t, "open")
    /\ UNCHANGED <<flag, dev, barred>> /\ Keep

\* The adapter's open(): nothing to do when it is open, an error when its
\* transport still is, else up to the device.
connectOpen(t) ==
    /\ At(t, Connecting, "open")
    /\ LET s == It(t) IN
       \/ /\ dev[s] # "reset"
          /\ dev' = [dev EXCEPT ![s] = "open"]
          /\ Goto(t, "ready")
       \/ /\ dev[s] # "open"
          /\ Goto(t, "error") /\ UNCHANGED dev
    /\ UNCHANGED <<st, flag, barred>> /\ Keep

connectEnd(t) ==
    /\ \/ At(t, Connecting, "ready") /\ setState(It(t), "Ready") /\ Done(t)
       \/ At(t, Connecting, "error") /\ setState(It(t), "Error") /\ Fail(t)
    /\ UNCHANGED <<flag, dev, barred>> /\ Keep

\* Mutant: disconnect() has nothing to do in any state that ends a session.
settledAllTerminal(s) == st[s] \in {"Disconnected", "Error"}

settled(s) == st[s] = "Disconnected"

disconnectTest(t) ==
    /\ At(t, {"disconnect"}, "begin")
    /\ IF settled(It(t)) THEN Done(t) ELSE Goto(t, "flag")
    /\ UNCHANGED <<svars, barred>> /\ Keep

disconnectFlag(t) ==
    /\ At(t, {"disconnect"}, "flag")
    /\ flag' = [flag EXCEPT ![It(t)] = TRUE]
    /\ Goto(t, "close")
    /\ UNCHANGED <<st, dev, barred>> /\ Keep

\* Mutant: a device that says it is not open is not closed.
disconnectCloseIfOpen(t) ==
    /\ At(t, {"disconnect"}, "close")
    /\ dev' = [dev EXCEPT ![It(t)] = IF @ = "open" THEN "closed" ELSE @]
    /\ Goto(t, "state")
    /\ UNCHANGED <<st, flag, barred>> /\ Keep

disconnectClose(t) ==
    /\ At(t, {"disconnect"}, "close")
    /\ dev' = [dev EXCEPT ![It(t)] = "closed"]
    /\ Goto(t, "state")
    /\ UNCHANGED <<st, flag, barred>> /\ Keep

disconnectState(t) ==
    /\ At(t, {"disconnect"}, "state")
    /\ setState(It(t), "Disconnected")
    /\ Done(t)
    /\ UNCHANGED <<flag, dev, barred>> /\ Keep

\* cancel(); the device's own cancel() makes its operation fail, which it may
\* do anyway.
connectingTo(s) ==
    \E u \in Threads : todo[u] # <<>> /\ Head(todo[u]).op \in Connecting /\ It(u) = s /\ at[u] # "begin"

cancelFlag(t) ==
    /\ At(t, {"cancel"}, "begin")
    /\ flag' = [flag EXCEPT ![It(t)] = TRUE]
    /\ barred' = [barred EXCEPT ![It(t)] = @ \/ ~connectingTo(It(t))]
    /\ Goto(t, "state")
    /\ UNCHANGED <<st, dev>> /\ Keep

cancelState(t) ==
    /\ At(t, {"cancel"}, "state")
    /\ setState(It(t), "Cancelled")
    /\ Done(t)
    /\ UNCHANGED <<flag, dev, barred>> /\ Keep

\* Mutant: the test of m_cancelled relies on the state.
checkCancelledByState(s) == st[s] = "Cancelled"

checkCancelled(s) == flag[s]

\* executeWithStateCheck() and executeReadWithStateCheck().
executeCancelled(t) ==
    /\ At(t, Kinds, "begin")
    /\ IF checkCancelled(It(t)) THEN setState(It(t), "Cancelled") /\ Fail(t)
       ELSE UNCHANGED st /\ Goto(t, "check")
    /\ UNCHANGED <<flag, dev, barred>> /\ Keep

executeCheck(t) ==
    /\ At(t, Kinds, "check")
    /\ IF st[It(t)] \in Connected \ Busy THEN Goto(t, "busy") ELSE Fail(t)
    /\ UNCHANGED <<svars, barred>> /\ Keep

executeBusy(t) ==
    /\ At(t, Kinds, "busy")
    /\ setState(It(t), Head(todo[t]).op)
    /\ Goto(t, "device")
    /\ UNCHANGED <<flag, dev, barred>> /\ Keep

\* The operation of the adapter: refused unless it is open; a reset() that
\* succeeds leaves the adapter closed and its transport open.
executeDevice(t) ==
    /\ At(t, Kinds, "device")
    /\ LET s == It(t) IN
       \/ /\ dev[s] = "open"
          /\ dev' = [dev EXCEPT ![s] = IF Head(todo[t]).op = "Resetting" THEN "reset" ELSE @]
          /\ Goto(t, "ready")
       \/ UNCHANGED dev /\ Goto(t, "error")
    /\ UNCHANGED <<st, flag, barred>> /\ Keep

executeEnd(t) ==
    /\ \/ At(t, Kinds, "ready") /\ setState(It(t), "Ready") /\ Done(t)
       \/ At(t, Kinds, "error") /\ setState(It(t), "Error") /\ Fail(t)
    /\ UNCHANGED <<flag, dev, barred>> /\ Keep

\* The last of the destructor, after its disconnect().
free(t) ==
    /\ At(t, {"free"}, "begin")
    /\ where' = [where EXCEPT ![It(t)] = "gone"]
    /\ Done(t)
    /\ UNCHANGED <<list, svars, ptr, barred, calls>>

------------------------------------------------------------------------------
(* Calls.                                                                  *)

Idle(t) == todo[t] = <<>>

Mentions(t, S) == \E k \in DOMAIN todo[t] : todo[t][k].s \in S

\* Nobody else works on the sessions S (other than cancelling, unless strict).
Alone(t, S, strict) ==
    Disciplined => \A u \in Threads \ {t} :
        ~\E k \in DOMAIN todo[u] : todo[u][k].s \in S /\ (strict \/ todo[u][k].op # "cancel")

Enter(t, ops) ==
    /\ Idle(t) /\ calls < MaxCalls
    /\ calls' = calls + 1
    /\ todo' = [todo EXCEPT ![t] = ops]
    /\ at' = [at EXCEPT ![t] = "begin"]

\* A pointer the client may use: with discipline only while the session is listed.
Usable(t, s) == s \in ptr[t] /\ (Disciplined => where[s] = "listed")

sessionCall(t, s) ==
    /\ Usable(t, s)
    /\ \/ /\ Alone(t, {s}, FALSE)
          /\ \/ Enter(t, <<Do("connect", s)>>)
             \/ Enter(t, <<Do("disconnect", s)>>)                         \* also reset()
             \/ Enter(t, <<Do("disconnect", s), Do("reconnect", s)>>)     \* reconnect()
             \/ \E k \in Kinds : Enter(t, <<Do(k, s)>>)
       \/ Enter(t, <<Do("cancel", s)>>)
    /\ UNCHANGED <<list, where, svars, ptr, barred>>

\* retry(): reconnect(), in Error only.
retry(t, s) ==
    /\ Usable(t, s) /\ Alone(t, {s}, FALSE)
    /\ st[s] = "Error"
    /\ Enter(t, <<Do("disconnect", s), Do("reconnect", s)>>)
    /\ UNCHANGED <<list, where, svars, ptr, barred>>

Fresh == {s \in Sessions : where[s] = "none" /\ \A t \in Threads : ~Mentions(t, {s})}

\* createSession() and discoverAndCreate(): the sessions the factory makes for
\* the descriptors, added one by one; a descriptor without a protocol is an
\* error, or skipped.
create(t) ==
    /\ \E n \in 0..Cardinality(Fresh) : \E new \in [1..n -> Fresh] :
          IsInjective(new) /\ Enter(t, Each("create", new))
    /\ UNCHANGED <<list, where, svars, ptr, barred>>

add(t) ==
    /\ At(t, {"create"}, "begin")
    /\ list' = Append(list, It(t))
    /\ where' = [where EXCEPT ![It(t)] = "listed"]
    /\ ptr' = [ptr EXCEPT ![t] = @ \cup {It(t)}]
    /\ Done(t)
    /\ UNCHANGED <<svars, barred, calls>>

\* findByState(), activeSessions(), and findById() with the other searches by
\* what does not change.
findByState(x) == {s \in Range(list) : st[s] = x}
activeSessions == {s \in Range(list) : st[s] \in Connected}

find(t) ==
    /\ Idle(t) /\ calls < MaxCalls /\ calls' = calls + 1
    /\ ptr' \in {[ptr EXCEPT ![t] = S] :
                    S \in {findByState(x) : x \in States} \cup {activeSessions} \cup SUBSET Range(list)}
    /\ UNCHANGED <<list, where, svars, todo, at, barred>>

\* The destruction of sessions taken out of the list: ~DeviceSession().
Destroy(seq) == [k \in 1..(2 * Len(seq)) |-> Do(IF k % 2 = 1 THEN "disconnect" ELSE "free", seq[(k + 1) \div 2])]

removeSession(t, s) ==
    /\ Alone(t, {s}, TRUE)
    /\ \E k \in DOMAIN list : list[k] = s /\ (\A j \in 1..(k - 1) : list[j] # s) /\ list' = RemoveAt(list, k)
    /\ where' = [where EXCEPT ![s] = "leaving"]
    /\ Enter(t, <<Do("disconnect", s)>> \o Destroy(<<s>>))
    /\ UNCHANGED <<svars, ptr, barred>>

removeAll(t) ==
    /\ Alone(t, Range(list), TRUE)
    /\ list' = <<>>
    /\ where' = [s \in Sessions |-> IF s \in Range(list) THEN "leaving" ELSE where[s]]
    /\ Enter(t, Each("disconnect", list) \o Destroy(list))
    /\ UNCHANGED <<svars, ptr, barred>>

\* connectAll(), disconnectAll() and reconnectAll() go over the pointers they
\* copied, after m_sessionsMutex is released.
bulk(t) ==
    /\ Alone(t, Range(list), FALSE)
    /\ \/ Enter(t, Each("connect", list))
       \/ Enter(t, Each("disconnect", list))
       \/ Enter(t, Each("disconnect", list) \o Each("reconnect", list))
    /\ UNCHANGED <<list, where, svars, ptr, barred>>

ThreadCalls(t) ==
    \/ create(t) \/ find(t) \/ removeAll(t) \/ bulk(t)
    \/ \E s \in Sessions : sessionCall(t, s) \/ retry(t, s) \/ removeSession(t, s)

Step(t) ==
    \/ connectTest(t) \/ connectClear(t) \/ connectState(t) \/ connectOpen(t) \/ connectEnd(t)
    \/ disconnectTest(t) \/ disconnectFlag(t) \/ disconnectClose(t) \/ disconnectState(t)
    \/ cancelFlag(t) \/ cancelState(t)
    \/ executeCancelled(t) \/ executeCheck(t) \/ executeBusy(t) \/ executeDevice(t) \/ executeEnd(t)
    \/ free(t) \/ add(t)

DNext == \E t \in Threads : ThreadCalls(t) \/ Step(t)

DSpec == DInit /\ [][DNext]_dvars

------------------------------------------------------------------------------
(* Properties.                                                             *)

\* Every variable has its type.
DTypeOK ==
    /\ Range(list) \subseteq Sessions
    /\ where \in [Sessions -> {"none", "listed", "leaving", "gone"}]
    /\ st \in [Sessions -> States]
    /\ flag \in [Sessions -> BOOLEAN] /\ barred \in [Sessions -> BOOLEAN]
    /\ dev \in [Sessions -> {"closed", "open", "reset"}]
    /\ \A t \in Threads : Range(todo[t]) \subseteq Ops
    /\ ptr \in [Threads -> SUBSET Sessions]
    /\ calls \in 0..MaxCalls

\* A destroyed session has left its device closed, and its transport with it,
\* whatever it was doing, had failed at or was cancelled in.
RemovedIsClosed == \A s \in Sessions : where[s] = "gone" => dev[s] = "closed"

\* The open() of a reconnect() or retry() never finds the device as an earlier
\* failure, cancel or reset left it: every session can be brought back.
ReconnectOpensClosed ==
    \A t \in Threads : At(t, {"reconnect"}, "open") => dev[It(t)] = "closed"

\* Sessions end closed, and can be brought back from wherever they got to.
SessionsAreSound == RemovedIsClosed /\ ReconnectOpensClosed

\* After a cancel() that no connect() overlapped, no operation gets past its
\* check, whatever the operation it interrupted stores as the state, until a
\* connect() begins.
CancelHolds ==
    [][\A t \in Threads : (At(t, Kinds, "begin") /\ at'[t] = "check") => ~barred[It(t)]]_dvars

\* docs/developer/ThreadSafety.md:47, DeviceManager: thread-safe, line 11, "All
\* operations safe from any thread without external synchronization": no call
\* of the manager reaches a session that another one has destroyed.
NoDanglingUse == \A t \in Threads : todo[t] # <<>> => where[It(t)] # "gone"
==============================================================================
