---------------------------- MODULE RuntimeProofs ----------------------------
(***************************************************************************)
(* Proofs about the Runtime, the studio's bridge and the command line      *)
(* above it and the transports below it, in four parts.                    *)
(*                                                                         *)
(* First, that the connections of the Runtime are sound, for any number of *)
(* threads, sessions and calls, in any order: clients need no discipline.  *)
(* ConnectionsAreSound is not inductive.  That a connection keeps its      *)
(* session needs to know which calls hold opMutex where (Safe); that the   *)
(* counts add up, which threads are yet to count (AddsUp): a connect() or  *)
(* disconnect() counts in its hooks, after it has left the mutex.          *)
(***************************************************************************)
EXTENDS Runtime, RuntimeBridge, Transport, CommandLine, FiniteSetTheorems, SequenceTheorems, TLAPS

Points == {"idle", "lock", "test", "body", "opening", "use", "exec", "prepare", "running", "hooks",
           "notify", "stop", "resetDev", "resetWf", "cancelWf"} \cup Controls \cup Watching
Results == {"ok", "error", "cancelled"}
Names   == Locked \cup Unlocked \cup Controls \cup Watching \cup {"none"}
Frames  == [pc : Points, call : Names, link : Links \cup {NoOne}, res : Results, copied : SUBSET Watchers]

\* The state of the runtime and of its callers.
RTypes ==
    /\ th \in [Callers -> Frames] /\ observers \in SUBSET Watchers
    /\ active \in Links \cup {NoOne} /\ owned \in SUBSET Links
    /\ stats \in [conn : Nat, disc : Nat] /\ dropped \in Nat

\* The session of a connection is there.
Owned ==
    /\ connected => active \in owned
    /\ active # NoOne => active \in owned

\* A call is only where its code goes.
Fits(f) ==
    /\ f.pc \in {"exec", "prepare", "running"} => f.call \in Flashing
    /\ f.pc = "use" => f.call \in {"memory", "backup"}
    /\ f.pc \in {"disconnect", "resetDev"} => f.call \in {"disconnect", "reset"}
    /\ f.pc = "reset" => f.call = "reset"
    /\ f.pc = "opening" => f.call = "connect"
    /\ f.pc = "lock" => f.link = NoOne

\* What thread t can rely on.
Safe(t) ==
    /\ Fits(th[t])
    /\ opMutex = t /\ th[t].link # NoOne => th[t].link \in owned
    /\ th[t].call = "connect" /\ th[t].pc \in {"test", "body", "opening"} => opMutex = t
    /\ th[t].pc = "opening" => ~ connected /\ th[t].link \in owned

\* Threads that have connected or disconnected, and not counted it.
WillCount(f)   == f.pc = "hooks" /\ f.call = "connect" /\ f.res = "ok"
WillUncount(f) == f.pc = "hooks" /\ f.call \in {"disconnect", "reset"}
Connects    == {t \in Callers : WillCount(th[t])}
Disconnects == {t \in Callers : WillUncount(th[t])}

AddsUp ==
    stats.conn + Cardinality(Connects)
      = stats.disc + Cardinality(Disconnects) + dropped + (IF connected THEN 1 ELSE 0)

\* The inductive invariant of the runtime.
RInv == RTypes /\ Owned /\ (\A t \in Callers : Safe(t)) /\ AddsUp

------------------------------------------------------------------------------
\* Nothing is connected, and no thread is in a call.
LEMMA RuntimeStarts == RInit => RInv
  <1> SUFFICES ASSUME RInit PROVE RInv
    OBVIOUS
  <1>1. Quiet \in Frames
    BY DEF Quiet, Frames, Points, Names, Results
  <1>2. RTypes /\ Owned
    BY <1>1 DEF RInit, RTypes, Owned
  <1>3. \A t \in Callers : Safe(t)
    BY RuntimeAssumption DEF RInit, Safe, Fits, Quiet
  <1>4. Connects = {} /\ Disconnects = {}
    BY DEF RInit, Connects, Disconnects, WillCount, WillUncount, Quiet
  <1>5. AddsUp
    BY <1>4, FS_EmptySet DEF RInit, AddsUp
  <1> QED BY <1>2, <1>3, <1>5 DEF RInv

\* A step of thread t moves only its own call.
Moved(t) == \A u \in Callers \ {t} : th'[u] = th[u]

\* to() moves the call of its thread, and keeps what the call is.
LEMMA ToMoves ==
  ASSUME RTypes, NEW t \in Callers, NEW p \in Points, NEW r \in Results, NEW l \in Links \cup {NoOne},
         to(t, p, r, l)
  PROVE  /\ th' \in [Callers -> Frames] /\ Moved(t)
         /\ p = "idle" => th'[t] = Quiet
         /\ p # "idle" => /\ th'[t].pc = p /\ th'[t].res = r /\ th'[t].link = l
                          /\ th'[t].call = th[t].call
  <1>1. Quiet \in Frames
    BY DEF Quiet, Frames, Points, Names, Results
  <1>2. th[t] \in Frames /\ th \in [Callers -> Frames]
    BY DEF RTypes
  <1>3. [th[t] EXCEPT !.pc = p, !.res = r, !.link = l] \in Frames
    BY <1>2 DEF Frames
  <1>4. th' = [th EXCEPT ![t] = IF p = "idle" THEN Quiet ELSE [th[t] EXCEPT !.pc = p, !.res = r, !.link = l]]
    BY DEF to
  <1>5. th' \in [Callers -> Frames] /\ Moved(t)
    BY <1>1, <1>2, <1>3, <1>4 DEF Moved
  <1>6. p = "idle" => th'[t] = Quiet
    BY <1>2, <1>4
  <1>7. p # "idle" => th'[t] = [th[t] EXCEPT !.pc = p, !.res = r, !.link = l]
    BY <1>2, <1>4
  <1>8. p # "idle" => /\ th'[t].pc = p /\ th'[t].res = r /\ th'[t].link = l
                      /\ th'[t].call = th[t].call
    BY <1>2, <1>7 DEF Frames
  <1> QED BY <1>5, <1>6, <1>8

\* A thread stays safe through the step of another one that takes or leaves the
\* mutex only for itself, lets sessions go only while the mutex is free, and
\* connects only while it holds the mutex.
LEMMA OthersStaySafe ==
  ASSUME NEW t \in Callers, NEW u \in Callers \ {t}, Safe(u), th'[u] = th[u],
         \/ opMutex' = opMutex
         \/ opMutex = t /\ opMutex' = NoOne
         \/ opMutex = NoOne /\ opMutex' = t,
         owned \subseteq owned' \/ opMutex = NoOne,
         connected' = connected \/ connected' = FALSE \/ opMutex = t
  PROVE  Safe(u)'
  <1>1. u # NoOne /\ t # NoOne
    BY RuntimeAssumption
  <1>2. Fits(th[u])'
    BY DEF Safe, Fits
  <1>3. opMutex' = u => opMutex = u
    BY <1>1
  <1>4. opMutex = u => opMutex' = u /\ owned \subseteq owned' /\ (connected' = connected \/ connected' = FALSE)
    BY <1>1
  <1>5. (opMutex = u /\ th[u].link # NoOne => th[u].link \in owned)'
    BY <1>3, <1>4 DEF Safe
  <1>6. (th[u].call = "connect" /\ th[u].pc \in {"test", "body", "opening"} => opMutex = u)'
    BY <1>4 DEF Safe
  <1>7. th[u].pc = "opening" => opMutex = u /\ ~ connected /\ th[u].link \in owned
    BY DEF Safe, Fits
  <1>8. (th[u].pc = "opening" => ~ connected /\ th[u].link \in owned)'
    BY <1>4, <1>7
  <1> QED BY <1>2, <1>5, <1>6, <1>8 DEF Safe

\* The threads yet to count are finitely many.
LEMMA PendingFinite ==
  /\ IsFiniteSet(Connects) /\ Cardinality(Connects) \in Nat
  /\ IsFiniteSet(Disconnects) /\ Cardinality(Disconnects) \in Nat
  <1>1. Connects \in SUBSET Callers /\ Disconnects \in SUBSET Callers
    BY DEF Connects, Disconnects
  <1>2. IsFiniteSet(Connects) /\ IsFiniteSet(Disconnects)
    BY <1>1, FS_Subset, RuntimeAssumption
  <1> QED BY <1>2, FS_CardinalityType

\* The step of one thread changes who is yet to count by that thread at most.
LEMMA ConnectsMove ==
  ASSUME NEW t \in Callers, Moved(t)
  PROVE  /\ (WillCount(th[t])' <=> WillCount(th[t])) => Connects' = Connects
         /\ WillCount(th[t])' /\ ~ WillCount(th[t]) => Cardinality(Connects)' = Cardinality(Connects) + 1
         /\ ~ WillCount(th[t])' /\ WillCount(th[t]) => Cardinality(Connects)' = Cardinality(Connects) - 1
  <1>1. \A u \in Callers \ {t} : u \in Connects' <=> u \in Connects
    BY DEF Moved, Connects, WillCount
  <1>2. (t \in Connects <=> WillCount(th[t])) /\ (t \in Connects' <=> WillCount(th[t])')
    BY DEF Connects
  <1>3. Connects \subseteq Callers /\ Connects' \subseteq Callers
    BY DEF Connects
  <1>4. (WillCount(th[t])' <=> WillCount(th[t])) => Connects' = Connects
    BY <1>1, <1>2, <1>3
  <1>5. WillCount(th[t])' /\ ~ WillCount(th[t]) => Connects' = Connects \cup {t} /\ t \notin Connects
    BY <1>1, <1>2, <1>3
  <1>6. ~ WillCount(th[t])' /\ WillCount(th[t]) => Connects' = Connects \ {t} /\ t \in Connects
    BY <1>1, <1>2, <1>3
  <1>7. Cardinality(Connects \cup {t}) = IF t \in Connects THEN Cardinality(Connects) ELSE Cardinality(Connects) + 1
    BY PendingFinite, FS_AddElement
  <1>8. Cardinality(Connects \ {t}) = IF t \in Connects THEN Cardinality(Connects) - 1 ELSE Cardinality(Connects)
    BY PendingFinite, FS_RemoveElement
  <1> QED BY <1>4, <1>5, <1>6, <1>7, <1>8

\* The same of disconnections.
LEMMA DisconnectsMove ==
  ASSUME NEW t \in Callers, Moved(t)
  PROVE  /\ (WillUncount(th[t])' <=> WillUncount(th[t])) => Disconnects' = Disconnects
         /\ WillUncount(th[t])' /\ ~ WillUncount(th[t]) => Cardinality(Disconnects)' = Cardinality(Disconnects) + 1
         /\ ~ WillUncount(th[t])' /\ WillUncount(th[t]) => Cardinality(Disconnects)' = Cardinality(Disconnects) - 1
  <1>1. \A u \in Callers \ {t} : u \in Disconnects' <=> u \in Disconnects
    BY DEF Moved, Disconnects, WillUncount
  <1>2. (t \in Disconnects <=> WillUncount(th[t])) /\ (t \in Disconnects' <=> WillUncount(th[t])')
    BY DEF Disconnects
  <1>3. Disconnects \subseteq Callers /\ Disconnects' \subseteq Callers
    BY DEF Disconnects
  <1>4. (WillUncount(th[t])' <=> WillUncount(th[t])) => Disconnects' = Disconnects
    BY <1>1, <1>2, <1>3
  <1>5. WillUncount(th[t])' /\ ~ WillUncount(th[t]) => Disconnects' = Disconnects \cup {t} /\ t \notin Disconnects
    BY <1>1, <1>2, <1>3
  <1>6. ~ WillUncount(th[t])' /\ WillUncount(th[t]) => Disconnects' = Disconnects \ {t} /\ t \in Disconnects
    BY <1>1, <1>2, <1>3
  <1>7. Cardinality(Disconnects \cup {t})
          = IF t \in Disconnects THEN Cardinality(Disconnects) ELSE Cardinality(Disconnects) + 1
    BY PendingFinite, FS_AddElement
  <1>8. Cardinality(Disconnects \ {t})
          = IF t \in Disconnects THEN Cardinality(Disconnects) - 1 ELSE Cardinality(Disconnects)
    BY PendingFinite, FS_RemoveElement
  <1> QED BY <1>4, <1>5, <1>6, <1>7, <1>8

------------------------------------------------------------------------------
\* Most steps move a call on and have no part in connections: they keep or leave the
\* mutex and touch neither sessions nor counts.
Bystanding(t) ==
    /\ opMutex' = opMutex \/ (opMutex = t /\ opMutex' = NoOne)
    /\ UNCHANGED <<connected, active, owned, stats, dropped>>
    /\ observers' \in SUBSET Watchers

\* Such a step keeps the invariant if its own thread stays safe and is not one that
\* is, or comes to be, yet to count.
LEMMA BystanderStep ==
  ASSUME RInv, NEW t \in Callers, Bystanding(t), th' \in [Callers -> Frames], Moved(t), Safe(t)',
         WillCount(th[t])' <=> WillCount(th[t]), WillUncount(th[t])' <=> WillUncount(th[t])
  PROVE  RInv'
  <1>1. RTypes'
    BY DEF RInv, RTypes, Bystanding
  <1>2. Owned'
    BY DEF RInv, Owned, Bystanding
  <1>3. ASSUME NEW u \in Callers PROVE Safe(u)'
    <2>1. CASE u = t
      BY <2>1
    <2>2. CASE u # t
      <3>1. u \in Callers \ {t} /\ Safe(u) /\ th'[u] = th[u]
        BY <2>2 DEF RInv, Moved
      <3>2. /\ opMutex' = opMutex \/ (opMutex = t /\ opMutex' = NoOne)
            /\ owned' = owned /\ connected' = connected
        BY DEF Bystanding
      <3> QED BY <3>1, <3>2, OthersStaySafe
    <2> QED BY <2>1, <2>2
  <1>4. Connects' = Connects /\ Disconnects' = Disconnects
    BY ConnectsMove, DisconnectsMove
  <1>5. AddsUp'
    BY <1>4 DEF RInv, AddsUp, Bystanding
  <1> QED BY <1>1, <1>2, <1>3, <1>5 DEF RInv

\* The same of a step that goes on with to(): at p, where the call may be, with a
\* session that is owned if the thread holds the mutex.
LEMMA ToStep ==
  ASSUME RInv, NEW t \in Callers, NEW p \in Points, NEW r \in Results, NEW l \in Links \cup {NoOne},
         to(t, p, r, l), Bystanding(t),
         ~ WillCount(th[t]) /\ ~ WillUncount(th[t]),
         p \in {"exec", "prepare", "running"} => th[t].call \in Flashing,
         p = "use" => th[t].call \in {"memory", "backup"},
         p \in {"disconnect", "resetDev"} => th[t].call \in {"disconnect", "reset"},
         p \notin {"opening", "lock", "reset"},
         opMutex' = t /\ l # NoOne => l \in owned,
         p \in {"test", "body"} /\ th[t].call = "connect" => opMutex' = t,
         p = "hooks" => /\ th[t].call \notin {"disconnect", "reset"}
                        /\ th[t].call = "connect" => r # "ok"
  PROVE  RInv'
  <1>1. RTypes
    BY DEF RInv
  <1>2. /\ th' \in [Callers -> Frames] /\ Moved(t)
        /\ p = "idle" => th'[t] = Quiet
        /\ p # "idle" => /\ th'[t].pc = p /\ th'[t].res = r /\ th'[t].link = l
                         /\ th'[t].call = th[t].call
    BY <1>1, ToMoves
  <1>3. owned' = owned
    BY DEF Bystanding
  <1>4. CASE p = "idle"
    <2>1. Safe(t)'
      BY <1>2, <1>4 DEF Safe, Fits, Quiet
    <2>2. ~ WillCount(th[t])' /\ ~ WillUncount(th[t])'
      BY <1>2, <1>4 DEF WillCount, WillUncount, Quiet
    <2> QED BY <1>2, <2>1, <2>2, BystanderStep
  <1>5. CASE p # "idle"
    <2>1. Safe(t)'
      BY <1>2, <1>3, <1>5 DEF Safe, Fits
    <2>2. ~ WillCount(th[t])' /\ ~ WillUncount(th[t])'
      BY <1>2, <1>5 DEF WillCount, WillUncount
    <2> QED BY <1>2, <2>1, <2>2, BystanderStep
  <1> QED BY <1>4, <1>5

\* A call that returns without having connected anything.
LEMMA LeaveStep ==
  ASSUME RInv, NEW t \in Callers, NEW r \in Results, leave(t, r),
         UNCHANGED <<connected, active, owned, stats, dropped, observers>>,
         ~ WillCount(th[t]) /\ ~ WillUncount(th[t]),
         th[t].call = "connect" => r # "ok"
  PROVE  RInv'
  <1> DEFINE p == IF th[t].call \in Orchestrated THEN "hooks" ELSE "idle"
  <1>1. /\ p \in Points /\ p \in {"hooks", "idle"}
        /\ p = "hooks" => th[t].call \notin {"disconnect", "reset"}
    BY DEF Points, Orchestrated
  <1>2. to(t, p, r, NoOne)
    BY DEF leave, In
  <1>3. Bystanding(t)
    BY DEF leave, unlock, Bystanding, RInv, RTypes
  <1> HIDE DEF p
  <1> QED BY <1>1, <1>2, <1>3, ToStep

------------------------------------------------------------------------------
\* The fields of a call have their types.
LEMMA FrameFields ==
  ASSUME RInv, NEW t \in Callers
  PROVE  /\ th[t].pc \in Points /\ th[t].call \in Names /\ th[t].res \in Results
         /\ th[t].link \in Links \cup {NoOne} /\ th[t].copied \in SUBSET Watchers
         /\ th[t] \in Frames /\ Safe(t) /\ observers \in SUBSET Watchers
  BY DEF RInv, RTypes, Frames

\* A client calls: nothing of its own is connected or counted yet.
LEMMA EnterStep == ASSUME RInv, NEW t \in Callers, enter(t) PROVE RInv'
  <1>1. PICK c \in Calls :
          LET p == IF c \in Watching \cup Controls THEN c
                   ELSE IF c = "workflow" THEN "exec"
                   ELSE IF ~ initialized THEN (IF c \in Orchestrated THEN "hooks" ELSE "idle")
                   ELSE IF Mode(c) = "Exclusive" THEN "lock" ELSE "test"
              r == IF c \in Locked \cup Unlocked /\ ~ initialized THEN "error" ELSE "ok"
          IN th' = [th EXCEPT ![t] = IF p = "idle" THEN @ ELSE [Quiet EXCEPT !.pc = p, !.call = c, !.res = r]]
    BY DEF enter
  <1> DEFINE p == IF c \in Watching \cup Controls THEN c
                  ELSE IF c = "workflow" THEN "exec"
                  ELSE IF ~ initialized THEN (IF c \in Orchestrated THEN "hooks" ELSE "idle")
                  ELSE IF Mode(c) = "Exclusive" THEN "lock" ELSE "test"
             r == IF c \in Locked \cup Unlocked /\ ~ initialized THEN "error" ELSE "ok"
  <1>2. c \in Names /\ c # "none"
    BY RuntimeAssumption DEF Names, Locked, Unlocked, Controls, Watching
  <1>3. p \in Points /\ r \in Results
    BY DEF Points, Results
  <1>4. /\ p \in {"exec", "prepare", "running"} => c \in Flashing
        /\ p # "use" /\ p # "opening" /\ p # "body" /\ p # "resetDev"
        /\ p = "disconnect" => c = "disconnect"
        /\ p = "reset" => c = "reset"
        /\ p = "test" => c # "connect"
        /\ p = "hooks" => r = "error" /\ c \in Orchestrated
    BY <1>2 DEF Flashing, Controls, Watching, Mode, Locked, Orchestrated, Names, Unlocked
  <1>5. /\ th[t].pc = "idle" /\ th[t] \in Frames /\ Safe(t)
        /\ th \in [Callers -> Frames] /\ NoOne # t
    BY RuntimeAssumption, FrameFields DEF enter, Busy, At, RInv, RTypes
  <1> DEFINE f == IF p = "idle" THEN th[t] ELSE [Quiet EXCEPT !.pc = p, !.call = c, !.res = r]
  <1>6. th' = [th EXCEPT ![t] = f]
    BY <1>1
  <1>7. p # "idle" => /\ f.pc = p /\ f.call = c /\ f.res = r /\ f.link = NoOne
                      /\ f \in Frames
    BY <1>2, <1>3 DEF Quiet, Frames
  <1>8. p = "idle" => f = th[t]
    OBVIOUS
  <1> HIDE DEF p, r, f
  <1>9. f \in Frames
    BY <1>5, <1>7, <1>8
  <1>10. th' \in [Callers -> Frames] /\ Moved(t) /\ th'[t] = f
    BY <1>5, <1>6, <1>9 DEF Moved
  <1>11. Bystanding(t)
    BY FrameFields DEF enter, dev, state, Bystanding
  <1>12. opMutex' = opMutex /\ owned' = owned /\ connected' = connected
    BY DEF enter, dev, state
  <1>13. Safe(t)' /\ ~ WillCount(th[t])' /\ ~ WillUncount(th[t])'
    <2>1. CASE p = "idle"
      BY <2>1, <1>5, <1>8, <1>10, <1>12 DEF Safe, Fits, WillCount, WillUncount
    <2>2. CASE p # "idle"
      BY <2>2, <1>4, <1>7, <1>10, <1>12 DEF Safe, Fits, WillCount, WillUncount, Orchestrated
    <2> QED BY <2>1, <2>2
  <1>14. ~ WillCount(th[t]) /\ ~ WillUncount(th[t])
    BY <1>5 DEF WillCount, WillUncount
  <1> QED BY <1>10, <1>11, <1>13, <1>14, BystanderStep

\* A thread that takes the mutex works on no session yet.
LEMMA LockStep == ASSUME RInv, NEW t \in Callers, lock(t) PROVE RInv'
  <1>1. /\ th[t].pc = "lock" /\ opMutex = NoOne /\ opMutex' = t
        /\ to(t, "test", th[t].res, th[t].link)
        /\ UNCHANGED <<connected, active, owned, stats, dropped, observers>>
    BY DEF lock, At, goto, state, dev, Rest
  <1>2. th[t].link = NoOne /\ th[t].res \in Results /\ RTypes
    BY <1>1, FrameFields DEF Safe, Fits, RInv
  <1>3. "test" \in Points
    BY DEF Points
  <1>4. /\ th' \in [Callers -> Frames] /\ Moved(t)
        /\ th'[t].pc = "test" /\ th'[t].link = NoOne
    BY <1>1, <1>2, <1>3, ToMoves
  <1>5. RTypes' /\ Owned'
    BY <1>1, <1>4 DEF RInv, RTypes, Owned
  <1>6. Safe(t)'
    BY <1>1, <1>4 DEF Safe, Fits
  <1>7. ASSUME NEW u \in Callers PROVE Safe(u)'
    <2>1. CASE u # t
      <3>1. u \in Callers \ {t} /\ Safe(u) /\ th'[u] = th[u]
        BY <2>1, <1>4 DEF RInv, Moved
      <3> QED BY <1>1, <3>1, OthersStaySafe
    <2> QED BY <1>6, <2>1
  <1>8. Connects' = Connects /\ Disconnects' = Disconnects
    BY <1>1, <1>4, ConnectsMove, DisconnectsMove DEF WillCount, WillUncount
  <1>9. AddsUp'
    BY <1>1, <1>8 DEF RInv, AddsUp
  <1> QED BY <1>5, <1>7, <1>9 DEF RInv

\* A connect() that finds a device makes a session, of which it is the only user.
LEMMA ConnectStep == ASSUME RInv, NEW t \in Callers, connect(t) PROVE RInv'
  <1>1. /\ th[t].pc = "body" /\ th[t].call = "connect" /\ opMutex = t
        /\ UNCHANGED <<connected, active, stats, dropped, observers>>
    BY FrameFields DEF connect, At, In, state, Rest, Safe
  <1>2. ~ WillCount(th[t]) /\ ~ WillUncount(th[t])
    BY <1>1 DEF WillCount, WillUncount
  <1>3. CASE leave(t, "error") /\ UNCHANGED owned
    BY <1>1, <1>2, <1>3, LeaveStep DEF Results
  <1>4. ASSUME NEW s \in Links \ owned, ~ connected, owned' = owned \cup {s}, to(t, "opening", "ok", s),
               UNCHANGED opMutex
        PROVE  RInv'
    <2>1. RTypes /\ "opening" \in Points /\ "ok" \in Results /\ s \in Links \cup {NoOne}
      BY <1>4 DEF RInv, Points, Results
    <2>2. /\ th' \in [Callers -> Frames] /\ Moved(t)
          /\ th'[t].pc = "opening" /\ th'[t].link = s /\ th'[t].call = "connect"
      BY <1>1, <1>4, <2>1, ToMoves
    <2>3. RTypes' /\ Owned'
      BY <1>1, <1>4, <2>2 DEF RInv, RTypes, Owned
    <2>4. Safe(t)'
      BY <1>1, <1>4, <2>2 DEF Safe, Fits
    <2>5. ASSUME NEW u \in Callers PROVE Safe(u)'
      <3>1. CASE u # t
        <4>1. u \in Callers \ {t} /\ Safe(u) /\ th'[u] = th[u]
          BY <3>1, <2>2 DEF RInv, Moved
        <4> QED BY <1>1, <1>4, <4>1, OthersStaySafe
      <3> QED BY <2>4, <3>1
    <2>6. Connects' = Connects /\ Disconnects' = Disconnects
      BY <1>2, <2>2, ConnectsMove, DisconnectsMove DEF WillCount, WillUncount
    <2>7. AddsUp'
      BY <1>1, <2>6 DEF RInv, AddsUp
    <2> QED BY <2>3, <2>5, <2>7 DEF RInv
  <1> QED BY <1>3, <1>4 DEF connect

\* A connection that is made has its session, and one thread more to count it.
LEMMA ConnectEndStep == ASSUME RInv, NEW t \in Callers, connectEnd(t) PROVE RInv'
  <1>1. /\ th[t].pc = "opening" /\ th[t].call = "connect" /\ opMutex = t
        /\ ~ connected /\ th[t].link \in owned /\ th[t].link \in Links \cup {NoOne}
        /\ UNCHANGED <<owned, stats, dropped, observers>>
    BY FrameFields DEF connectEnd, At, Rest, Safe, Fits
  <1>2. ~ WillCount(th[t]) /\ ~ WillUncount(th[t])
    BY <1>1 DEF WillCount, WillUncount
  <1>3. CASE leave(t, "error") /\ UNCHANGED <<active, opened, connected>>
    BY <1>1, <1>2, <1>3, LeaveStep DEF Results
  <1>4. CASE active' = th[t].link /\ connected' = TRUE /\ leave(t, "ok")
    <2>1. RTypes /\ "hooks" \in Points /\ "ok" \in Results /\ NoOne \in Links \cup {NoOne}
      BY DEF RInv, Points, Results
    <2>2. to(t, "hooks", "ok", NoOne) /\ opMutex' = NoOne
      BY <1>1, <1>4 DEF leave, unlock, In, Orchestrated
    <2>3. /\ th' \in [Callers -> Frames] /\ Moved(t)
          /\ th'[t].pc = "hooks" /\ th'[t].link = NoOne /\ th'[t].call = "connect" /\ th'[t].res = "ok"
      BY <1>1, <2>1, <2>2, ToMoves
    <2>4. RTypes' /\ Owned'
      BY <1>1, <1>4, <2>3 DEF RInv, RTypes, Owned
    <2>5. Safe(t)'
      BY <2>3 DEF Safe, Fits
    <2>6. ASSUME NEW u \in Callers PROVE Safe(u)'
      <3>1. CASE u # t
        <4>1. u \in Callers \ {t} /\ Safe(u) /\ th'[u] = th[u]
          BY <3>1, <2>3 DEF RInv, Moved
        <4> QED BY <1>1, <2>2, <4>1, OthersStaySafe
      <3> QED BY <2>5, <3>1
    <2>7. WillCount(th[t])' /\ ~ WillUncount(th[t])'
      BY <2>3 DEF WillCount, WillUncount
    <2>8. Cardinality(Connects)' = Cardinality(Connects) + 1
      BY <1>2, <2>3, <2>7, ConnectsMove
    <2>9. Disconnects' = Disconnects
      BY <1>2, <2>3, <2>7, DisconnectsMove
    <2>10. AddsUp'
      BY <1>1, <1>4, <2>8, <2>9, PendingFinite DEF RInv, RTypes, AddsUp
    <2> QED BY <2>4, <2>6, <2>10 DEF RInv
  <1> QED BY <1>3, <1>4 DEF connectEnd

\* Calls that only answer, and the use of a device, return what comes.
LEMMA AnswerSteps ==
  ASSUME RInv, NEW t \in Callers,
         test(t) \/ reconnect(t) \/ discover(t) \/ loadFirmwarePackage(t) \/ runJob(t) \/ use(t)
  PROVE  RInv'
  <1>1. {"ok", "error", "cancelled"} \subseteq Results
    BY DEF Results
  <1>2. CASE test(t)
    <2>1. /\ th[t].pc = "test"
          /\ UNCHANGED <<connected, active, owned, stats, dropped, observers>>
      BY <1>2 DEF test, At, state, dev, Rest
    <2>2. ~ WillCount(th[t]) /\ ~ WillUncount(th[t])
      BY <2>1 DEF WillCount, WillUncount
    <2>3. CASE leave(t, "cancelled")
      BY <1>1, <2>1, <2>2, <2>3, LeaveStep
    <2>4. CASE goto(t, "body") /\ UNCHANGED opMutex
      <3>1. to(t, "body", th[t].res, th[t].link) /\ "body" \in Points
        BY <2>4 DEF goto, Points
      <3>2. /\ th[t].res \in Results /\ th[t].link \in Links \cup {NoOne}
            /\ opMutex = t /\ th[t].link # NoOne => th[t].link \in owned
            /\ th[t].call = "connect" => opMutex = t
        BY <2>1, FrameFields DEF Safe
      <3>3. Bystanding(t)
        BY <2>1, <2>4, FrameFields DEF Bystanding
      <3> QED BY <2>2, <2>4, <3>1, <3>2, <3>3, ToStep
    <2> QED BY <1>2, <2>3, <2>4 DEF test
  <1>3. CASE reconnect(t)
    <2>1. /\ th[t].pc = "body" /\ th[t].call = "reconnect"
          /\ UNCHANGED <<connected, active, owned, stats, dropped, observers>>
      BY <1>3 DEF reconnect, At, In, state, Rest
    <2>2. ~ WillCount(th[t]) /\ ~ WillUncount(th[t])
      BY <2>1 DEF WillCount, WillUncount
    <2>3. leave(t, "ok") \/ leave(t, "error")
      BY <1>3 DEF reconnect
    <2> QED BY <1>1, <2>1, <2>2, <2>3, LeaveStep
  <1>4. ASSUME NEW c \in {"discover", "loadPackage", "runJob"}, answers(t, c) PROVE RInv'
    <2>1. /\ th[t].pc = "body" /\ th[t].call = c
          /\ UNCHANGED <<connected, active, owned, stats, dropped, observers>>
      BY <1>4 DEF answers, At, In, state, dev, Rest
    <2>2. ~ WillCount(th[t]) /\ ~ WillUncount(th[t])
      BY <2>1 DEF WillCount, WillUncount
    <2>3. leave(t, "ok") \/ leave(t, "error")
      BY <1>4 DEF answers
    <2> QED BY <1>1, <2>1, <2>2, <2>3, LeaveStep
  <1>5. CASE use(t)
    <2>1. /\ th[t].pc = "use"
          /\ UNCHANGED <<connected, active, owned, stats, dropped, observers>>
      BY <1>5 DEF use, At, state, dev, Rest
    <2>2. ~ WillCount(th[t]) /\ ~ WillUncount(th[t]) /\ th[t].call # "connect"
      BY <2>1, FrameFields DEF WillCount, WillUncount, Safe, Fits
    <2>3. leave(t, "ok") \/ leave(t, "error")
      BY <1>5 DEF use
    <2> QED BY <1>1, <2>1, <2>2, <2>3, LeaveStep
  <1> QED BY <1>2, <1>3, <1>4, <1>5 DEF discover, loadFirmwarePackage, runJob

\* A call that picks up the active session gets one that is owned.
LEMMA FetchStep ==
  ASSUME RInv, NEW t \in Callers, NEW p \in {"use", "exec", "prepare"}, NEW fit, NEW may, fetch(t, p, fit, may),
         th[t].call \in (IF p = "use" THEN {"memory"} ELSE Flashing)
  PROVE  RInv'
  <1>1. /\ th[t].pc = "body" /\ th[t].call # "connect"
        /\ UNCHANGED <<connected, active, owned, stats, dropped, observers>>
    BY DEF fetch, At, state, dev, Rest, Flashing, Nesting
  <1>2. ~ WillCount(th[t]) /\ ~ WillUncount(th[t])
    BY <1>1 DEF WillCount, WillUncount
  <1>3. CASE leave(t, "error")
    BY <1>1, <1>2, <1>3, LeaveStep DEF Results
  <1>4. CASE active # NoOne /\ to(t, p, "ok", active) /\ UNCHANGED opMutex
    <2>1. p \in Points /\ "ok" \in Results
      BY DEF Points, Results
    <2>2. active \in owned /\ active \in Links \cup {NoOne}
      BY <1>4 DEF RInv, Owned, RTypes
    <2>3. Bystanding(t)
      BY <1>1, <1>4, FrameFields DEF Bystanding
    <2> QED BY <1>1, <1>2, <1>4, <2>1, <2>2, <2>3, ToStep
  <1> QED BY <1>3, <1>4 DEF fetch

\* The calls of FirmwareService.
LEMMA FetchSteps ==
  ASSUME RInv, NEW t \in Callers, memory(t) \/ flash(t) \/ backup(t) \/ restore(t) \/ executeWorkflowType(t)
  PROVE  RInv'
  <1>1. CASE memory(t)
    BY <1>1, FetchStep DEF memory, In
  <1>2. CASE flash(t)
    BY <1>2, FetchStep DEF flash, In, Flashing, Nesting
  <1>3. CASE backup(t)
    BY <1>3, FetchStep DEF backup, In, Flashing, Nesting
  <1>4. CASE restore(t)
    BY <1>4, FetchStep DEF restore, In, Flashing, Nesting
  <1>5. CASE executeWorkflowType(t)
    BY <1>5, FetchStep DEF executeWorkflowType, In, Flashing, Nesting
  <1> QED BY <1>1, <1>2, <1>3, <1>4, <1>5

\* A step that goes on with the session it has, or comes to an end.
LEMMA GoOnStep ==
  ASSUME RInv, NEW t \in Callers, NEW p \in Points, NEW r \in Results, to(t, p, r, th[t].link), Bystanding(t),
         th[t].pc # "hooks",
         p \in {"exec", "prepare", "running"} => th[t].call \in Flashing,
         p = "use" => th[t].call \in {"memory", "backup"},
         p \in {"disconnect", "resetDev"} => th[t].call \in {"disconnect", "reset"},
         p \notin {"opening", "lock", "reset", "test", "body"},
         p = "hooks" => th[t].call \in Flashing
  PROVE  RInv'
  <1>1. ~ WillCount(th[t]) /\ ~ WillUncount(th[t])
    BY DEF WillCount, WillUncount
  <1>2. /\ th[t].link \in Links \cup {NoOne}
        /\ opMutex = t /\ th[t].link # NoOne => th[t].link \in owned
    BY FrameFields DEF Safe
  <1>3. opMutex' = t => opMutex = t
    BY RuntimeAssumption DEF Bystanding
  <1>4. p = "hooks" => th[t].call \notin {"connect", "disconnect", "reset"}
    BY DEF Flashing, Nesting
  <1> QED BY <1>1, <1>2, <1>3, <1>4, ToStep

\* The steps of a workflow.
LEMMA WorkflowSteps ==
  ASSUME RInv, NEW t \in Callers, exec(t) \/ prepare(t) \/ finish(t)
  PROVE  RInv'
  <1>1. /\ th[t].pc \in {"exec", "prepare", "running"} /\ th[t].call \in Flashing
        /\ UNCHANGED <<connected, active, owned, stats, dropped, observers>>
    BY FrameFields DEF exec, prepare, finish, At, state, dev, Rest, Safe, Fits
  <1>2. /\ {"hooks", "prepare", "running"} \subseteq Points
        /\ {"ok", "error", "cancelled"} \subseteq Results
        /\ th[t].res \in Results
    BY FrameFields DEF Points, Results
  <1>3. opMutex' = opMutex => Bystanding(t)
    BY <1>1, FrameFields DEF Bystanding
  <1>4. ASSUME NEW p \in {"hooks", "prepare", "running"}, NEW r \in Results, to(t, p, r, th[t].link),
               opMutex' = opMutex
        PROVE  RInv'
    BY <1>1, <1>2, <1>3, <1>4, GoOnStep
  <1>5. ASSUME NEW r \in Results, ended(t, r) PROVE RInv'
    <2>1. CASE leave(t, r)
      <3>1. ~ WillCount(th[t]) /\ ~ WillUncount(th[t]) /\ th[t].call # "connect"
        BY <1>1 DEF WillCount, WillUncount, Flashing, Nesting
      <3> QED BY <1>1, <2>1, <3>1, LeaveStep
    <2>2. CASE answer(t, "hooks", r) /\ UNCHANGED opMutex
      BY <1>4, <2>2 DEF answer
    <2> QED BY <1>5, <2>1, <2>2 DEF ended
  <1>6. CASE exec(t)
    <2>1. opMutex' = opMutex
      BY <1>6 DEF exec, Mode, Locked
    <2>2. answer(t, "hooks", "error") \/ answer(t, "hooks", "cancelled") \/ goto(t, "prepare")
      BY <1>6 DEF exec
    <2> QED BY <1>2, <1>4, <2>1, <2>2 DEF answer, goto
  <1>7. CASE prepare(t)
    <2>1. (goto(t, "running") /\ UNCHANGED opMutex) \/ ended(t, "error")
      BY <1>7 DEF prepare
    <2> QED BY <1>2, <1>4, <1>5, <2>1 DEF goto
  <1>8. CASE finish(t)
    <2>1. \E r \in Results : ended(t, r)
      BY <1>2, <1>8 DEF finish
    <2> QED BY <1>5, <2>1
  <1> QED BY <1>6, <1>7, <1>8

\* The hooks count what their call has done.
LEMMA HooksStep == ASSUME RInv, NEW t \in Callers, hooks(t) PROVE RInv'
  <1>1. /\ th[t].pc = "hooks" /\ th[t] \in Frames /\ Safe(t) /\ th \in [Callers -> Frames]
        /\ observers \in SUBSET Watchers /\ stats \in [conn : Nat, disc : Nat] /\ dropped \in Nat
        /\ UNCHANGED <<opMutex, connected, active, owned, dropped, observers>>
    BY FrameFields DEF hooks, At, state, dev, RInv, RTypes
  <1> DEFINE f == [th[t] EXCEPT !.pc = "notify", !.copied = observers]
  <1>2. th' = [th EXCEPT ![t] = f]
    BY <1>1 DEF hooks
  <1>3. f \in Frames /\ f.pc = "notify" /\ f.call = th[t].call /\ f.link = th[t].link
    BY <1>1 DEF Frames, Points
  <1> HIDE DEF f
  <1>4. th' \in [Callers -> Frames] /\ Moved(t) /\ th'[t] = f
    BY <1>1, <1>2, <1>3 DEF Moved
  <1>5. /\ stats' \in [conn : Nat, disc : Nat]
        /\ stats'.conn = stats.conn + (IF WillCount(th[t]) THEN 1 ELSE 0)
        /\ stats'.disc = stats.disc + (IF WillUncount(th[t]) THEN 1 ELSE 0)
    <2> DEFINE a == IF In(t, {"connect"}) /\ th[t].res = "ok" THEN 1 ELSE 0
               b == IF In(t, {"disconnect", "reset"}) THEN 1 ELSE 0
    <2>1. stats' = [stats EXCEPT !.conn = @ + a, !.disc = @ + b]
      BY DEF hooks
    <2>2. a \in Nat /\ b \in Nat
      OBVIOUS
    <2>3. a = (IF WillCount(th[t]) THEN 1 ELSE 0) /\ b = (IF WillUncount(th[t]) THEN 1 ELSE 0)
      BY <1>1 DEF In, WillCount, WillUncount
    <2> HIDE DEF a, b
    <2>4. stats.conn \in Nat /\ stats.disc \in Nat /\ stats = [conn |-> stats.conn, disc |-> stats.disc]
      BY <1>1
    <2>5. stats' = [conn |-> stats.conn + a, disc |-> stats.disc + b]
      BY <2>1, <2>4
    <2>6. stats.conn + a \in Nat /\ stats.disc + b \in Nat
      BY <2>2, <2>4
    <2>7. stats' \in [conn : Nat, disc : Nat] /\ stats'.conn = stats.conn + a /\ stats'.disc = stats.disc + b
      BY <2>5, <2>6
    <2> QED BY <2>3, <2>7
  <1>6. RTypes' /\ Owned'
    BY <1>1, <1>4, <1>5 DEF RInv, RTypes, Owned
  <1>7. Safe(t)'
    BY <1>1, <1>3, <1>4 DEF Safe, Fits
  <1>8. ASSUME NEW u \in Callers PROVE Safe(u)'
    <2>1. CASE u # t
      <3>1. u \in Callers \ {t} /\ Safe(u) /\ th'[u] = th[u]
        BY <2>1, <1>4 DEF RInv, Moved
      <3> QED BY <1>1, <3>1, OthersStaySafe
    <2> QED BY <1>7, <2>1
  <1>9. ~ WillCount(th[t])' /\ ~ WillUncount(th[t])'
    BY <1>3, <1>4 DEF WillCount, WillUncount
  <1>10. Cardinality(Connects)' = Cardinality(Connects) - (IF WillCount(th[t]) THEN 1 ELSE 0)
    BY <1>4, <1>9, ConnectsMove, PendingFinite
  <1>11. Cardinality(Disconnects)' = Cardinality(Disconnects) - (IF WillUncount(th[t]) THEN 1 ELSE 0)
    BY <1>4, <1>9, DisconnectsMove, PendingFinite
  <1>12. AddsUp'
    BY <1>1, <1>5, <1>10, <1>11, PendingFinite DEF RInv, AddsUp
  <1> QED BY <1>6, <1>8, <1>12 DEF RInv

\* An observer is told; after the last one the call goes on or returns.
LEMMA NotifyStep == ASSUME RInv, NEW t \in Callers, notify(t) PROVE RInv'
  <1>1. /\ th[t].pc = "notify" /\ th[t] \in Frames /\ Safe(t) /\ th \in [Callers -> Frames]
        /\ th[t].res \in Results /\ th[t].copied \in SUBSET Watchers
        /\ UNCHANGED <<connected, active, owned, stats, dropped, observers>>
    BY FrameFields DEF notify, At, state, dev, Rest, RInv, RTypes
  <1>2. opMutex' = opMutex \/ unlock(t) => Bystanding(t)
    BY <1>1, FrameFields DEF Bystanding, unlock
  <1>3. {"use", "resetWf", "idle"} \subseteq Points
    BY DEF Points
  <1>4. ASSUME NEW w \in th[t].copied, th' = [th EXCEPT ![t].copied = @ \ {w}], UNCHANGED opMutex
        PROVE  RInv'
    <2> DEFINE f == [th[t] EXCEPT !.copied = @ \ {w}]
    <2>1. th' = [th EXCEPT ![t] = f]
      BY <1>1, <1>4
    <2>2. f \in Frames /\ f.pc = "notify" /\ f.call = th[t].call /\ f.link = th[t].link
      BY <1>1 DEF Frames
    <2> HIDE DEF f
    <2>3. th' \in [Callers -> Frames] /\ Moved(t) /\ th'[t] = f
      BY <1>1, <2>1, <2>2 DEF Moved
    <2>4. Safe(t)'
      BY <1>1, <1>4, <2>2, <2>3 DEF Safe, Fits
    <2>5. /\ ~ WillCount(th[t])' /\ ~ WillUncount(th[t])'
          /\ ~ WillCount(th[t]) /\ ~ WillUncount(th[t])
      BY <1>1, <2>2, <2>3 DEF WillCount, WillUncount
    <2> QED BY <1>2, <1>4, <2>3, <2>4, <2>5, BystanderStep
  <1>5. CASE th[t].call = "backup" /\ goto(t, "use") /\ UNCHANGED opMutex
    BY <1>1, <1>2, <1>3, <1>5, GoOnStep DEF goto
  <1>6. CASE goto(t, "resetWf") /\ UNCHANGED opMutex
    BY <1>1, <1>2, <1>3, <1>6, GoOnStep DEF goto
  <1>7. CASE goto(t, "idle") /\ unlock(t)
    BY <1>1, <1>2, <1>3, <1>7, GoOnStep DEF goto
  <1> QED BY <1>4, <1>5, <1>6, <1>7 DEF notify, In

\* The calls that connect and disconnect nothing.
LEMMA ControlSteps ==
  ASSUME RInv, NEW t \in Callers,
         \/ initialize(t) \/ shutdownEnd(t) \/ reset(t) \/ resetWorkflow(t) \/ cancel(t)
         \/ cancelWorkflow(t) \/ pauseResume(t) \/ watch(t)
  PROVE  RInv'
  <1>1. /\ {"idle", "resetDev", "cancelWf"} \subseteq Points
        /\ th[t].res \in Results /\ Safe(t) /\ observers \in SUBSET Watchers
    BY FrameFields DEF Points
  <1>2. Bystanding(t)
    BY <1>1 DEF initialize, shutdownEnd, reset, resetWorkflow, cancel, cancelWorkflow, pauseResume, watch,
                state, dev, Rest, Bystanding
  <1>3. CASE watch(t)
    <2>1. to(t, "idle", th[t].res, th[t].link) /\ th[t].call \in Watching
      BY <1>3 DEF watch, goto, In
    <2>2. ~ WillCount(th[t]) /\ ~ WillUncount(th[t])
      BY <2>1 DEF WillCount, WillUncount, Watching
    <2>3. /\ th[t].link \in Links \cup {NoOne}
          /\ opMutex = t /\ th[t].link # NoOne => th[t].link \in owned
          /\ opMutex' = t => opMutex = t
      BY <1>2, RuntimeAssumption, FrameFields DEF Safe, Bystanding
    <2> QED BY <1>1, <1>2, <2>1, <2>2, <2>3, ToStep
  <1>4. CASE reset(t)
    <2>1. to(t, "resetDev", th[t].res, th[t].link) /\ th[t].pc = "reset" /\ th[t].call = "reset"
      BY <1>1, <1>4 DEF reset, goto, At, Safe, Fits
    <2> QED BY <1>1, <1>2, <2>1, GoOnStep
  <1>5. CASE cancel(t)
    <2>1. to(t, "cancelWf", th[t].res, th[t].link) /\ th[t].pc = "cancel"
      BY <1>5 DEF cancel, goto, At
    <2> QED BY <1>1, <1>2, <2>1, GoOnStep
  <1>6. CASE initialize(t) \/ shutdownEnd(t) \/ resetWorkflow(t) \/ cancelWorkflow(t) \/ pauseResume(t)
    <2>1. to(t, "idle", th[t].res, th[t].link) /\ th[t].pc # "hooks"
      BY <1>6 DEF initialize, shutdownEnd, resetWorkflow, cancelWorkflow, pauseResume, goto, At
    <2> QED BY <1>1, <1>2, <2>1, GoOnStep
  <1> QED BY <1>3, <1>4, <1>5, <1>6

\* shutdown() forgets the connection there is.
LEMMA ShutdownForgets == ASSUME RInv, NEW t \in Callers, shutdown(t), initialized PROVE RInv'
  <1> DEFINE p == "stop"
  <1>1. /\ th[t].pc = "shutdown" /\ opMutex = NoOne /\ to(t, p, th[t].res, th[t].link)
        /\ connected' = FALSE /\ dropped' = dropped + (IF connected THEN 1 ELSE 0)
        /\ UNCHANGED <<opMutex, active, owned, stats, observers>>
    BY DEF shutdown, At, goto, dev
  <1>2. p \in Points /\ p = "stop" /\ th[t].res \in Results /\ th[t].link \in Links \cup {NoOne}
    BY FrameFields DEF Points
  <1> HIDE DEF p
  <1>3. RTypes /\ NoOne # t
    BY RuntimeAssumption DEF RInv
  <1>4. th' \in [Callers -> Frames] /\ Moved(t) /\ th'[t].pc = "stop"
    BY <1>1, <1>2, <1>3, ToMoves
  <1>5. th'[t].pc \in {"idle", "stop"}
    BY <1>4
  <1>6. dropped' \in Nat
    BY <1>1, <1>3 DEF RTypes
  <1>7. RTypes' /\ Owned'
    BY <1>1, <1>4, <1>6 DEF RInv, RTypes, Owned
  <1>8. Safe(t)'
    BY <1>1, <1>3, <1>5 DEF Safe, Fits
  <1>9. ASSUME NEW u \in Callers PROVE Safe(u)'
    <2>1. CASE u # t
      <3>1. u \in Callers \ {t} /\ Safe(u) /\ th'[u] = th[u]
        BY <2>1, <1>4 DEF RInv, Moved
      <3> QED BY <1>1, <3>1, OthersStaySafe
    <2> QED BY <1>8, <2>1
  <1>10. Connects' = Connects /\ Disconnects' = Disconnects
    BY <1>1, <1>4, <1>5, ConnectsMove, DisconnectsMove DEF WillCount, WillUncount
  <1>11. AddsUp'
    BY <1>1, <1>3, <1>10, PendingFinite DEF RInv, RTypes, AddsUp
  <1> QED BY <1>7, <1>9, <1>11 DEF RInv

\* shutdown() of a runtime that is not initialized returns.
LEMMA ShutdownStep == ASSUME RInv, NEW t \in Callers, shutdown(t) PROVE RInv'
  <1>1. CASE initialized
    BY <1>1, ShutdownForgets
  <1>2. CASE ~ initialized
    <2>1. to(t, "idle", th[t].res, th[t].link) /\ th[t].pc # "hooks"
      BY <1>2 DEF shutdown, goto, At
    <2>2. "idle" \in Points /\ th[t].res \in Results /\ observers \in SUBSET Watchers
      BY FrameFields DEF Points
    <2>3. Bystanding(t)
      BY <1>2, <2>2 DEF shutdown, dev, Bystanding
    <2> QED BY <2>1, <2>2, <2>3, GoOnStep
  <1> QED BY <1>1, <1>2

\* disconnect() lets all sessions go while nobody holds the mutex, and has one
\* thread more to count it.
LEMMA DisconnectStep == ASSUME RInv, NEW t \in Callers, disconnect(t) PROVE RInv'
  <1>1. /\ th[t].pc \in {"disconnect", "resetDev"} /\ opMutex = NoOne
        /\ th[t].call \in {"disconnect", "reset"} /\ th[t].res \in Results /\ th[t].link \in Links \cup {NoOne}
        /\ closeAll(t)
        /\ UNCHANGED <<opMutex, stats, dropped, observers>>
    BY FrameFields DEF disconnect, At, Rest, Safe, Fits
  <1>2. {"hooks", "resetWf", "idle"} \subseteq Points /\ "ok" \in Results
    BY DEF Points, Results
  <1>3. CASE connected
    <2>1. /\ active' = NoOne /\ owned' = {} /\ connected' = FALSE
          /\ to(t, "hooks", "ok", th[t].link)
      BY <1>1, <1>3 DEF closeAll, answer
    <2>2. RTypes /\ NoOne # t
      BY RuntimeAssumption DEF RInv
    <2>3. /\ th' \in [Callers -> Frames] /\ Moved(t)
          /\ th'[t].pc = "hooks" /\ th'[t].call = th[t].call
      BY <1>1, <1>2, <2>1, <2>2, ToMoves
    <2>4. RTypes' /\ Owned'
      BY <1>1, <2>1, <2>3 DEF RInv, RTypes, Owned
    <2>5. Safe(t)'
      BY <1>1, <2>2, <2>3 DEF Safe, Fits
    <2>6. ASSUME NEW u \in Callers PROVE Safe(u)'
      <3>1. CASE u # t
        <4>1. u \in Callers \ {t} /\ Safe(u) /\ th'[u] = th[u]
          BY <3>1, <2>3 DEF RInv, Moved
        <4> QED BY <1>1, <2>1, <4>1, OthersStaySafe
      <3> QED BY <2>5, <3>1
    <2>7. /\ ~ WillCount(th[t]) /\ ~ WillUncount(th[t])
          /\ ~ WillCount(th[t])' /\ WillUncount(th[t])'
      BY <1>1, <2>3 DEF WillCount, WillUncount
    <2>8. Connects' = Connects
      BY <2>3, <2>7, ConnectsMove
    <2>9. Cardinality(Disconnects)' = Cardinality(Disconnects) + 1
      BY <2>3, <2>7, DisconnectsMove
    <2>10. AddsUp'
      BY <1>1, <1>3, <2>1, <2>2, <2>8, <2>9, PendingFinite DEF RInv, RTypes, AddsUp
    <2> QED BY <2>4, <2>6, <2>10 DEF RInv
  <1>4. CASE ~ connected
    <2> DEFINE p == IF In(t, {"reset"}) THEN "resetWf" ELSE "idle"
    <2>1. p \in {"resetWf", "idle"} /\ p \in Points
      BY <1>2
    <2>2. to(t, p, th[t].res, th[t].link) /\ UNCHANGED <<active, owned, connected>>
      BY <1>1, <1>4 DEF closeAll, goto, dev
    <2>3. Bystanding(t)
      BY <1>1, <2>2, FrameFields DEF Bystanding
    <2> HIDE DEF p
    <2> QED BY <1>1, <2>1, <2>2, <2>3, GoOnStep
  <1> QED BY <1>3, <1>4

------------------------------------------------------------------------------
\* Every step of a thread, and a step of none, keeps the invariant.
LEMMA RuntimeStep == RInv /\ [RNext]_rvars => RInv'
  <1> SUFFICES ASSUME RInv, [RNext]_rvars PROVE RInv'
    OBVIOUS
  <1>1. CASE RNext
    <2>1. PICK t \in Callers : enter(t) \/ Step(t)
      BY <1>1 DEF RNext
    <2>2. CASE enter(t)
      BY <2>2, EnterStep
    <2>3. CASE Step(t)
      BY <2>3, LockStep, ConnectStep, ConnectEndStep, AnswerSteps, FetchSteps, WorkflowSteps, HooksStep,
         NotifyStep, ControlSteps, ShutdownStep, DisconnectStep DEF Step
    <2> QED BY <2>1, <2>2, <2>3
  <1>2. CASE UNCHANGED rvars
    BY <1>2 DEF rvars, state, dev, RInv, RTypes, Owned, Safe, Fits, AddsUp, Connects, Disconnects,
                WillCount, WillUncount
  <1> QED BY <1>1, <1>2

\* The inductive invariant of the Runtime holds throughout: calls are where their code
\* goes, hold opMutex where they must, and every connection is there, counted, or about
\* to be counted by the hooks of one thread.
THEOREM RuntimeInvariant == RSpec => []RInv
  <1>1. RInit => RInv
    BY RuntimeStarts
  <1>2. RInv /\ [RNext]_rvars => RInv'
    BY RuntimeStep
  <1> QED BY <1>1, <1>2, PTL DEF RSpec

\* Whatever the threads call: a connected runtime has an active session that the manager
\* owns, no thread that holds opMutex loses the session it works on, and the connections
\* that were counted add up when no call is in progress (Runtime::connect, disconnect,
\* flash, shutdown and OperationHooks).
THEOREM ConnectionsSound == RSpec => []ConnectionsAreSound
  <1>1. RInv => ConnectionsAreSound
    <2> SUFFICES ASSUME RInv PROVE ConnectionsAreSound
      OBVIOUS
    <2>1. ConnectionIsOwned
      BY DEF RInv, Owned, Safe, ConnectionIsOwned
    <2>2. ASSUME \A t \in Callers : ~ Busy(t)
          PROVE  stats.conn = stats.disc + dropped + (IF connected THEN 1 ELSE 0)
      <3>1. Connects = {} /\ Disconnects = {}
        BY <2>2 DEF Busy, At, Connects, Disconnects, WillCount, WillUncount
      <3> QED BY <3>1, FS_EmptySet DEF RInv, RTypes, AddsUp
    <2> QED BY <2>1, <2>2 DEF ConnectionsAreSound, ConnectionsAddUp
  <1> QED BY <1>1, RuntimeInvariant, PTL

------------------------------------------------------------------------------
(***************************************************************************)
(* The studio's bridge, which sits on the Runtime, for any number of calls *)
(* and any order in which the pool runs their tasks.                       *)
(*                                                                         *)
(* That the list shown is current once all is quiet says nothing of the    *)
(* states before.  Shows is what holds then: the list on the screen, or    *)
(* else the last list in the queue, is the current one, unless an event is *)
(* on its way whose handler will post the list anew.                       *)
(***************************************************************************)

Kinds == {"discover", "connect", "disconnect", "load", "validate", "flash", "cancel", "unload"}
Args  == Paths \cup Packages \cup {""}
Statuses == {"Idle", "Preparing", "Flashing", "Completed", "Failed", "Cancelled"}
Signals  == {"connectionFailed", "disconnected", "firmwareValidated", "flashCompleted", "flashFailed", "pluginListChanged", "error", ""}
Labels   == {"", "completed", "failed", "cancelled"}
Ops   == [pkg : Args \cup {NothingLoaded}, status : Statuses, canStart : BOOLEAN]
Lists == SUBSET (Paths \X BOOLEAN)
Ended == [kind : Kinds, arg : Args, res : BOOLEAN]
Tasks == [id : Nat, kind : Kinds, arg : Args, begun : BOOLEAN]
Events ==
    [e : {"finished", "loaded"}, x : Ended] \cup [e : {"list"}, x : Lists] \cup [e : {"operation"}, x : Ops]
      \cup [e : {"connected"}, x : Args] \cup [e : {"packageLoaded", "result"}, x : BOOLEAN]
      \cup [e : {"signal", "progress", "flashCancelled"}, x : Statuses \cup Signals]
Bridges == [state : {"Uninitialized", "Ready", "Shutdown"}, pending : Int, disc : SUBSET Paths, op : Ops]

Runtimes == [alive : BOOLEAN, connected : Args \cup {NoPath}, pkg : Args \cup {NothingLoaded}, cancelled : BOOLEAN]
Widgets == [list : Lists, op : Ops, start : BOOLEAN, label : Labels]

\* The state of the bridge, of the pool and of the widgets.
BTypes ==
    /\ gui \in {"loop", "closing"} /\ gqueue \in Seq(Events) /\ bridge \in Bridges
    /\ brt \in Runtimes
    /\ tasks \in SUBSET Tasks /\ IsFiniteSet(tasks) /\ bcalls \in Nat
    /\ widget \in Widgets

\* Every task has a number of its own.
Numbered == \A t \in tasks : t.id < bcalls /\ (\A u \in tasks : t.id = u.id => t = u)

\* The bridge is ready while it has a Runtime; before that nothing has happened.
Phases ==
    /\ bridge.state = "Ready" => brt.alive
    /\ bridge.state = "Uninitialized" => ~ brt.alive /\ bridge.disc = {} /\ gqueue = <<>> /\ tasks = {} /\ widget.list = {}

\* Ends of calls still to be handled, in queue q.
Ending(ev) == ev.e = "finished" /\ Counted(ev.x.kind)
Endings(q) == {i \in DOMAIN q : Ending(q[i])}
Running == {t \in tasks : Counted(t.kind)}

\* Events whose handler posts the list anew; and the last list of a queue.
Refreshes(ev) == ev.e = "connected" \/ (ev.e = "finished" /\ ev.x.kind \in {"connect", "disconnect", "discover"})
NoList(q) == \A i \in DOMAIN q : q[i].e # "list"
LastList(q, V) ==
    \E i \in DOMAIN q : q[i].e = "list" /\ q[i].x = V /\ (\A j \in DOMAIN q : i < j => q[j].e # "list")

\* List l is V, or will be once queue q has been handled.
WillShow(q, l, V) == (\E i \in DOMAIN q : Refreshes(q[i])) \/ LastList(q, V) \/ (NoList(q) /\ l = V)

\* While the pool connects or disconnects, the last list may be of a mixed reading; the end
\* of that call refreshes it.
Shows == bridge.state = "Ready" /\ Changing = {} => WillShow(gqueue, widget.list, View(bridge.disc, brt.connected))

BIInv == BTypes /\ Numbered /\ Phases /\ PendingIsExact /\ RuntimeOutlivesTasks /\ Shows

------------------------------------------------------------------------------
\* What the count of the bridge is compared with, in these terms.
LEMMA PendingMeans == PendingIsExact <=> bridge.pending = Cardinality(Running) + Cardinality(Endings(gqueue))
  <1>1. FinishedEvents = Endings(gqueue) /\ {t \in tasks : Counted(t.kind)} = Running
    BY DEF FinishedEvents, Endings, Ending, Running
  <1> QED BY <1>1, Zenon DEF PendingIsExact

LEMMA PendingMeansLater ==
  PendingIsExact' <=> bridge'.pending = Cardinality(Running') + Cardinality(Endings(gqueue'))
  <1>1. FinishedEvents' = Endings(gqueue') /\ {t \in tasks' : Counted(t.kind)} = Running'
    BY DEF FinishedEvents, Endings, Ending, Running
  <1> QED BY <1>1, Zenon DEF PendingIsExact

\* Nothing is shown, nothing runs.
LEMMA BridgeStarts == BInit => BIInv
  <1> SUFFICES ASSUME BInit PROVE BIInv
    OBVIOUS
  <1>1. NoOperation \in Ops
    BY DEF NoOperation, Ops, Statuses
  <1>2. IsFiniteSet({}) /\ Cardinality({}) = 0
    BY FS_EmptySet
  <1>3. gqueue = <<>> /\ tasks = {} /\ bcalls = 0 /\ gui = "loop"
    BY DEF BInit
  <1>4. bridge \in Bridges /\ bridge.state = "Uninitialized" /\ bridge.pending = 0 /\ bridge.disc = {}
    <2>1. bridge = [state |-> "Uninitialized", pending |-> 0, disc |-> {}, op |-> NoOperation]
      BY DEF BInit
    <2> QED BY <1>1, <2>1 DEF Bridges
  <1>5. brt \in Runtimes /\ brt.alive = FALSE
    BY DEF BInit, Runtimes
  <1>6. widget \in Widgets /\ widget.list = {}
    BY <1>1 DEF BInit, Widgets, Lists, Labels
  <1>7. gqueue \in Seq(Events) /\ DOMAIN gqueue = {}
    BY <1>3
  <1>8. BTypes
    BY <1>2, <1>3, <1>4, <1>5, <1>6, <1>7 DEF BTypes
  <1>9. Numbered /\ Phases /\ RuntimeOutlivesTasks /\ Shows
    BY <1>3, <1>4, <1>5, <1>6 DEF Numbered, Phases, RuntimeOutlivesTasks, Shows
  <1>10. Endings(gqueue) = {} /\ Running = {}
    BY <1>3, <1>7 DEF Endings, Running
  <1>11. PendingIsExact
    BY <1>2, <1>4, <1>10, PendingMeans
  <1> QED BY <1>8, <1>9, <1>11 DEF BIInv

\* The ends in a queue are finitely many.
LEMMA EndingsFinite ==
  ASSUME NEW q \in Seq(Events)
  PROVE  IsFiniteSet(Endings(q)) /\ Cardinality(Endings(q)) \in Nat
  <1>1. DOMAIN q = 1..Len(q) /\ Len(q) \in Nat
    OBVIOUS
  <1>2. IsFiniteSet(1..Len(q))
    BY <1>1, FS_Interval
  <1>3. Endings(q) \in SUBSET (1..Len(q))
    BY <1>1 DEF Endings
  <1>4. IsFiniteSet(Endings(q))
    BY <1>2, <1>3, FS_Subset
  <1> QED BY <1>4, FS_CardinalityType

\* What is posted after a queue does not move its events.
LEMMA Posted ==
  ASSUME NEW q \in Seq(Events), NEW r \in Seq(Events)
  PROVE  /\ q \o r \in Seq(Events) /\ Len(q \o r) = Len(q) + Len(r)
         /\ \A i \in DOMAIN q : i \in DOMAIN (q \o r) /\ (q \o r)[i] = q[i]
         /\ \A i \in DOMAIN r : Len(q) + i \in DOMAIN (q \o r) /\ (q \o r)[Len(q) + i] = r[i]
         /\ \A i \in DOMAIN (q \o r) : i \in DOMAIN q \/ (i - Len(q) \in DOMAIN r /\ (q \o r)[i] = r[i - Len(q)])
  OBVIOUS

\* Events that are not ends of calls leave the count of them.
LEMMA OthersPosted ==
  ASSUME NEW q \in Seq(Events), NEW r \in Seq(Events), \A i \in DOMAIN r : ~ Ending(r[i])
  PROVE  Endings(q \o r) = Endings(q)
  <1>1. \A i \in Endings(q \o r) : i \in Endings(q)
    BY Posted DEF Endings
  <1>2. \A i \in Endings(q) : i \in Endings(q \o r)
    BY Posted DEF Endings
  <1> QED BY <1>1, <1>2

\* The end of a call adds one.
LEMMA EndPosted ==
  ASSUME NEW q \in Seq(Events), NEW ev \in Events
  PROVE  /\ Append(q, ev) \in Seq(Events)
         /\ Ending(ev) => Cardinality(Endings(Append(q, ev))) = Cardinality(Endings(q)) + 1
         /\ ~ Ending(ev) => Endings(Append(q, ev)) = Endings(q)
  <1>1. /\ Append(q, ev) \in Seq(Events) /\ DOMAIN Append(q, ev) = DOMAIN q \cup {Len(q) + 1}
        /\ \A i \in DOMAIN q : Append(q, ev)[i] = q[i] /\ i # Len(q) + 1
        /\ Append(q, ev)[Len(q) + 1] = ev
    OBVIOUS
  <1>2. ~ Ending(ev) => Endings(Append(q, ev)) = Endings(q)
    BY <1>1 DEF Endings
  <1>3. ASSUME Ending(ev)
        PROVE  Cardinality(Endings(Append(q, ev))) = Cardinality(Endings(q)) + 1
    <2>1. Endings(Append(q, ev)) = Endings(q) \cup {Len(q) + 1} /\ Len(q) + 1 \notin Endings(q)
      BY <1>1, <1>3 DEF Endings
    <2> QED BY <2>1, EndingsFinite, FS_AddElement
  <1> QED BY <1>1, <1>2, <1>3

\* Taking the head off a queue takes one end off, or none.
LEMMA EndTaken ==
  ASSUME NEW q \in Seq(Events), q # <<>>
  PROVE  /\ Tail(q) \in Seq(Events) /\ Head(q) \in Events
         /\ Ending(Head(q)) => Cardinality(Endings(q)) = Cardinality(Endings(Tail(q))) + 1
         /\ ~ Ending(Head(q)) => Cardinality(Endings(q)) = Cardinality(Endings(Tail(q)))
  <1> DEFINE A == Endings(Tail(q))
             C == Endings(q) \ {1}
             f == [i \in A |-> i + 1]
  <1>1. /\ Tail(q) \in Seq(Events) /\ Head(q) \in Events /\ Head(q) = q[1] /\ 1 \in DOMAIN q
        /\ \A i \in DOMAIN Tail(q) : i \in Nat /\ i + 1 \in DOMAIN q /\ i # 0 /\ Tail(q)[i] = q[i + 1]
        /\ \A i \in DOMAIN q \ {1} : i \in Nat /\ i - 1 \in DOMAIN Tail(q) /\ i = (i - 1) + 1
    OBVIOUS
  <1>2. \A i \in A : i \in Nat /\ i + 1 \in C
    BY <1>1 DEF Endings
  <1>3. \A i \in C : i - 1 \in A /\ i = (i - 1) + 1
    BY <1>1 DEF Endings
  <1>4. f \in Bijection(A, C)
    <2>1. f \in [A -> C] /\ (\A i, j \in A : f[i] = f[j] => i = j)
      BY <1>2
    <2>2. \A i \in C : \E j \in A : f[j] = i
      BY <1>3
    <2> QED BY <2>1, <2>2 DEF Bijection, Injection, Surjection, IsInjective
  <1>5. IsFiniteSet(A) /\ IsFiniteSet(Endings(q)) /\ Cardinality(A) \in Nat /\ Cardinality(Endings(q)) \in Nat
    BY <1>1, EndingsFinite
  <1>6. Cardinality(C) = Cardinality(A)
    BY <1>4, <1>5, FS_Bijection DEF ExistsBijection
  <1>7. 1 \in Endings(q) <=> Ending(Head(q))
    BY <1>1 DEF Endings
  <1>8. 1 \in Endings(q) => Cardinality(C) = Cardinality(Endings(q)) - 1
    BY <1>5, FS_RemoveElement
  <1>9. 1 \notin Endings(q) => C = Endings(q)
    OBVIOUS
  <1>10. Ending(Head(q)) => Cardinality(Endings(q)) = Cardinality(A) + 1
    BY <1>5, <1>6, <1>7, <1>8
  <1>11. ~ Ending(Head(q)) => Cardinality(Endings(q)) = Cardinality(A)
    BY <1>6, <1>7, <1>9
  <1> QED BY <1>1, <1>10, <1>11

------------------------------------------------------------------------------
(* The list shown.                                                           *)

\* A list stays the last one when no other follows, and is it when it comes last.
LEMMA LastStays ==
  ASSUME NEW q \in Seq(Events), NEW r \in Seq(Events), NoList(r), NEW V, LastList(q, V)
  PROVE  LastList(q \o r, V)
  <1>1. PICK i \in DOMAIN q : q[i].e = "list" /\ q[i].x = V /\ (\A j \in DOMAIN q : i < j => q[j].e # "list")
    BY DEF LastList
  <1>2. i \in DOMAIN (q \o r) /\ (q \o r)[i] = q[i]
    BY Posted
  <1>3. \A j \in DOMAIN (q \o r) : i < j => (q \o r)[j].e # "list"
    BY <1>1, Posted DEF NoList
  <1> QED BY <1>1, <1>2, <1>3 DEF LastList

LEMMA ComesLast ==
  ASSUME NEW q \in Seq(Events), NEW r \in Seq(Events), NEW V, LastList(r, V)
  PROVE  LastList(q \o r, V)
  <1>1. PICK i \in DOMAIN r : r[i].e = "list" /\ r[i].x = V /\ (\A j \in DOMAIN r : i < j => r[j].e # "list")
    BY DEF LastList
  <1>2. Len(q) + i \in DOMAIN (q \o r) /\ (q \o r)[Len(q) + i] = r[i]
    BY Posted
  <1>3. ASSUME NEW j \in DOMAIN (q \o r), Len(q) + i < j
        PROVE  (q \o r)[j].e # "list"
    <2>1. j - Len(q) \in DOMAIN r /\ (q \o r)[j] = r[j - Len(q)] /\ i < j - Len(q)
      BY <1>3
    <2> QED BY <1>1, <2>1
  <1> QED BY <1>1, <1>2, <1>3 DEF LastList

\* Events that are no lists change nothing in what will be shown.
LEMMA NoListPosted ==
  ASSUME NEW q \in Seq(Events), NEW r \in Seq(Events), NoList(r), NEW l, NEW V, WillShow(q, l, V)
  PROVE  WillShow(q \o r, l, V)
  <1>1. CASE \E i \in DOMAIN q : Refreshes(q[i])
    <2>1. PICK i \in DOMAIN q : Refreshes(q[i])
      BY <1>1
    <2>2. i \in DOMAIN (q \o r) /\ (q \o r)[i] = q[i]
      BY Posted
    <2> QED BY <2>1, <2>2 DEF WillShow
  <1>2. CASE LastList(q, V)
    <2>1. LastList(q \o r, V)
      BY <1>2, LastStays
    <2> QED BY <2>1 DEF WillShow
  <1>3. CASE NoList(q) /\ l = V
    <2>1. NoList(q \o r)
      BY <1>3, Posted DEF NoList
    <2> QED BY <1>3, <2>1 DEF WillShow
  <1> QED BY <1>1, <1>2, <1>3 DEF WillShow

\* The last of the lists posted is the one that will be shown.
LEMMA ListPosted ==
  ASSUME NEW q \in Seq(Events), NEW r \in Seq(Events), NEW l, NEW V, LastList(r, V)
  PROVE  WillShow(q \o r, l, V)
  BY ComesLast DEF WillShow

\* The head of the queue is shown, if it is a list.
LEMMA HeadShown ==
  ASSUME NEW q \in Seq(Events), q # <<>>, ~ Refreshes(Head(q)), NEW l, NEW V, WillShow(q, l, V), NEW m,
         Head(q).e = "list" => m = Head(q).x, Head(q).e # "list" => m = l
  PROVE  WillShow(Tail(q), m, V)
  <1>1. /\ Tail(q) \in Seq(Events) /\ Head(q) = q[1] /\ 1 \in DOMAIN q
        /\ \A i \in DOMAIN Tail(q) : i \in Nat /\ i + 1 \in DOMAIN q /\ i # 0 /\ Tail(q)[i] = q[i + 1]
        /\ \A i \in DOMAIN q \ {1} : i \in Nat /\ i > 1 /\ i - 1 \in DOMAIN Tail(q) /\ Tail(q)[i - 1] = q[i]
    OBVIOUS
  <1>2. CASE \E i \in DOMAIN q : Refreshes(q[i])
    <2>1. PICK i \in DOMAIN q : Refreshes(q[i])
      BY <1>2
    <2>2. i # 1
      BY <1>1, <2>1
    <2>3. i - 1 \in DOMAIN Tail(q) /\ Tail(q)[i - 1] = q[i]
      BY <1>1, <2>2
    <2>4. \E j \in DOMAIN Tail(q) : Refreshes(Tail(q)[j])
      BY <2>1, <2>3
    <2> QED BY <2>4 DEF WillShow
  <1>3. CASE LastList(q, V)
    <2>1. PICK i \in DOMAIN q : q[i].e = "list" /\ q[i].x = V /\ (\A j \in DOMAIN q : i < j => q[j].e # "list")
      BY <1>3 DEF LastList
    <2>2. CASE i = 1
      <3>1. NoList(Tail(q))
        BY <1>1, <2>1, <2>2 DEF NoList
      <3>2. m = V
        BY <1>1, <2>1, <2>2
      <3> QED BY <3>1, <3>2 DEF WillShow
    <2>3. CASE i # 1
      <3>1. i - 1 \in DOMAIN Tail(q) /\ Tail(q)[i - 1] = q[i] /\ i \in Nat
        BY <1>1, <2>3
      <3>2. \A j \in DOMAIN Tail(q) : i - 1 < j => Tail(q)[j].e # "list"
        BY <1>1, <2>1, <3>1
      <3>3. LastList(Tail(q), V)
        BY <2>1, <3>1, <3>2 DEF LastList
      <3> QED BY <3>3 DEF WillShow
    <2> QED BY <2>2, <2>3
  <1>4. CASE NoList(q) /\ l = V
    <2>1. NoList(Tail(q)) /\ Head(q).e # "list"
      BY <1>1, <1>4 DEF NoList
    <2> QED BY <1>4, <2>1 DEF WillShow
  <1> QED BY <1>2, <1>3, <1>4 DEF WillShow

------------------------------------------------------------------------------
(* The handlers.                                                             *)

Refreshers == {"connect", "disconnect", "discover"}

\* What a handler of the end of a call of kind k makes of bridge b: it ends no
\* other call, and posts the list, with the path it has seen, if and only if it has changed it.
Posts(h, b, k, seen) ==
    /\ h \in [b : Bridges, events : Seq(Events)] /\ h.b.state = b.state /\ h.b.pending = b.pending
    /\ \A i \in DOMAIN h.events : h.events[i].e # "finished"
    /\ k \in Refreshers /\ brt.alive => LastList(h.events, View(h.b.disc, seen))
    /\ k \notin Refreshers => NoList(h.events) /\ h.b.disc = b.disc

\* The events that handlers post.
LEMMA Postable ==
  /\ \A s \in SUBSET Paths : \A c : Event("list", View(s, c)) \in Events
  /\ \A op \in Ops : Event("operation", op) \in Events
  /\ \A p \in Args : Event("connected", p) \in Events
  /\ \A r \in BOOLEAN : Event("packageLoaded", r) \in Events /\ Event("result", r) \in Events
  /\ \A x \in Ended : Event("loaded", x) \in Events /\ Event("finished", x) \in Events
  /\ \A m \in Signals : Event("signal", m) \in Events /\ Event("flashCancelled", m) \in Events
  /\ \A m \in Statuses : Event("progress", m) \in Events
  <1>1. \A s \in SUBSET Paths : \A c : Event("list", View(s, c)) \in Events
    <2> SUFFICES ASSUME NEW s \in SUBSET Paths, NEW c
                 PROVE  Event("list", View(s, c)) \in Events
      OBVIOUS
    <2>1. \A p \in s : <<p, p = c>> \in Paths \X BOOLEAN
      OBVIOUS
    <2>2. View(s, c) \in Lists
      BY <2>1, Zenon DEF View, Lists
    <2> QED BY <2>2 DEF Event, Events
  <1>2. \A op \in Ops : Event("operation", op) \in Events
    BY DEF Event, Events
  <1>3. \A p \in Args : Event("connected", p) \in Events
    BY DEF Event, Events
  <1>4. \A r \in BOOLEAN : Event("packageLoaded", r) \in Events /\ Event("result", r) \in Events
    BY DEF Event, Events
  <1>5. \A x \in Ended : Event("loaded", x) \in Events /\ Event("finished", x) \in Events
    BY DEF Event, Events
  <1>6. \A m \in Signals : Event("signal", m) \in Events /\ Event("flashCancelled", m) \in Events
    BY DEF Event, Events
  <1>7. \A m \in Statuses : Event("progress", m) \in Events
    BY DEF Event, Events
  <1> QED BY <1>1, <1>2, <1>3, <1>4, <1>5, <1>6, <1>7

\* Events that end no call.
Silent(q) == q \in Seq(Events) /\ (\A i \in DOMAIN q : q[i].e # "finished")

LEMMA SilentNothing == Silent(<<>>) /\ NoList(<<>>)
  BY DEF Silent, NoList

LEMMA SilentEvent ==
  ASSUME NEW ev \in Events, ev.e # "finished"
  PROVE  Silent(<<ev>>) /\ (ev.e # "list" => NoList(<<ev>>)) /\ (ev.e = "list" => LastList(<<ev>>, ev.x))
  BY DEF Silent, NoList, LastList

LEMMA SilentBoth ==
  ASSUME NEW q, NEW r, Silent(q), Silent(r)
  PROVE  Silent(q \o r) /\ (NoList(q) /\ NoList(r) => NoList(q \o r))
  <1>1. q \in Seq(Events) /\ r \in Seq(Events)
    BY DEF Silent
  <1>2. Silent(q \o r)
    BY <1>1, Posted DEF Silent
  <1>3. NoList(q) /\ NoList(r) => NoList(q \o r)
    BY <1>1, Posted DEF NoList
  <1> QED BY <1>2, <1>3

\* What updateDeviceList() posts ends no call.
LEMMA SilentList ==
  ASSUME NEW seen, NEW b \in Bridges
  PROVE  /\ Silent(updateDeviceList(b, seen))
         /\ brt.alive => LastList(updateDeviceList(b, seen), View(b.disc, seen))
  <1> DEFINE ev == Event("list", View(b.disc, seen))
  <1>1. b.disc \in SUBSET Paths
    BY DEF Bridges
  <1>2. ev \in Events /\ ev.e = "list" /\ ev.x = View(b.disc, seen)
    BY <1>1, Postable DEF Event
  <1>3. Silent(<<ev>>) /\ LastList(<<ev>>, ev.x)
    BY <1>2, SilentEvent
  <1>4. updateDeviceList(b, seen) = IF brt.alive THEN <<ev>> ELSE <<>>
    BY DEF updateDeviceList
  <1> QED BY <1>2, <1>3, <1>4, SilentNothing

LEMMA DiscoveredPosts ==
  ASSUME NEW seen, NEW b \in Bridges, NEW x \in Ended, x.kind = "discover"
  PROVE  Posts(onDiscovered(b, x, seen), b, x.kind, seen)
  <1> DEFINE c == [b EXCEPT !.disc = IF x.res THEN Paths ELSE {}]
             ev == Event("list", View(c.disc, NoPath))
             h == onDiscovered(b, x, seen)
  <1>1. c \in Bridges /\ c.state = b.state /\ c.pending = b.pending /\ c.disc \in SUBSET Paths
    BY DEF Bridges
  <1>2. h = [b |-> c, events |-> <<ev>> \o updateDeviceList(c, seen)] /\ h.b = c /\ h.events = <<ev>> \o updateDeviceList(c, seen)
    BY DEF onDiscovered, Handled
  <1> HIDE DEF c
  <1>3. ev \in Events /\ ev.e = "list"
    BY <1>1, Postable DEF Event
  <1>4. Silent(<<ev>>)
    BY <1>3, SilentEvent
  <1>5. Silent(updateDeviceList(c, seen)) /\ (brt.alive => LastList(updateDeviceList(c, seen), View(c.disc, seen)))
    BY <1>1, SilentList
  <1>6. Silent(h.events)
    BY <1>2, <1>4, <1>5, SilentBoth
  <1>7. brt.alive => LastList(h.events, View(c.disc, seen))
    BY <1>2, <1>4, <1>5, ComesLast DEF Silent
  <1> HIDE DEF h
  <1>8. Posts(h, b, x.kind, seen)
    BY <1>1, <1>2, <1>6, <1>7 DEF Posts, Refreshers, Silent
  <1> QED BY <1>8 DEF h

LEMMA ConnectedPosts ==
  ASSUME NEW seen, NEW b \in Bridges, NEW x \in Ended, x.kind = "connect"
  PROVE  Posts(onConnected(b, x, seen), b, x.kind, seen)
  <1> DEFINE ev == IF x.res THEN Event("connected", x.arg) ELSE Event("signal", "connectionFailed")
             h == onConnected(b, x, seen)
  <1>1. h = [b |-> b, events |-> <<ev>> \o updateDeviceList(b, seen)] /\ h.b = b /\ h.events = <<ev>> \o updateDeviceList(b, seen)
    BY DEF onConnected, Handled
  <1>2. ev \in Events /\ ev.e # "finished"
    <2>1. x.arg \in Args /\ "connectionFailed" \in Signals
      BY DEF Ended, Signals
    <2>2. Event("connected", x.arg) \in Events /\ Event("signal", "connectionFailed") \in Events
      BY <2>1, Postable
    <2> QED BY <2>2 DEF Event
  <1> HIDE DEF ev
  <1>3. Silent(<<ev>>)
    BY <1>2, SilentEvent
  <1>4. Silent(updateDeviceList(b, seen)) /\ (brt.alive => LastList(updateDeviceList(b, seen), View(b.disc, seen)))
    BY SilentList
  <1>5. Silent(h.events)
    BY <1>1, <1>3, <1>4, SilentBoth
  <1>6. brt.alive => LastList(h.events, View(b.disc, seen))
    BY <1>1, <1>3, <1>4, ComesLast DEF Silent
  <1> HIDE DEF h
  <1>7. Posts(h, b, x.kind, seen)
    BY <1>1, <1>5, <1>6 DEF Posts, Refreshers, Silent
  <1> QED BY <1>7 DEF h

LEMMA DisconnectedPosts ==
  ASSUME NEW seen, NEW b \in Bridges, NEW x \in Ended, x.kind = "disconnect"
  PROVE  Posts(onDisconnected(b, x, seen), b, x.kind, seen)
  <1> DEFINE ev == Event("signal", "disconnected")
             h == onDisconnected(b, x, seen)
  <1>1. h = [b |-> b, events |-> updateDeviceList(b, seen) \o <<ev>>] /\ h.b = b /\ h.events = updateDeviceList(b, seen) \o <<ev>>
    BY DEF onDisconnected, Handled
  <1>2. ev \in Events /\ ev.e = "signal"
    BY Postable DEF Event, Signals
  <1>3. Silent(<<ev>>) /\ NoList(<<ev>>)
    BY <1>2, SilentEvent
  <1>4. Silent(updateDeviceList(b, seen)) /\ (brt.alive => LastList(updateDeviceList(b, seen), View(b.disc, seen)))
    BY SilentList
  <1>5. Silent(h.events)
    BY <1>1, <1>3, <1>4, SilentBoth
  <1>6. brt.alive => LastList(h.events, View(b.disc, seen))
    BY <1>1, <1>3, <1>4, LastStays DEF Silent
  <1> HIDE DEF h
  <1>7. Posts(h, b, x.kind, seen)
    BY <1>1, <1>5, <1>6 DEF Posts, Refreshers, Silent
  <1> QED BY <1>7 DEF h

\* The handlers that leave the devices alone: they post no list.
LEMMA OthersPost ==
  ASSUME NEW seen, NEW b \in Bridges, NEW c \in Bridges, c.state = b.state, c.pending = b.pending, c.disc = b.disc,
         NEW r, Silent(r), NoList(r), NEW k, k \notin Refreshers
  PROVE  Posts(Handled(c, r), b, k, seen)
  <1>1. Handled(c, r) = [b |-> c, events |-> r]
    BY DEF Handled
  <1> QED BY <1>1 DEF Posts, Silent

\* One event that is no list and ends no call; and the operation shown.
Plain(ev) == ev \in Events /\ ev.e \notin {"finished", "list"}

LEMMA PlainEvent ==
  ASSUME NEW ev, Plain(ev)
  PROVE  Silent(<<ev>>) /\ NoList(<<ev>>)
  BY SilentEvent DEF Plain

LEMMA PlainPair ==
  ASSUME NEW u, NEW v, Plain(u), Plain(v)
  PROVE  Silent(<<u, v>>) /\ NoList(<<u, v>>)
  BY DEF Silent, NoList, Plain

LEMMA PlainEvents ==
  /\ \A op \in Ops : Plain(Event("operation", op))
  /\ \A r \in BOOLEAN : Plain(Event("packageLoaded", r)) /\ Plain(Event("result", r))
  /\ \A x \in Ended : Plain(Event("loaded", x))
  /\ \A m \in Signals : Plain(Event("signal", m)) /\ Plain(Event("flashCancelled", m))
  /\ \A m \in Statuses : Plain(Event("progress", m))
  BY Postable DEF Plain, Event

LEMMA LoadedPosts ==
  ASSUME NEW seen, NEW b \in Bridges, NEW x \in Ended, x.kind = "load"
  PROVE  Posts(onLoaded(b, x), b, x.kind, seen)
  <1> DEFINE r == <<Event("loaded", x), Event("operation", NoOperation), Event("packageLoaded", x.res)>>
             o == updateFlashOperation(b)
  <1>1. NoOperation \in Ops /\ b.op \in Ops /\ x.res \in BOOLEAN
    BY DEF NoOperation, Ops, Statuses, Bridges, Ended
  <1>2. Plain(Event("loaded", x)) /\ Plain(Event("operation", NoOperation)) /\ Plain(Event("packageLoaded", x.res))
    BY <1>1, PlainEvents
  <1>3. Silent(r) /\ NoList(r)
    BY <1>2 DEF Silent, NoList, Plain
  <1>4. Silent(o) /\ NoList(o)
    BY <1>1, PlainEvents, PlainEvent DEF updateFlashOperation
  <1> HIDE DEF r, o
  <1>5. Silent(r \o o) /\ NoList(r \o o)
    BY <1>3, <1>4, SilentBoth
  <1>6. onLoaded(b, x) = Handled(b, r \o o)
    BY DEF onLoaded, r, o
  <1> QED BY <1>5, <1>6, OthersPost DEF Refreshers

LEMMA ValidatedPosts ==
  ASSUME NEW seen, NEW b \in Bridges, NEW x \in Ended, x.kind = "validate"
  PROVE  Posts(onValidated(b, x), b, x.kind, seen)
  <1> DEFINE c == [b EXCEPT !.op.canStart = x.res /\ brt.alive /\ brt.connected # NoPath]
             r == <<Event("signal", "firmwareValidated")>>
             o == updateFlashOperation(c)
  <1>1. c \in Bridges /\ c.state = b.state /\ c.pending = b.pending /\ c.disc = b.disc /\ c.op \in Ops
    <2>1. (x.res /\ brt.alive /\ brt.connected # NoPath) \in BOOLEAN /\ b.op \in Ops
      BY DEF Bridges
    <2>2. [b.op EXCEPT !.canStart = x.res /\ brt.alive /\ brt.connected # NoPath] \in Ops
      BY <2>1 DEF Ops
    <2> QED BY <2>2 DEF Bridges
  <1> HIDE DEF c
  <1>2. Silent(r) /\ NoList(r)
    BY PlainEvents, PlainEvent DEF Signals
  <1>3. Silent(o) /\ NoList(o)
    BY <1>1, PlainEvents, PlainEvent DEF updateFlashOperation
  <1> HIDE DEF r, o
  <1>4. Silent(o \o r) /\ NoList(o \o r)
    BY <1>2, <1>3, SilentBoth
  <1>5. onValidated(b, x) = Handled(c, o \o r)
    BY DEF onValidated, r, o, c
  <1> QED BY <1>1, <1>4, <1>5, OthersPost DEF Refreshers

LEMMA FlashedPosts ==
  ASSUME NEW seen, NEW b \in Bridges, NEW x \in Ended, x.kind = "flash"
  PROVE  Posts(onFlashed(b, x), b, x.kind, seen)
  <1> DEFINE s == IF x.res THEN "Completed" ELSE "Failed"
             c == [b EXCEPT !.op.status = IF x.res THEN "Completed" ELSE "Failed", !.op.canStart = FALSE]
             q == <<Event("signal", IF x.res THEN "flashCompleted" ELSE "flashFailed")>>
             o == updateFlashOperation(c)
             r == <<Event("progress", c.op.status), Event("result", x.res)>>
  <1>1. c \in Bridges /\ c.state = b.state /\ c.pending = b.pending /\ c.disc = b.disc /\ c.op \in Ops
    <2>1. s \in Statuses /\ b.op \in Ops
      BY DEF Bridges, Statuses
    <2>2. [b.op EXCEPT !.status = s, !.canStart = FALSE] \in Ops
      BY <2>1 DEF Ops
    <2>3. c = [b EXCEPT !.op = [b.op EXCEPT !.status = s, !.canStart = FALSE]]
      BY <2>1 DEF Bridges, Ops
    <2> QED BY <2>2, <2>3 DEF Bridges
  <1> HIDE DEF c
  <1>2. Silent(q) /\ NoList(q)
    BY PlainEvents, PlainEvent DEF Signals
  <1>3. Silent(o) /\ NoList(o)
    BY <1>1, PlainEvents, PlainEvent DEF updateFlashOperation
  <1>4. Silent(r) /\ NoList(r)
    <2>1. c.op.status \in Statuses /\ x.res \in BOOLEAN
      BY <1>1 DEF Ops, Ended
    <2>2. Plain(Event("progress", c.op.status)) /\ Plain(Event("result", x.res))
      BY <2>1, PlainEvents
    <2> QED BY <2>2, PlainPair
  <1> HIDE DEF q, r, o
  <1>5. Silent(q \o o \o r) /\ NoList(q \o o \o r)
    BY <1>2, <1>3, <1>4, SilentBoth
  <1>6. onFlashed(b, x) = Handled(c, q \o o \o r)
    BY DEF onFlashed, q, r, o, c
  <1> QED BY <1>1, <1>5, <1>6, OthersPost DEF Refreshers

LEMMA CancelledPosts ==
  ASSUME NEW seen, NEW b \in Bridges, NEW x \in Ended, x.kind = "cancel"
  PROVE  Posts(onCancelled(b, x), b, x.kind, seen)
  <1> DEFINE c == [b EXCEPT !.op.status = "Cancelled", !.op.canStart = TRUE]
             o == updateFlashOperation(c)
             r == <<Event("progress", "Cancelled"), Event("flashCancelled", "")>>
  <1>1. c \in Bridges /\ c.state = b.state /\ c.pending = b.pending /\ c.disc = b.disc /\ c.op \in Ops
    <2>1. b.op \in Ops
      BY DEF Bridges
    <2>2. [b.op EXCEPT !.status = "Cancelled", !.canStart = TRUE] \in Ops
      BY <2>1 DEF Ops, Statuses
    <2>3. c = [b EXCEPT !.op = [b.op EXCEPT !.status = "Cancelled", !.canStart = TRUE]]
      BY <2>1 DEF Bridges, Ops
    <2> QED BY <2>2, <2>3 DEF Bridges
  <1> HIDE DEF c
  <1>2. Silent(o) /\ NoList(o)
    BY <1>1, PlainEvents, PlainEvent DEF updateFlashOperation
  <1>3. Silent(r) /\ NoList(r)
    <2>1. Plain(Event("progress", "Cancelled")) /\ Plain(Event("flashCancelled", ""))
      BY PlainEvents DEF Statuses, Signals
    <2> QED BY <2>1, PlainPair
  <1> HIDE DEF r, o
  <1>4. Silent(o \o r) /\ NoList(o \o r)
    BY <1>2, <1>3, SilentBoth
  <1>5. onCancelled(b, x) = Handled(c, o \o r)
    BY DEF onCancelled, r, o, c
  <1> QED BY <1>1, <1>4, <1>5, OthersPost DEF Refreshers

LEMMA UnloadedPosts ==
  ASSUME NEW seen, NEW b \in Bridges, NEW x \in Ended, x.kind = "unload"
  PROVE  Posts(onUnloaded(b, x), b, x.kind, seen)
  <1> DEFINE r == IF x.res THEN <<Event("signal", "pluginListChanged")>> ELSE <<Event("signal", "error")>>
  <1>1. Plain(Event("signal", "pluginListChanged")) /\ Plain(Event("signal", "error"))
    BY PlainEvents DEF Signals
  <1>2. Silent(r) /\ NoList(r)
    BY <1>1, PlainEvent
  <1> HIDE DEF r
  <1>3. onUnloaded(b, x) = Handled(b, r)
    BY DEF onUnloaded, r
  <1> QED BY <1>2, <1>3, OthersPost DEF Refreshers

\* The handler of the end of any call: what it posts, and that it counts the call.
LEMMA FinishedPosts ==
  ASSUME NEW seen, NEW b \in Bridges, NEW x \in Ended
  PROVE  LET h == Finished(b, x, seen)
         IN  /\ h.b \in Bridges /\ h.b.state = b.state /\ Silent(h.events)
             /\ h.b.pending = IF Counted(x.kind) THEN b.pending - 1 ELSE b.pending
             /\ x.kind \in Refreshers /\ brt.alive => LastList(h.events, View(h.b.disc, seen))
             /\ x.kind \notin Refreshers => NoList(h.events) /\ h.b.disc = b.disc
  <1> DEFINE g == CASE x.kind = "discover" -> onDiscovered(b, x, seen)
                    [] x.kind = "connect" -> onConnected(b, x, seen)
                    [] x.kind = "disconnect" -> onDisconnected(b, x, seen)
                    [] x.kind = "load" -> onLoaded(b, x)
                    [] x.kind = "validate" -> onValidated(b, x)
                    [] x.kind = "flash" -> onFlashed(b, x)
                    [] x.kind = "cancel" -> onCancelled(b, x)
                    [] x.kind = "unload" -> onUnloaded(b, x)
             n == IF Counted(x.kind) THEN g.b.pending - 1 ELSE g.b.pending
             h == Finished(b, x, seen)
  <1>1. Posts(g, b, x.kind, seen)
    <2>1. x.kind \in Kinds
      BY DEF Ended
    <2>2. CASE x.kind = "discover"
      BY <2>2, DiscoveredPosts
    <2>3. CASE x.kind = "connect"
      BY <2>3, ConnectedPosts
    <2>4. CASE x.kind = "disconnect"
      BY <2>4, DisconnectedPosts
    <2>5. CASE x.kind = "load"
      BY <2>5, LoadedPosts
    <2>6. CASE x.kind = "validate"
      BY <2>6, ValidatedPosts
    <2>7. CASE x.kind = "flash"
      BY <2>7, FlashedPosts
    <2>8. CASE x.kind = "cancel"
      BY <2>8, CancelledPosts
    <2>9. CASE x.kind = "unload"
      BY <2>9, UnloadedPosts
    <2> QED BY <2>1, <2>2, <2>3, <2>4, <2>5, <2>6, <2>7, <2>8, <2>9 DEF Kinds
  <1>2. h = [g EXCEPT !.b.pending = IF Counted(x.kind) THEN @ - 1 ELSE @]
    BY DEF Finished
  <1> HIDE DEF g, h
  <1>3. g \in [b : Bridges, events : Seq(Events)] /\ g.b \in Bridges /\ g.b.pending = b.pending /\ b.pending \in Int
    BY <1>1 DEF Posts, Bridges
  <1>4. h.events = g.events /\ h.b = [g.b EXCEPT !.pending = n] /\ n \in Int
    BY <1>2, <1>3
  <1>5. h.b \in Bridges /\ h.b.state = g.b.state /\ h.b.disc = g.b.disc /\ h.b.pending = n
    BY <1>3, <1>4 DEF Bridges
  <1>6. g.b.state = b.state /\ Silent(g.events)
    BY <1>1 DEF Posts, Silent
  <1>7. x.kind \in Refreshers /\ brt.alive => LastList(g.events, View(g.b.disc, seen))
    BY <1>1 DEF Posts
  <1>8. x.kind \notin Refreshers => NoList(g.events) /\ g.b.disc = b.disc
    BY <1>1 DEF Posts
  <1> QED BY <1>3, <1>4, <1>5, <1>6, <1>7, <1>8 DEF h

------------------------------------------------------------------------------
(* The steps.                                                                *)

\* The tasks that are counted are finitely many.
LEMMA RunningFinite ==
  ASSUME BTypes
  PROVE  IsFiniteSet(Running) /\ Cardinality(Running) \in Nat
  <1>1. Running \in SUBSET tasks /\ IsFiniteSet(tasks)
    BY DEF Running, BTypes
  <1>2. IsFiniteSet(Running)
    BY <1>1, FS_Subset
  <1> QED BY <1>2, FS_CardinalityType

\* A call that becomes a task.
LEMMA AsyncKeeps ==
  ASSUME BIInv, brt.alive, CanCall, NEW k \in Kinds, NEW a \in Args, NEW b \in Bridges,
         b.state = bridge.state, b.pending = bridge.pending, b.disc = bridge.disc,
         NEW r, Silent(r), NoList(r), Async(k, a, b, r)
  PROVE  BIInv'
  <1> DEFINE t == [id |-> bcalls, kind |-> k, arg |-> a, begun |-> FALSE]
  <1>1. BTypes /\ Numbered /\ Phases /\ PendingIsExact /\ RuntimeOutlivesTasks /\ Shows
    BY DEF BIInv
  <1>2. /\ tasks' = tasks \cup {t} /\ gqueue' = gqueue \o r /\ gui' = gui /\ brt' = brt /\ widget' = widget
        /\ bcalls' = bcalls + 1 /\ bcalls \in Nat
    BY <1>1 DEF Async, CanCall, BTypes
  <1>3. /\ bridge' \in Bridges /\ bridge'.state = bridge.state /\ bridge'.disc = bridge.disc
        /\ Counted(k) => bridge'.pending = bridge.pending + 1
        /\ ~ Counted(k) => bridge'.pending = bridge.pending
    <2>1. bridge' = [b EXCEPT !.pending = IF Counted(k) THEN @ + 1 ELSE @] /\ b.pending \in Int
      BY DEF Async, Bridges
    <2> QED BY <2>1 DEF Bridges
  <1>4. t \in Tasks /\ t.kind = k /\ t.id = bcalls
    BY <1>2 DEF Tasks
  <1>5. t \notin tasks /\ (\A u \in tasks : u.id # bcalls /\ u.id < bcalls /\ u \in Tasks)
    <2>1. \A u \in tasks : u \in Tasks /\ u.id \in Nat /\ u.id < bcalls
      BY <1>1 DEF Numbered, BTypes, Tasks
    <2> QED BY <1>2, <1>4, <2>1
  <1> HIDE DEF t
  <1>6. gqueue \in Seq(Events) /\ r \in Seq(Events) /\ gqueue \o r \in Seq(Events)
    BY <1>1, Posted DEF BTypes, Silent
  <1>7. BTypes'
    <2>1. IsFiniteSet(tasks')
      BY <1>1, <1>2, FS_AddElement DEF BTypes
    <2>2. tasks' \in SUBSET Tasks
      BY <1>1, <1>2, <1>4 DEF BTypes
    <2> QED BY <1>1, <1>2, <1>3, <1>6, <2>1, <2>2 DEF BTypes
  <1>8. Numbered'
    <2> SUFFICES ASSUME NEW u \in tasks', NEW v \in tasks'
                 PROVE  u.id < bcalls' /\ (u.id = v.id => u = v)
      BY DEF Numbered
    <2>1. u \in tasks => u.id < bcalls /\ u.id \in Nat
      BY <1>5 DEF Tasks
    <2>2. u \in tasks /\ v \in tasks => (u.id = v.id => u = v)
      BY <1>1 DEF Numbered
    <2> QED BY <1>2, <1>4, <1>5, <2>1, <2>2
  <1>9. Phases'
    BY <1>1, <1>2, <1>3 DEF Phases
  <1>10. PendingIsExact'
    <2>1. Endings(gqueue \o r) = Endings(gqueue)
      BY <1>6, OthersPosted DEF Silent, Ending
    <2>2. IsFiniteSet(Running) /\ Cardinality(Running) \in Nat /\ Cardinality(Endings(gqueue)) \in Nat
      BY <1>1, <1>6, RunningFinite, EndingsFinite
    <2>3. Counted(k) => Running' = Running \cup {t} /\ t \notin Running
      BY <1>2, <1>4, <1>5 DEF Running
    <2>4. ~ Counted(k) => Running' = Running
      BY <1>2, <1>4, <1>5 DEF Running
    <2>5. Counted(k) => Cardinality(Running') = Cardinality(Running) + 1
      BY <2>2, <2>3, FS_AddElement
    <2>6. bridge.pending = Cardinality(Running) + Cardinality(Endings(gqueue))
      BY <1>1, PendingMeans
    <2>7. bridge'.pending = Cardinality(Running') + Cardinality(Endings(gqueue'))
      BY <1>2, <1>3, <2>1, <2>2, <2>4, <2>5, <2>6
    <2> QED BY <2>7, PendingMeansLater
  <1>11. RuntimeOutlivesTasks'
    BY <1>2 DEF RuntimeOutlivesTasks
  <1>12. Shows'
    <2> SUFFICES ASSUME bridge.state = "Ready", Changing = {}
                 PROVE  WillShow(gqueue', widget'.list, View(bridge'.disc, brt'.connected))
      BY <1>2, <1>3 DEF Shows, Changing
    <2>1. WillShow(gqueue, widget.list, View(bridge.disc, brt.connected))
      BY <1>1 DEF Shows
    <2> QED BY <1>2, <1>3, <1>6, <2>1, NoListPosted
  <1> QED BY <1>7, <1>8, <1>9, <1>10, <1>11, <1>12 DEF BIInv

\* A task that ends.
LEMMA EndsKeep ==
  ASSUME BIInv, NEW t \in tasks, NEW res \in BOOLEAN, Ends(t, res), UNCHANGED <<gui, bridge, widget, bcalls>>,
         brt' \in Runtimes, brt'.alive = brt.alive,
         brt'.connected = brt.connected \/ t.kind \in {"connect", "disconnect"}
  PROVE  BIInv'
  <1> DEFINE x == [kind |-> t.kind, arg |-> t.arg, res |-> res]
             ev == Event("finished", x)
  <1>1. BTypes /\ Numbered /\ Phases /\ PendingIsExact /\ RuntimeOutlivesTasks /\ Shows
    BY DEF BIInv
  <1>2. tasks' = tasks \ {t} /\ gqueue' = Append(gqueue, ev)
    BY DEF Ends
  <1>3. t \in Tasks /\ gqueue \in Seq(Events) /\ IsFiniteSet(tasks) /\ tasks \in SUBSET Tasks
    BY <1>1 DEF BTypes
  <1>4. x \in Ended /\ ev \in Events /\ ev.e = "finished" /\ ev.x.kind = t.kind
    <2>1. x \in Ended
      BY <1>3 DEF Tasks, Ended
    <2> QED BY <2>1, Postable DEF Event
  <1> HIDE DEF x, ev
  <1>5. bridge' = bridge /\ widget' = widget /\ bcalls' = bcalls /\ gui' = gui
    OBVIOUS
  <1>6. Append(gqueue, ev) \in Seq(Events)
    BY <1>3, <1>4, EndPosted
  <1>7. BTypes'
    <2>1. IsFiniteSet(tasks')
      BY <1>2, <1>3, FS_RemoveElement
    <2>2. tasks' \in SUBSET Tasks
      BY <1>2, <1>3
    <2> QED BY <1>1, <1>2, <1>5, <1>6, <2>1, <2>2 DEF BTypes
  <1>8. Numbered'
    BY <1>1, <1>2, <1>5 DEF Numbered
  <1>9. Phases'
    <2>1. bridge.state # "Uninitialized"
      BY <1>1 DEF Phases
    <2> QED BY <1>1, <1>5, <2>1 DEF Phases
  <1>10. PendingIsExact'
    <2>1. IsFiniteSet(Running) /\ Cardinality(Running) \in Nat /\ Cardinality(Endings(gqueue)) \in Nat
      BY <1>1, <1>3, RunningFinite, EndingsFinite
    <2>2. Counted(t.kind) <=> Ending(ev)
      BY <1>4 DEF Ending
    <2>3. Ending(ev) => Cardinality(Endings(Append(gqueue, ev))) = Cardinality(Endings(gqueue)) + 1
      BY <1>3, <1>4, EndPosted
    <2>4. ~ Ending(ev) => Endings(Append(gqueue, ev)) = Endings(gqueue)
      BY <1>3, <1>4, EndPosted
    <2>5. Counted(t.kind) => Running' = Running \ {t} /\ t \in Running
      BY <1>2 DEF Running
    <2>6. ~ Counted(t.kind) => Running' = Running
      BY <1>2 DEF Running
    <2>7. Counted(t.kind) => Cardinality(Running') = Cardinality(Running) - 1
      BY <2>1, <2>5, FS_RemoveElement
    <2>8. bridge.pending = Cardinality(Running) + Cardinality(Endings(gqueue))
      BY <1>1, PendingMeans
    <2>9. bridge'.pending = Cardinality(Running') + Cardinality(Endings(gqueue'))
      BY <1>2, <1>5, <2>1, <2>2, <2>3, <2>4, <2>6, <2>7, <2>8
    <2> QED BY <2>9, PendingMeansLater
  <1>11. RuntimeOutlivesTasks'
    BY <1>1, <1>2 DEF RuntimeOutlivesTasks
  <1>12. Shows'
    <2> SUFFICES ASSUME bridge.state = "Ready", Changing' = {}
                 PROVE  WillShow(gqueue', widget'.list, View(bridge'.disc, brt'.connected))
      BY <1>5 DEF Shows
    <2>1. t.kind \notin {"connect", "disconnect"} => WillShow(gqueue, widget.list, View(bridge.disc, brt.connected))
      BY <1>1, <1>2 DEF Shows, Changing
    <2>2. <<ev>> \in Seq(Events) /\ NoList(<<ev>>) /\ gqueue' = gqueue \o <<ev>>
      BY <1>2, <1>3, <1>4 DEF NoList
    <2>3. CASE t.kind \notin {"connect", "disconnect"}
      BY <1>3, <1>5, <2>1, <2>2, <2>3, NoListPosted
    <2>4. CASE t.kind \in {"connect", "disconnect"}
      <3>1. Refreshes(ev)
        BY <1>4, <2>4 DEF Refreshes
      <3>2. Len(gqueue) + 1 \in DOMAIN gqueue' /\ gqueue'[Len(gqueue) + 1] = ev
        BY <1>2, <1>3, <1>4
      <3> QED BY <3>1, <3>2 DEF WillShow
    <2> QED BY <2>3, <2>4
  <1> QED BY <1>7, <1>8, <1>9, <1>10, <1>11, <1>12 DEF BIInv

\* A flash that begins in the device: its task stays, with the same number.
LEMMA FlashBeginsKeeps ==
  ASSUME BIInv, NEW t \in tasks, FlashBegins(t), UNCHANGED <<gui, widget, bcalls>>
  PROVE  BIInv'
  <1> DEFINE u == [t EXCEPT !.begun = TRUE]
             ev == Event("progress", "Flashing")
  <1>1. BTypes /\ Numbered /\ Phases /\ PendingIsExact /\ RuntimeOutlivesTasks /\ Shows
    BY DEF BIInv
  <1>2. /\ tasks' = (tasks \ {t}) \cup {u} /\ gqueue' = Append(gqueue, ev) /\ brt' = brt /\ gui' = gui /\ widget' = widget
        /\ bcalls' = bcalls /\ t.kind = "flash" /\ ~ t.begun
    BY DEF FlashBegins
  <1>3. t \in Tasks /\ gqueue \in Seq(Events) /\ IsFiniteSet(tasks) /\ tasks \in SUBSET Tasks /\ bridge \in Bridges
    BY <1>1 DEF BTypes
  <1>4. bridge' \in Bridges /\ bridge'.state = bridge.state /\ bridge'.pending = bridge.pending /\ bridge'.disc = bridge.disc
    <2>1. bridge' = [bridge EXCEPT !.op.status = "Flashing"]
      BY DEF FlashBegins
    <2>2. [bridge.op EXCEPT !.status = "Flashing"] \in Ops
      BY <1>3 DEF Bridges, Ops, Statuses
    <2> QED BY <1>3, <2>1, <2>2 DEF Bridges
  <1>5. u \in Tasks /\ u.id = t.id /\ u.kind = "flash" /\ u # t /\ Counted("flash")
    BY <1>2, <1>3 DEF Tasks, Counted
  <1>6. u \notin tasks
    BY <1>1, <1>5 DEF Numbered
  <1>7. ev \in Events /\ ev.e = "progress"
    BY Postable DEF Event, Statuses
  <1> HIDE DEF u, ev
  <1>8. Append(gqueue, ev) \in Seq(Events) /\ Endings(Append(gqueue, ev)) = Endings(gqueue)
    BY <1>3, <1>7, EndPosted DEF Ending
  <1>9. BTypes'
    <2>1. IsFiniteSet(tasks \ {t})
      BY <1>3, FS_RemoveElement
    <2>2. IsFiniteSet(tasks')
      BY <1>2, <2>1, FS_AddElement
    <2>3. tasks' \in SUBSET Tasks
      BY <1>2, <1>3, <1>5
    <2> QED BY <1>1, <1>2, <1>4, <1>8, <2>2, <2>3 DEF BTypes
  <1>10. Numbered'
    BY <1>1, <1>2, <1>5 DEF Numbered
  <1>11. Phases'
    <2>1. bridge.state # "Uninitialized"
      BY <1>1 DEF Phases
    <2> QED BY <1>1, <1>2, <1>4, <2>1 DEF Phases
  <1>12. PendingIsExact'
    <2>1. IsFiniteSet(Running) /\ Cardinality(Running) \in Nat
      BY <1>1, RunningFinite
    <2>2. Running' = (Running \ {t}) \cup {u} /\ t \in Running /\ u \notin Running \ {t}
      BY <1>2, <1>5, <1>6 DEF Running
    <2>3. IsFiniteSet(Running \ {t}) /\ Cardinality(Running \ {t}) = Cardinality(Running) - 1
      BY <2>1, <2>2, FS_RemoveElement
    <2>4. Cardinality(Running') = Cardinality(Running \ {t}) + 1
      BY <2>2, <2>3, FS_AddElement
    <2>5. Cardinality(Running') = Cardinality(Running)
      BY <2>1, <2>3, <2>4
    <2>6. bridge.pending = Cardinality(Running) + Cardinality(Endings(gqueue))
      BY <1>1, PendingMeans
    <2>7. bridge'.pending = Cardinality(Running') + Cardinality(Endings(gqueue'))
      BY <1>2, <1>4, <1>8, <2>5, <2>6
    <2> QED BY <2>7, PendingMeansLater
  <1>13. RuntimeOutlivesTasks'
    BY <1>1, <1>2, <1>5 DEF RuntimeOutlivesTasks
  <1>14. Shows'
    <2> SUFFICES ASSUME bridge.state = "Ready", Changing' = {}
                 PROVE  WillShow(gqueue', widget'.list, View(bridge'.disc, brt'.connected))
      BY <1>4 DEF Shows
    <2>1. WillShow(gqueue, widget.list, View(bridge.disc, brt.connected))
      BY <1>1, <1>2 DEF Shows, Changing
    <2>2. <<ev>> \in Seq(Events) /\ NoList(<<ev>>) /\ gqueue' = gqueue \o <<ev>>
      BY <1>2, <1>3, <1>7 DEF NoList
    <2> QED BY <1>2, <1>3, <1>4, <2>1, <2>2, NoListPosted
  <1> QED BY <1>9, <1>10, <1>11, <1>12, <1>13, <1>14 DEF BIInv

\* The pool.
LEMMA PoolKeeps ==
  ASSUME BIInv, Pool
  PROVE  BIInv'
  <1>1. PICK t \in tasks : (FlashBegins(t) \/ FlashEnds(t) \/ TaskRuns(t)) /\ UNCHANGED <<gui, widget, bcalls>>
    BY DEF Pool
  <1>2. brt \in Runtimes /\ t \in Tasks
    BY DEF BIInv, BTypes
  <1>3. CASE FlashBegins(t)
    BY <1>1, <1>3, FlashBeginsKeeps
  <1>4. CASE FlashEnds(t)
    <2>1. brt' = brt /\ bridge' = bridge /\ \E res \in BOOLEAN : Ends(t, res)
      BY <1>4 DEF FlashEnds
    <2> QED BY <1>1, <1>2, <2>1, EndsKeep
  <1>5. CASE TaskRuns(t)
    <2>1. PICK ok \in BOOLEAN :
            /\ Ends(t, ok)
            /\ brt' = CASE t.kind = "connect" /\ ok -> [brt EXCEPT !.connected = t.arg]
                        [] t.kind = "disconnect" /\ ok -> [brt EXCEPT !.connected = NoPath]
                        [] t.kind = "load" /\ ok -> [brt EXCEPT !.pkg = t.arg]
                        [] t.kind = "cancel" -> [brt EXCEPT !.cancelled = TRUE]
                        [] OTHER -> brt
      BY <1>5 DEF TaskRuns
    <2>2. bridge' = bridge
      BY <1>5 DEF TaskRuns
    <2>3. t.arg \in Args /\ t.kind \in Kinds
      BY <1>2 DEF Tasks
    <2>4. \/ brt' = brt
          \/ t.kind \in {"connect", "disconnect"} /\ \E p \in Args \cup {NoPath} : brt' = [brt EXCEPT !.connected = p]
          \/ brt' = [brt EXCEPT !.pkg = t.arg]
          \/ brt' = [brt EXCEPT !.cancelled = TRUE]
      BY <2>1, <2>3
    <2>5. /\ brt' \in Runtimes /\ brt'.alive = brt.alive
          /\ brt'.connected = brt.connected \/ t.kind \in {"connect", "disconnect"}
      BY <1>2, <2>3, <2>4 DEF Runtimes
    <2> QED BY <1>1, <2>1, <2>2, <2>5, EndsKeep
  <1> QED BY <1>1, <1>3, <1>4, <1>5

\* What the widgets show of an event.
LEMMA ShownRight ==
  ASSUME NEW w \in Widgets, NEW ev \in Events
  PROVE  /\ Shown(w, ev) \in Widgets
         /\ ev.e = "list" => Shown(w, ev).list = ev.x
         /\ ev.e # "list" => Shown(w, ev).list = w.list
  <1>1. CASE ev.e = "list"
    <2>1. ev.x \in Lists /\ Shown(w, ev) = [w EXCEPT !.list = ev.x]
      BY <1>1 DEF Events, Shown
    <2> QED BY <1>1, <2>1 DEF Widgets
  <1>2. CASE ev.e = "operation"
    <2>1. ev.x \in Ops /\ StartEnabled(ev.x.status) \in BOOLEAN
      BY <1>2 DEF Events, StartEnabled
    <2>2. Shown(w, ev) = [w EXCEPT !.op = ev.x, !.start = StartEnabled(ev.x.status)]
      BY <1>2 DEF Shown
    <2> QED BY <1>2, <2>1, <2>2 DEF Widgets
  <1>3. CASE ev.e = "packageLoaded"
    <2>1. ev.x \in BOOLEAN /\ Shown(w, ev) = [w EXCEPT !.start = ev.x]
      BY <1>3 DEF Events, Shown
    <2> QED BY <1>3, <2>1 DEF Widgets
  <1>4. CASE ev.e = "result"
    <2>1. Shown(w, ev) = [w EXCEPT !.start = TRUE, !.label = IF ev.x THEN "completed" ELSE "failed"]
      BY <1>4 DEF Shown
    <2>2. (IF ev.x THEN "completed" ELSE "failed") \in Labels
      BY DEF Labels
    <2> QED BY <1>4, <2>1, <2>2 DEF Widgets
  <1>5. CASE ev.e = "flashCancelled"
    <2>1. Shown(w, ev) = [w EXCEPT !.start = TRUE, !.label = "cancelled"] /\ "cancelled" \in Labels
      BY <1>5 DEF Shown, Labels
    <2> QED BY <1>5, <2>1 DEF Widgets
  <1>6. CASE ev.e \notin {"list", "operation", "packageLoaded", "result", "flashCancelled"}
    <2>1. Shown(w, ev) = w
      BY <1>6 DEF Shown
    <2> QED BY <1>6, <2>1
  <1> QED BY <1>1, <1>2, <1>3, <1>4, <1>5, <1>6

\* The handler of event ev makes c of the bridge and posts r.
Handles(ev, c, r) ==
    /\ c \in Bridges /\ c.state = bridge.state /\ Silent(r)
    /\ Ending(ev) => c.pending = bridge.pending - 1
    /\ ~ Ending(ev) => c.pending = bridge.pending
    /\ Refreshes(ev) /\ brt.alive /\ Changing = {} => LastList(r, View(c.disc, brt.connected))
    /\ ~ Refreshes(ev) => NoList(r) /\ c.disc = bridge.disc

LEMMA HandledKeeps ==
  ASSUME BIInv, gqueue # <<>>, NEW c, NEW r, Handles(Head(gqueue), c, r), bridge' = c, gqueue' = Tail(gqueue) \o r,
         widget' = Shown(widget, Head(gqueue)), UNCHANGED <<gui, brt, tasks, bcalls>>
  PROVE  BIInv'
  <1> DEFINE ev == Head(gqueue)
             q == Tail(gqueue)
  <1>1. BTypes /\ Numbered /\ Phases /\ PendingIsExact /\ RuntimeOutlivesTasks /\ Shows
    BY DEF BIInv
  <1>2. gqueue \in Seq(Events) /\ bridge \in Bridges /\ bridge.pending \in Int /\ widget \in Widgets
    BY <1>1 DEF BTypes, Bridges
  <1>3. /\ q \in Seq(Events) /\ ev \in Events
        /\ Ending(ev) => Cardinality(Endings(gqueue)) = Cardinality(Endings(q)) + 1
        /\ ~ Ending(ev) => Cardinality(Endings(gqueue)) = Cardinality(Endings(q))
    BY <1>2, EndTaken
  <1>4. r \in Seq(Events) /\ q \o r \in Seq(Events) /\ Endings(q \o r) = Endings(q)
    <2>1. r \in Seq(Events) /\ (\A i \in DOMAIN r : ~ Ending(r[i]))
      BY DEF Handles, Silent, Ending
    <2> QED BY <1>3, <2>1, Posted, OthersPosted
  <1>5. /\ widget' \in Widgets
        /\ ev.e = "list" => widget'.list = ev.x
        /\ ev.e # "list" => widget'.list = widget.list
    BY <1>2, <1>3, ShownRight
  <1>6. BTypes'
    BY <1>1, <1>4, <1>5 DEF BTypes, Handles
  <1>7. Numbered' /\ RuntimeOutlivesTasks'
    BY <1>1 DEF Numbered, RuntimeOutlivesTasks
  <1>8. Phases'
    BY <1>1 DEF Phases, Handles
  <1>9. PendingIsExact'
    <2>1. Running' = Running /\ Cardinality(Running) \in Nat /\ Cardinality(Endings(q)) \in Nat
      BY <1>1, <1>3, RunningFinite, EndingsFinite DEF Running
    <2>2. bridge.pending = Cardinality(Running) + Cardinality(Endings(gqueue))
      BY <1>1, PendingMeans
    <2>3. Ending(ev) => c.pending = bridge.pending - 1
      BY DEF Handles
    <2>4. ~ Ending(ev) => c.pending = bridge.pending
      BY DEF Handles
    <2>5. bridge'.pending = Cardinality(Running') + Cardinality(Endings(gqueue'))
      BY <1>2, <1>3, <1>4, <2>1, <2>2, <2>3, <2>4
    <2> QED BY <2>5, PendingMeansLater
  <1>10. Shows'
    <2> SUFFICES ASSUME bridge.state = "Ready", Changing = {}
                 PROVE  WillShow(q \o r, widget'.list, View(c.disc, brt.connected))
      BY DEF Shows, Handles, Changing
    <2>1. brt.alive /\ WillShow(gqueue, widget.list, View(bridge.disc, brt.connected))
      BY <1>1 DEF Phases, Shows
    <2>2. CASE Refreshes(ev)
      <3>1. LastList(r, View(c.disc, brt.connected))
        BY <2>1, <2>2 DEF Handles
      <3> QED BY <1>3, <1>4, <3>1, ListPosted
    <2>3. CASE ~ Refreshes(ev)
      <3>1. NoList(r) /\ c.disc = bridge.disc
        BY <2>3 DEF Handles
      <3>2. WillShow(q, widget'.list, View(bridge.disc, brt.connected))
        BY <1>2, <1>5, <2>1, <2>3, HeadShown
      <3> QED BY <1>3, <1>4, <3>1, <3>2, NoListPosted
    <2> QED BY <2>2, <2>3
  <1> QED BY <1>6, <1>7, <1>8, <1>9, <1>10 DEF BIInv

\* The event loop.
LEMMA DispatchKeeps ==
  ASSUME BIInv, Dispatch
  PROVE  BIInv'
  <1> DEFINE ev == Head(gqueue)
             H(seen) == CASE ev.e = "finished" -> Finished(bridge, ev.x, seen)
                          [] ev.e = "connected" -> Handled(bridge, updateDeviceList(bridge, seen))
                          [] ev.e = "loaded" -> Handled(setOperation(bridge, ev.x), <<>>)
                          [] OTHER -> Handled(bridge, <<>>)
  <1>0. PICK seen \in SeenPath :
          bridge' = H(seen).b /\ gqueue' = Tail(gqueue) \o H(seen).events /\ widget' = Shown(widget, ev)
    BY DEF Dispatch
  <1>s. Changing = {} => seen = brt.connected
    BY DEF SeenPath
  <1> DEFINE h == H(seen)
  <1>1. /\ gqueue # <<>> /\ bridge' = h.b /\ gqueue' = Tail(gqueue) \o h.events /\ widget' = Shown(widget, ev)
        /\ UNCHANGED <<gui, brt, tasks, bcalls>>
    BY <1>0 DEF Dispatch
  <1>2. gqueue \in Seq(Events) /\ bridge \in Bridges /\ bridge.op \in Ops /\ brt \in Runtimes
    BY DEF BIInv, BTypes, Bridges
  <1>3. ev \in Events
    BY <1>1, <1>2
  <1>4. Handles(ev, h.b, h.events)
    <2>1. CASE ev.e = "finished"
      <3>1. h = Finished(bridge, ev.x, seen) /\ ev.x \in Ended
        BY <1>3, <2>1 DEF Events
      <3>2. (Ending(ev) <=> Counted(ev.x.kind)) /\ (Refreshes(ev) <=> ev.x.kind \in Refreshers)
        BY <2>1 DEF Ending, Refreshes, Refreshers
      <3> QED BY <1>2, <1>s, <3>1, <3>2, FinishedPosts DEF Handles
    <2>2. CASE ev.e = "connected"
      <3>1. h = Handled(bridge, updateDeviceList(bridge, seen)) /\ ~ Ending(ev) /\ Refreshes(ev)
        BY <2>2 DEF Ending, Refreshes
      <3>2. h.b = bridge /\ h.events = updateDeviceList(bridge, seen)
        BY <3>1 DEF Handled
      <3> HIDE DEF h
      <3> QED BY <1>2, <1>s, <3>1, <3>2, SilentList DEF Handles
    <2>3. CASE ev.e = "loaded"
      <3> DEFINE c == setOperation(bridge, ev.x)
      <3>1. h = Handled(c, <<>>) /\ ~ Ending(ev) /\ ~ Refreshes(ev)
        BY <2>3 DEF Ending, Refreshes
      <3>2. ev.x \in Ended /\ NoOperation \in Ops
        BY <1>3, <2>3 DEF Events, NoOperation, Ops, Statuses
      <3>3. \E op \in Ops : c = [bridge EXCEPT !.op = op]
        <4> DEFINE op == [pkg |-> ev.x.arg, status |-> "Idle", canStart |-> brt.connected # NoPath]
        <4>1. op \in Ops
          BY <3>2 DEF Ops, Ended, Statuses
        <4>2. bridge = [bridge EXCEPT !.op = bridge.op]
          BY <1>2 DEF Bridges
        <4>3. c = bridge \/ c = [bridge EXCEPT !.op = op] \/ c = [bridge EXCEPT !.op = NoOperation]
          BY DEF setOperation
        <4> QED BY <1>2, <3>2, <4>1, <4>2, <4>3
      <3>4. c \in Bridges /\ c.state = bridge.state /\ c.pending = bridge.pending /\ c.disc = bridge.disc
        BY <1>2, <3>3 DEF Bridges
      <3> HIDE DEF c
      <3>5. h.b = c /\ h.events = <<>>
        BY <3>1 DEF Handled
      <3> HIDE DEF h
      <3> QED BY <3>1, <3>4, <3>5, SilentNothing DEF Handles
    <2>4. CASE ev.e \notin {"finished", "connected", "loaded"}
      <3>1. h = Handled(bridge, <<>>) /\ ~ Ending(ev) /\ ~ Refreshes(ev)
        BY <2>4 DEF Ending, Refreshes
      <3>2. h.b = bridge /\ h.events = <<>>
        BY <3>1 DEF Handled
      <3> HIDE DEF h
      <3> QED BY <1>2, <3>1, <3>2, SilentNothing DEF Handles
    <2> QED BY <2>1, <2>2, <2>3, <2>4
  <1> HIDE DEF h
  <1> QED BY <1>1, <1>4, HandledKeeps

\* initialize() and shutdown().
LEMMA UpAndDownKeep ==
  ASSUME BIInv, initializeBridge \/ shutdownBridge \/ shutdownEnds
  PROVE  BIInv'
  <1>1. BTypes /\ Numbered /\ Phases /\ PendingIsExact /\ RuntimeOutlivesTasks /\ Shows
    BY DEF BIInv
  <1>2. bridge \in Bridges /\ brt \in Runtimes /\ bcalls \in Nat
    BY <1>1 DEF BTypes
  <1>3. CASE shutdownBridge
    <2>1. /\ gui' = "closing" /\ bcalls' = bcalls + 1
          /\ gqueue' = gqueue /\ bridge' = bridge /\ brt' = brt /\ tasks' = tasks /\ widget' = widget
      BY <1>3 DEF shutdownBridge, CanCall
    <2>2. BTypes'
      BY <1>1, <1>2, <2>1 DEF BTypes
    <2>3. Numbered'
      <3>1. \A t \in tasks : t.id \in Nat
        BY <1>1 DEF BTypes, Tasks
      <3> QED BY <1>1, <1>2, <2>1, <3>1 DEF Numbered
    <2>4. Phases' /\ RuntimeOutlivesTasks' /\ Shows'
      BY <1>1, <2>1 DEF Phases, RuntimeOutlivesTasks, Shows, Changing
    <2>5. PendingIsExact'
      BY <1>1, <2>1 DEF PendingIsExact, FinishedEvents
    <2> QED BY <2>2, <2>3, <2>4, <2>5 DEF BIInv
  <1>4. CASE initializeBridge
    <2>1. /\ gui' = gui /\ bcalls' = bcalls + 1 /\ gqueue' = gqueue /\ tasks' = tasks /\ widget' = widget
          /\ bridge.state = "Uninitialized"
      BY <1>4 DEF initializeBridge, CanCall
    <2>2. gqueue = <<>> /\ tasks = {} /\ bridge.disc = {} /\ widget.list = {}
      BY <1>1, <2>1 DEF Phases
    <2>3. \/ brt' = [brt EXCEPT !.alive = TRUE] /\ bridge' = [bridge EXCEPT !.state = "Ready"]
          \/ brt' = brt /\ bridge' = bridge
      BY <1>4 DEF initializeBridge
    <2>4. /\ brt' \in Runtimes /\ bridge' \in Bridges /\ bridge'.pending = bridge.pending /\ bridge'.disc = bridge.disc
          /\ \/ brt'.alive /\ bridge'.state = "Ready"
             \/ brt' = brt /\ bridge' = bridge
      BY <1>2, <2>3 DEF Runtimes, Bridges
    <2>5. BTypes' /\ Numbered'
      BY <1>1, <1>2, <2>1, <2>2, <2>4 DEF BTypes, Numbered
    <2>6. Phases' /\ RuntimeOutlivesTasks'
      BY <1>1, <2>1, <2>2, <2>4 DEF Phases, RuntimeOutlivesTasks
    <2>7. PendingIsExact'
      BY <1>1, <2>1, <2>4 DEF PendingIsExact, FinishedEvents
    <2>8. Shows'
      <3>1. View(bridge'.disc, brt'.connected) = {}
        BY <2>2, <2>4 DEF View
      <3>2. NoList(gqueue') /\ widget'.list = {}
        BY <2>1, <2>2 DEF NoList
      <3> QED BY <3>1, <3>2 DEF Shows, WillShow
    <2> QED BY <2>5, <2>6, <2>7, <2>8 DEF BIInv
  <1>5. CASE shutdownEnds
    <2>1. /\ gui' = "loop" /\ gqueue' = gqueue /\ tasks' = tasks /\ widget' = widget /\ bcalls' = bcalls
          /\ bridge.pending = 0
      BY <1>5 DEF shutdownEnds, waitForPendingOperations, NonePending
    <2>2. /\ bridge' = [bridge EXCEPT !.state = "Shutdown", !.disc = {}]
          /\ brt' = [brt EXCEPT !.alive = FALSE, !.connected = NoPath, !.pkg = NothingLoaded]
      BY <1>5 DEF shutdownEnds
    <2>3. bridge' \in Bridges /\ bridge'.pending = bridge.pending /\ bridge'.state = "Shutdown"
      BY <1>2, <2>2 DEF Bridges
    <2>4. brt' \in Runtimes
      BY <1>2, <2>2 DEF Runtimes
    <2>5. BTypes' /\ Numbered'
      BY <1>1, <2>1, <2>3, <2>4 DEF BTypes, Numbered
    <2>6. Phases' /\ Shows'
      BY <2>3 DEF Phases, Shows
    <2>7. PendingIsExact'
      BY <1>1, <2>1, <2>3 DEF PendingIsExact, FinishedEvents
    <2>8. RuntimeOutlivesTasks'
      <3>1. IsFiniteSet(Running) /\ Cardinality(Running) \in Nat /\ Cardinality(Endings(gqueue)) \in Nat
        BY <1>1, RunningFinite, EndingsFinite DEF BTypes
      <3>2. Cardinality(Running) = 0
        BY <1>1, <2>1, <3>1, PendingMeans
      <3>3. Running = {}
        BY <3>1, <3>2, FS_EmptySet
      <3> QED BY <2>1, <3>3 DEF RuntimeOutlivesTasks, Running
    <2> QED BY <2>5, <2>6, <2>7, <2>8 DEF BIInv
  <1> QED BY <1>3, <1>4, <1>5

\* The calls that become tasks.
LEMMA RequestsKeep ==
  ASSUME BIInv, Request \/ startFlash \/ cancelFlash
  PROVE  BIInv'
  <1>1. bridge \in Bridges /\ bridge.op \in Ops
    BY DEF BIInv, BTypes, Bridges
  <1>2. CASE Request
    <2>1. CanCall /\ brt.alive
      BY <1>2 DEF Request
    <2>2. PICK k \in Kinds, a \in Args : Async(k, a, bridge, <<>>)
      BY <1>2 DEF Request, Kinds, Args
    <2> QED BY <1>1, <2>1, <2>2, SilentNothing, AsyncKeeps
  <1>3. CASE startFlash
    <2> DEFINE op == [bridge.op EXCEPT !.status = "Preparing"]
               b == [bridge EXCEPT !.op = op]
    <2>1. CanCall /\ brt.alive /\ Async("flash", "", b, <<Event("operation", op)>>)
      BY <1>3 DEF startFlash
    <2>2. op \in Ops
      BY <1>1 DEF Ops, Statuses
    <2>3. b \in Bridges /\ b.state = bridge.state /\ b.pending = bridge.pending /\ b.disc = bridge.disc
      BY <1>1, <2>2 DEF Bridges
    <2>4. Silent(<<Event("operation", op)>>) /\ NoList(<<Event("operation", op)>>)
      BY <2>2, PlainEvents, PlainEvent
    <2>5. "flash" \in Kinds /\ "" \in Args
      BY DEF Kinds, Args
    <2> HIDE DEF op, b
    <2> QED BY <2>1, <2>3, <2>4, <2>5, AsyncKeeps
  <1>4. CASE cancelFlash
    <2>1. CanCall /\ brt.alive /\ Async("cancel", "", bridge, <<>>)
      BY <1>4 DEF cancelFlash
    <2>2. "cancel" \in Kinds /\ "" \in Args
      BY DEF Kinds, Args
    <2> QED BY <1>1, <2>1, <2>2, SilentNothing, AsyncKeeps
  <1> QED BY <1>2, <1>3, <1>4

\* The bridge's count is that of its calls, which the Runtime outlives, and no
\* order of overlapping calls leaves an old list of devices on the screen.
THEOREM TheBridgeIsSound == BInit /\ [][BNext]_bvars => []BridgeIsSound
  <1>1. BIInv /\ [BNext]_bvars => BIInv'
    <2> SUFFICES ASSUME BIInv, [BNext]_bvars PROVE BIInv'
      OBVIOUS
    <2>1. CASE BNext
      BY <2>1, UpAndDownKeep, RequestsKeep, PoolKeeps, DispatchKeeps DEF BNext
    <2>2. CASE UNCHANGED bvars
      <3>1. /\ gui' = gui /\ gqueue' = gqueue /\ bridge' = bridge /\ brt' = brt /\ tasks' = tasks /\ widget' = widget
            /\ bcalls' = bcalls
        BY <2>2 DEF bvars
      <3>2. BTypes' /\ Numbered' /\ Phases' /\ RuntimeOutlivesTasks' /\ Shows'
        BY <3>1 DEF BIInv, BTypes, Numbered, Phases, RuntimeOutlivesTasks, Shows, Changing
      <3>3. PendingIsExact'
        BY <3>1 DEF BIInv, PendingIsExact, FinishedEvents
      <3> QED BY <3>2, <3>3 DEF BIInv
    <2> QED BY <2>1, <2>2
  <1>2. BIInv => BridgeIsSound
    <2> SUFFICES ASSUME BIInv, tasks = {}, gqueue = <<>>, bridge.state = "Ready"
                 PROVE  widget.list = View(bridge.disc, brt.connected)
      BY DEF BIInv, BridgeIsSound, QuietListIsCurrent
    <2>1. DOMAIN gqueue = {}
      OBVIOUS
    <2>2. WillShow(gqueue, widget.list, View(bridge.disc, brt.connected))
      BY DEF BIInv, Shows, Changing
    <2> QED BY <2>1, <2>2 DEF WillShow, LastList
  <1> QED BY <1>1, <1>2, BridgeStarts, PTL

------------------------------------------------------------------------------
(***************************************************************************)
(* A transport and its backend, for any buffers, any bytes and any calls.  *)
(*                                                                         *)
(* What successful reads returned says nothing of the bytes still on their *)
(* way.  Flows is what holds of them: the bytes returned, those in the     *)
(* caller's buffer and those on the wire follow one another, without a gap *)
(* in a stream (StreamFlows) and over bulk packets (BulkFlows), rising for *)
(* datagrams (DatagramsRise).  A cancel() that flushes a port breaks the   *)
(* flow; the port's own flag then keeps the read from returning (bflag).   *)
(***************************************************************************)

\* What a packet holds: some byte.
Bytes == Seq(Nat) \ {<<>>}

Reading == pc \in {"loop", "recv", "call"}

\* Bytes of the caller's buffer that a read has filled.
Held == IF pc = "loop" THEN total ELSE IF pc \in {"recv", "call"} THEN total + sub ELSE 0

\* Backends whose bytes arrive one by one.
Single == kind \in Streams \cup Serials

TTypes ==
    /\ kind \in Backends /\ clean \in BOOLEAN /\ bflag \in BOOLEAN
    /\ st \in {"Closed", "Opening", "Open", "Error"} /\ handle \in {"none", "open", "shut"}
    /\ pc \in {"idle", "opening", "loop", "recv", "call"} /\ req \in Nat \X Nat
    /\ mem \in Seq(Nat) /\ total \in Nat /\ sub \in Nat
    /\ wire \in Seq(Bytes) /\ sent \in Nat /\ got \in Seq(Nat)

\* Where the call of the client is, and what it may find there.
InCall ==
    /\ pc = "opening" => st = "Opening"
    /\ Reading => st = "Open" /\ Len(mem) = req[2] /\ Held <= req[2]
    /\ pc = "loop" => kind \notin Bulks
    /\ pc = "call" => kind \in Serials
    /\ pc = "recv" /\ kind \in Datagrams \cup Bulks => sub = 0
    /\ pc = "recv" /\ kind \in Bulks => total = 0
    /\ bflag => kind \in Serials

\* The first byte of a packet and how many there are.
First(p) == p[1]
Size(p)  == Len(p)

\* A byte stream: the bytes returned, those in the buffer and those on the wire
\* follow one another, unless a cancel() has flushed the port.
StreamFlows ==
    /\ \A i \in DOMAIN got : got[i] = i
    /\ Reading /\ ~ (bflag /\ pc = "recv") => \A i \in 1..Held : mem[i] = Len(got) + i
    /\ st = "Open" /\ ~ bflag =>
          /\ Len(got) + Held + Len(wire) = sent
          /\ \A i \in DOMAIN wire : First(wire[i]) = Len(got) + Held + i

\* A packet of bytes one after the other; packets w of the bytes a + 1 to z.
Packet(p) ==
    /\ p \in Bytes /\ Size(p) \in Nat /\ Size(p) > 0 /\ First(p) \in Nat
    /\ \A j \in 1..Size(p) : p[j] = First(p) + j - 1

Chain(w, a, z) ==
    /\ \A i \in 1..Len(w) : Packet(w[i])
    /\ \A i \in 1..Len(w) : i < Len(w) => First(w[i + 1]) = First(w[i]) + Size(w[i])
    /\ Len(w) = 0 => a = z
    /\ Len(w) > 0 => First(w[1]) = a + 1 /\ First(w[Len(w)]) + Size(w[Len(w)]) = z + 1

BulkFlows ==
    /\ \A i \in DOMAIN got : got[i] = i
    /\ st = "Open" => Chain(wire, Len(got), sent)

\* Datagrams: bytes may be missing, but none comes out of order.
Rises(s) == \A i, j \in DOMAIN s : i < j => s[i] < s[j]
Below(s, t) == \A i \in DOMAIN s, j \in DOMAIN t : s[i] < t[j]
AtMost(s, z) == \A i \in DOMAIN s : s[i] <= z
Filled == SubSeq(mem, 1, Held)

\* A datagram on the wire comes after what was returned, after what is in the
\* buffer and after the datagrams before it.
DatagramsRise ==
    /\ Rises(got)
    /\ st = "Open" =>
          /\ Rises(Filled) /\ Below(got, Filled) /\ AtMost(got, sent) /\ AtMost(Filled, sent)
          /\ \A k \in 1..Len(wire) : /\ Rises(wire[k]) /\ AtMost(wire[k], sent)
                                     /\ Below(got, wire[k]) /\ Below(Filled, wire[k])
          /\ \A k, l \in 1..Len(wire) : k < l => Below(wire[k], wire[l])

Flows ==
    /\ Single => StreamFlows
    /\ kind \in Bulks => BulkFlows
    /\ kind \in Datagrams => DatagramsRise

TIInv == TTypes /\ InCall /\ NoHandleLeak /\ (clean => Flows)

------------------------------------------------------------------------------
LEMMA KindsApart ==
  ASSUME "Win32Serial" \notin Backends, kind \in Backends
  PROVE  /\ Single \/ kind \in Bulks \/ kind \in Datagrams
         /\ kind \in Bulks => ~ Single /\ kind \notin Datagrams
         /\ kind \in Datagrams => ~ Single
         /\ kind \in Serials => kind = "PosixSerial"
         /\ kind \in Streams => kind \notin Serials
  BY TransportAssumption DEF Single, Streams, Serials, Bulks, Datagrams

\* How a transport starts.
LEMMA TransportStarts == Init => TIInv
  <1> SUFFICES ASSUME Init PROVE TIInv
    OBVIOUS
  <1>1. TTypes
    <2>1. kind \in Backends /\ clean \in BOOLEAN /\ bflag \in BOOLEAN
      BY DEF Init
    <2>2. st \in {"Closed", "Opening", "Open", "Error"} /\ handle \in {"none", "open", "shut"}
      BY DEF Init
    <2>3. pc \in {"idle", "opening", "loop", "recv", "call"} /\ req \in Nat \X Nat
      BY DEF Init
    <2>4. mem \in Seq(Nat) /\ total \in Nat /\ sub \in Nat /\ wire \in Seq(Bytes) /\ sent \in Nat /\ got \in Seq(Nat)
      BY DEF Init
    <2> QED BY <2>1, <2>2, <2>3, <2>4 DEF TTypes
  <1>2. InCall /\ NoHandleLeak
    BY DEF Init, InCall, NoHandleLeak, Reading
  <1>3. Flows
    BY DEF Init, Flows, StreamFlows, BulkFlows, DatagramsRise, Reading, Rises
  <1> QED BY <1>1, <1>2, <1>3 DEF TIInv

\* A step that touches neither the bytes nor the call keeps them.
LEMMA FlowsSame ==
  ASSUME Flows, UNCHANGED <<kind, st, bflag, pc, mem, total, sub, wire, sent, got>>
  PROVE  Flows'
  <1>1. Held' = Held /\ Reading' = Reading /\ Filled' = Filled /\ Single' = Single
    BY DEF Held, Reading, Filled, Single
  <1>2. StreamFlows => StreamFlows'
    BY <1>1 DEF StreamFlows
  <1>3. BulkFlows => BulkFlows'
    BY DEF BulkFlows
  <1>4. DatagramsRise => DatagramsRise'
    BY <1>1 DEF DatagramsRise
  <1> QED BY <1>1, <1>2, <1>3, <1>4 DEF Flows

\* Between connections only what was returned matters.
LEMMA FlowsOver ==
  ASSUME Flows, kind' = kind, got' = got, st' # "Open", ~ Reading'
  PROVE  Flows'
  BY DEF Flows, StreamFlows, BulkFlows, DatagramsRise, Single

\* A connection that begins.
LEMMA FlowsAfresh ==
  ASSUME wire' = <<>>, sent' = 0, got' = <<>>, pc' = "idle", mem' \in Seq(Nat)
  PROVE  Flows'
  <1>1. Held' = 0 /\ ~ Reading'
    BY DEF Held, Reading
  <1>2. Filled' = <<>>
    BY <1>1 DEF Filled
  <1>3. StreamFlows'
    BY <1>1 DEF StreamFlows
  <1>4. BulkFlows'
    BY DEF BulkFlows, Chain
  <1>5. DatagramsRise'
    BY <1>2 DEF DatagramsRise, Rises, Below, AtMost
  <1> QED BY <1>3, <1>4, <1>5 DEF Flows

\* Steps that change neither the buffers nor the wire, and return or begin an open().
LEMMA CallsKeep ==
  ASSUME TIInv, openCall \/ closeCall \/ reconnectCall \/ writeCall \/ remove \/ closeAllTransports
  PROVE  TIInv'
  <1> DEFINE Kept == UNCHANGED <<kind, req, mem, total, sub, wire, sent, got, clean>>
  <1>1. TTypes /\ InCall /\ NoHandleLeak /\ (clean => Flows)
    BY DEF TIInv
  <1>2. ASSUME Kept, pc = "idle", pc' \in {"idle", "opening"}, st' \in {"Closed", "Opening"}, handle' = "none", bflag' = FALSE,
               pc' = "opening" => st' = "Opening"
        PROVE  TIInv'
    <2>1. TTypes'
      BY <1>1, <1>2 DEF TTypes
    <2>2. ~ Reading'
      BY <1>2 DEF Reading
    <2>3. InCall' /\ NoHandleLeak'
      BY <1>2, <2>2 DEF InCall, NoHandleLeak
    <2>4. (clean => Flows)'
      BY <1>1, <1>2, <2>2, FlowsOver
    <2> QED BY <2>1, <2>3, <2>4 DEF TIInv
  <1>3. ASSUME Kept, pc = "idle", pc' = "idle", UNCHANGED <<st, handle, bflag>>
        PROVE  TIInv'
    <2>1. TTypes'
      BY <1>1, <1>3 DEF TTypes
    <2>2. ~ Reading'
      BY <1>3 DEF Reading
    <2>3. InCall' /\ NoHandleLeak'
      BY <1>1, <1>3, <2>2 DEF InCall, NoHandleLeak
    <2>4. (clean => Flows)'
      BY <1>1, <1>3, FlowsSame
    <2> QED BY <2>1, <2>3, <2>4 DEF TIInv
  <1>4. CASE openCall
    <2>1. pc = "idle" /\ Kept /\ UNCHANGED <<handle, bflag>>
      BY <1>4 DEF openCall, Call, readvars, linkvars
    <2>2. CASE st = "Open"
      BY <1>3, <1>4, <2>1, <2>2 DEF openCall, openBegin, Return
    <2>3. CASE st # "Open"
      <3>1. st' = "Opening" /\ pc' = "opening" /\ handle = "none"
        BY <1>1, <1>4, <2>1, <2>3 DEF openCall, openBegin, NoHandleLeak, TTypes
      <3>2. TTypes'
        BY <1>1, <2>1, <3>1 DEF TTypes
      <3>3. ~ Reading'
        BY <3>1 DEF Reading
      <3>4. InCall' /\ NoHandleLeak'
        BY <1>1, <2>1, <3>1, <3>3 DEF InCall, NoHandleLeak
      <3>5. (clean => Flows)'
        BY <1>1, <2>1, <3>1, <3>3, FlowsOver
      <3> QED BY <3>2, <3>4, <3>5 DEF TIInv
    <2> QED BY <2>2, <2>3
  <1>5. CASE closeCall
    BY <1>2, <1>5 DEF closeCall, Call, Closed, Return, readvars, linkvars
  <1>6. CASE reconnectCall
    BY <1>2, <1>6 DEF reconnectCall, Call, Closed, readvars, linkvars
  <1>7. CASE writeCall
    <2>1. pc = "idle" /\ pc' = "idle" /\ Kept /\ UNCHANGED <<st, handle, bflag>>
      BY <1>7 DEF writeCall, Call, Return, readvars, linkvars
    <2> QED BY <1>3, <2>1
  <1>8. CASE remove
    BY <1>2, <1>8 DEF remove, Call, Closed, Return, readvars, linkvars
  <1>9. CASE closeAllTransports
    <2>1. pc = "idle" /\ pc' = "idle" /\ Kept
      BY <1>9 DEF closeAllTransports, Call, Return, readvars, linkvars
    <2>2. CASE isOpen
      BY <1>2, <1>9, <2>1, <2>2 DEF closeAllTransports, Closed
    <2>3. CASE ~ isOpen
      BY <1>3, <1>9, <2>1, <2>3 DEF closeAllTransports
    <2> QED BY <2>2, <2>3
  <1> QED BY <1>4, <1>5, <1>6, <1>7, <1>8, <1>9

\* A step of an open(), and a new transport.
LEMMA OpenKeeps ==
  ASSUME TIInv, openStep \/ add
  PROVE  TIInv'
  <1>1. TTypes /\ InCall /\ NoHandleLeak /\ (clean => Flows)
    BY DEF TIInv
  <1>2. CASE add
    <2>1. /\ kind' \in Backends /\ st' = "Closed" /\ handle' = "none" /\ bflag' = FALSE /\ wire' = <<>> /\ sent' = 0
          /\ got' = <<>> /\ clean' = TRUE /\ pc = "idle" /\ pc' = "idle" /\ UNCHANGED <<req, mem, total, sub>>
      BY <1>2 DEF add, readvars
    <2>2. <<>> \in Seq(Bytes) /\ <<>> \in Seq(Nat)
      OBVIOUS
    <2>3. TTypes'
      BY <1>1, <2>1, <2>2 DEF TTypes
    <2>4. ~ Reading'
      BY <2>1 DEF Reading
    <2>5. InCall' /\ NoHandleLeak'
      BY <2>1, <2>4 DEF InCall, NoHandleLeak
    <2>6. Flows'
      BY <2>1, <2>3, FlowsAfresh DEF TTypes
    <2> QED BY <2>3, <2>5, <2>6 DEF TIInv
  <1>3. CASE openStep
    <2>1. pc = "opening" /\ st = "Opening" /\ UNCHANGED <<kind, bflag, req, mem, total, sub>>
      BY <1>1, <1>3 DEF openStep, InCall, readvars
    <2>2. CASE handle' = failedOpen /\ st' = "Error" /\ Return("Error") /\ UNCHANGED <<linkvars, clean>>
      <3>1. handle' = "none" /\ pc' = "idle" /\ UNCHANGED <<wire, sent, got, clean>>
        BY <2>2 DEF failedOpen, Return, linkvars
      <3>2. TTypes' /\ ~ Reading'
        BY <1>1, <2>1, <2>2, <3>1 DEF TTypes, Reading
      <3>3. InCall' /\ NoHandleLeak'
        BY <1>1, <2>1, <2>2, <3>1, <3>2 DEF InCall, NoHandleLeak
      <3>4. (clean => Flows)'
        BY <1>1, <2>1, <2>2, <3>1, <3>2, FlowsOver
      <3> QED BY <3>2, <3>3, <3>4 DEF TIInv
    <2>3. CASE handle' \in {handle, "open"} /\ st' = "Open" /\ Return("Ok")
               /\ wire' = <<>> /\ sent' = 0 /\ got' = <<>> /\ clean' = TRUE
      <3>1. pc' = "idle" /\ ~ Reading' /\ <<>> \in Seq(Bytes) /\ <<>> \in Seq(Nat)
        BY <2>3 DEF Return, Reading
      <3>2. TTypes'
        BY <1>1, <2>1, <2>3, <3>1 DEF TTypes
      <3>3. InCall' /\ NoHandleLeak'
        BY <1>1, <2>1, <2>3, <3>1 DEF InCall, NoHandleLeak
      <3>4. Flows'
        BY <2>3, <3>1, <3>2, FlowsAfresh DEF TTypes
      <3> QED BY <3>2, <3>3, <3>4 DEF TIInv
    <2>4. CASE handle' \in {handle, "open"} /\ UNCHANGED <<st, pc, linkvars, clean>>
      <3>1. UNCHANGED <<wire, sent, got>> /\ ~ Reading'
        BY <2>1, <2>4 DEF linkvars, Reading
      <3>2. TTypes'
        BY <1>1, <2>1, <2>4, <3>1 DEF TTypes
      <3>3. InCall' /\ NoHandleLeak'
        BY <1>1, <2>1, <2>4, <3>1 DEF InCall, NoHandleLeak
      <3>4. (clean => Flows)'
        BY <1>1, <2>1, <2>4, <3>1, FlowsSame
      <3> QED BY <3>2, <3>3, <3>4 DEF TIInv
    <2> QED BY <1>3, <2>2, <2>3, <2>4 DEF openStep
  <1> QED BY <1>2, <1>3

\* cancel() of the transport, the device closing and the clock.
LEMMA OthersKeep ==
  ASSUME TIInv, cancelFlag \/ deviceCloses \/ timePasses
  PROVE  TIInv'
  <1>1. TTypes /\ InCall /\ NoHandleLeak /\ (clean => Flows)
    BY DEF TIInv
  <1>2. /\ UNCHANGED <<kind, st, handle, bflag, pc, req, mem, total, sub, wire, sent, got>>
        /\ clean' = clean \/ clean' = FALSE
    BY DEF cancelFlag, deviceCloses, timePasses, readvars, linkvars
  <1>3. TTypes'
    BY <1>1, <1>2 DEF TTypes
  <1>4. InCall' /\ NoHandleLeak'
    BY <1>1, <1>2 DEF InCall, NoHandleLeak, Reading, Held
  <1>5. (clean => Flows)'
    BY <1>1, <1>2, FlowsSame
  <1> QED BY <1>3, <1>4, <1>5 DEF TIInv

\* The backend's part of a cancel().
LEMMA BackendCancelKeeps ==
  ASSUME TIInv, cancelBackend
  PROVE  TIInv'
  <1>1. TTypes /\ InCall /\ NoHandleLeak /\ (clean => Flows)
    BY DEF TIInv
  <1>2. UNCHANGED <<kind, st, pc, req, mem, total, sub, sent, got, clean>>
    BY DEF cancelBackend, readvars
  <1>3. /\ handle' \in {"none", "open", "shut"} /\ (handle' # "none" => handle # "none")
        /\ \/ bflag' = bflag /\ wire' = wire
           \/ kind \in Serials /\ bflag' = TRUE /\ wire' \in {<<>>, wire}
    <2>1. kind \in Bulks \cup Serials \cup Streams \cup Datagrams
      BY <1>1, TransportAssumption DEF TTypes
    <2>2. handle \in {"none", "open", "shut"}
      BY <1>1 DEF TTypes
    <2> QED BY <2>1, <2>2 DEF cancelBackend, This, UsbTransport, SerialTransport, TcpTransport, UdpTransport,
                             Bulks, Serials, Streams, Datagrams
  <1>4. TTypes'
    <2>1. bflag' \in BOOLEAN
      BY <1>1, <1>3 DEF TTypes
    <2>2. wire \in Seq(Bytes) /\ <<>> \in Seq(Bytes)
      BY <1>1 DEF TTypes
    <2>3. wire' \in Seq(Bytes)
      BY <1>3, <2>2
    <2> QED BY <1>1, <1>2, <1>3, <2>1, <2>3 DEF TTypes
  <1>5. Reading' = Reading /\ Held' = Held /\ Filled' = Filled /\ Single' = Single
    BY <1>2 DEF Reading, Held, Filled, Single
  <1>6. InCall' /\ NoHandleLeak'
    BY <1>1, <1>2, <1>3, <1>5 DEF InCall, NoHandleLeak
  <1>7. ASSUME clean' PROVE Flows'
    <2>1. CASE bflag' = bflag /\ wire' = wire
      BY <1>1, <1>2, <1>7, <2>1, FlowsSame
    <2>2. CASE kind \in Serials /\ bflag' = TRUE
      <3>1. Single /\ kind \notin Bulks /\ kind \notin Datagrams
        BY <2>2 DEF Single, Serials, Bulks, Datagrams
      <3>2. StreamFlows'
        <4>1. StreamFlows
          BY <1>1, <1>2, <1>7, <3>1 DEF Flows
        <4>2. ASSUME Reading, pc # "recv"
              PROVE  \A i \in 1..Held : mem[i] = Len(got) + i
          BY <4>1, <4>2 DEF StreamFlows
        <4> QED BY <1>2, <1>5, <2>2, <4>1, <4>2 DEF StreamFlows
      <3> QED BY <1>2, <1>5, <3>1, <3>2 DEF Flows
    <2> QED BY <1>3, <2>1, <2>2
  <1> QED BY <1>4, <1>6, <1>7 DEF TIInv

\* Sequences of numbers.
LEMMA SomeByte ==
  ASSUME NEW s \in Seq(Nat), Len(s) # 0
  PROVE  s # <<>>
  OBVIOUS

LEMMA SequenceOf ==
  ASSUME NEW n \in Nat, NEW f \in [1..n -> Nat]
  PROVE  f \in Seq(Nat) /\ Len(f) = n
  OBVIOUS

LEMMA SameBytes ==
  ASSUME NEW s \in Seq(Nat), NEW t \in Seq(Nat), Len(s) = Len(t), \A i \in 1..Len(s) : s[i] = t[i]
  PROVE  s = t
  OBVIOUS

\* Where the elements of a sequence go.
LEMMA AppendFacts ==
  ASSUME NEW S, NEW w \in Seq(S), NEW p \in S
  PROVE  /\ Append(w, p) \in Seq(S) /\ Len(w) \in Nat /\ Len(Append(w, p)) = Len(w) + 1
         /\ Append(w, p)[Len(w) + 1] = p
         /\ \A i \in 1..Len(w) : Append(w, p)[i] = w[i]
  OBVIOUS

LEMMA TailFacts ==
  ASSUME NEW S, NEW w \in Seq(S), w # <<>>
  PROVE  /\ Tail(w) \in Seq(S) /\ Head(w) \in S /\ Head(w) = w[1] /\ Len(w) \in Nat /\ Len(w) > 0
         /\ Len(Tail(w)) = Len(w) - 1
         /\ \A i \in 1..(Len(w) - 1) : Tail(w)[i] = w[i + 1]
  OBVIOUS

LEMMA FirstReplaced ==
  ASSUME NEW S, NEW w \in Seq(S), w # <<>>, NEW r \in S
  PROVE  LET v == <<r>> \o Tail(w)
         IN  /\ v \in Seq(S) /\ Len(v) = Len(w) /\ v[1] = r
             /\ \A i \in 2..Len(w) : v[i] = w[i]
  OBVIOUS

\* A packet of the n bytes after z is appended to a chain.
LEMMA ChainGrows ==
  ASSUME NEW w \in Seq(Bytes), NEW a \in Nat, NEW z \in Nat, Chain(w, a, z), NEW n \in Nat, n > 0
  PROVE  LET v == Append(w, [i \in 1..n |-> z + i])
         IN  v \in Seq(Bytes) /\ Chain(v, a, z + n)
  <1> DEFINE p == [i \in 1..n |-> z + i]
             v == Append(w, p)
  <1>1. p \in Bytes /\ Size(p) = n /\ First(p) = z + 1 /\ (\A j \in 1..n : p[j] = z + j)
    <2>1. p \in Seq(Nat) /\ Len(p) = n /\ p[1] = z + 1 /\ (\A j \in 1..n : p[j] = z + j)
      OBVIOUS
    <2>2. p # <<>>
      BY <2>1
    <2> QED BY <2>1, <2>2 DEF Bytes, Size, First
  <1> HIDE DEF p
  <1>2. Packet(p)
    BY <1>1 DEF Packet
  <1>3. v \in Seq(Bytes) /\ Len(w) \in Nat /\ Len(v) = Len(w) + 1 /\ v[Len(w) + 1] = p /\ (\A i \in 1..Len(w) : v[i] = w[i])
    BY <1>1, AppendFacts
  <1> HIDE DEF v
  <1>4. \A i \in 1..Len(w) : Packet(w[i]) /\ First(w[i]) \in Nat /\ Size(w[i]) \in Nat
    BY DEF Chain, Packet
  <1>5. \A i \in 1..Len(v) : Packet(v[i])
    BY <1>2, <1>3, <1>4
  <1>6. ASSUME NEW i \in 1..Len(v), i < Len(v)
        PROVE  First(v[i + 1]) = First(v[i]) + Size(v[i])
    <2>1. i \in 1..Len(w) /\ v[i] = w[i] /\ i \in Nat
      BY <1>3, <1>6
    <2>2. CASE i < Len(w)
      <3>1. v[i + 1] = w[i + 1]
        BY <1>3, <2>1, <2>2
      <3>2. First(w[i + 1]) = First(w[i]) + Size(w[i])
        BY <2>1, <2>2 DEF Chain
      <3> QED BY <2>1, <3>1, <3>2
    <2>3. CASE i = Len(w)
      <3>1. v[i + 1] = p
        BY <1>3, <2>3
      <3>2. First(w[i]) + Size(w[i]) = z + 1
        BY <1>3, <2>1, <2>3 DEF Chain
      <3> QED BY <1>1, <2>1, <3>1, <3>2
    <2> QED BY <1>3, <2>1, <2>2, <2>3
  <1>7. First(v[1]) = a + 1
    <2>1. CASE Len(w) = 0
      <3>1. a = z /\ v[1] = p
        BY <1>3, <2>1 DEF Chain
      <3> QED BY <1>1, <3>1
    <2>2. CASE Len(w) > 0
      <3>1. v[1] = w[1] /\ First(w[1]) = a + 1
        BY <1>3, <2>2 DEF Chain
      <3> QED BY <3>1
    <2> QED BY <1>3, <2>1, <2>2
  <1>8. v[Len(v)] = p /\ First(p) + Size(p) = z + n + 1
    BY <1>1, <1>3
  <1>9. Chain(v, a, z + n)
    BY <1>3, <1>5, <1>6, <1>7, <1>8 DEF Chain
  <1> QED BY <1>3, <1>9 DEF v, p

\* The first packet is taken from a chain, or n bytes of it.
LEMMA ChainTaken ==
  ASSUME NEW w \in Seq(Bytes), NEW a \in Nat, NEW z \in Nat, Chain(w, a, z), w # <<>>
  PROVE  /\ Tail(w) \in Seq(Bytes) /\ Packet(Head(w)) /\ Chain(Tail(w), a + Size(Head(w)), z)
         /\ \A j \in 1..Size(Head(w)) : Head(w)[j] = a + j
  <1> DEFINE v == Tail(w)
             h == Head(w)
  <1>1. /\ v \in Seq(Bytes) /\ h = w[1] /\ Len(w) \in Nat /\ Len(w) > 0
        /\ Len(v) = Len(w) - 1 /\ (\A i \in 1..(Len(w) - 1) : v[i] = w[i + 1])
    BY TailFacts
  <1> HIDE DEF v, h
  <1>2. /\ \A i \in 1..Len(w) : Packet(w[i])
        /\ \A i \in 1..Len(w) : i < Len(w) => First(w[i + 1]) = First(w[i]) + Size(w[i])
        /\ First(w[1]) = a + 1 /\ First(w[Len(w)]) + Size(w[Len(w)]) = z + 1
    BY <1>1 DEF Chain
  <1>3. Packet(h) /\ First(h) = a + 1 /\ Size(h) \in Nat
    BY <1>1, <1>2 DEF Packet
  <1>4. \A j \in 1..Size(h) : h[j] = a + j
    BY <1>3 DEF Packet
  <1>5. \A i \in 1..Len(v) : Packet(v[i])
    BY <1>1, <1>2
  <1>6. ASSUME NEW i \in 1..Len(v), i < Len(v)
        PROVE  First(v[i + 1]) = First(v[i]) + Size(v[i])
    <2>1. /\ i + 1 \in 1..Len(w) /\ i + 1 < Len(w) /\ v[i] = w[i + 1] /\ v[i + 1] = w[(i + 1) + 1]
      BY <1>1, <1>6
    <2>2. First(w[(i + 1) + 1]) = First(w[i + 1]) + Size(w[i + 1])
      BY <1>2, <2>1
    <2> QED BY <2>1, <2>2
  <1>7. Len(v) = 0 => a + Size(h) = z
    <2> SUFFICES ASSUME Len(v) = 0 PROVE a + Size(h) = z
      OBVIOUS
    <2>1. Len(w) = 1
      BY <1>1
    <2>2. First(h) + Size(h) = z + 1
      BY <1>1, <1>2, <2>1
    <2> QED BY <1>3, <2>2
  <1>8. Len(v) > 0 => First(v[1]) = a + Size(h) + 1 /\ First(v[Len(v)]) + Size(v[Len(v)]) = z + 1
    <2> SUFFICES ASSUME Len(v) > 0
                 PROVE  First(v[1]) = a + Size(h) + 1 /\ First(v[Len(v)]) + Size(v[Len(v)]) = z + 1
      OBVIOUS
    <2>1. v[1] = w[2] /\ v[Len(v)] = w[Len(w)] /\ 1 \in 1..Len(w) /\ 1 < Len(w)
      BY <1>1
    <2>2. First(w[2]) = First(w[1]) + Size(w[1])
      BY <1>2, <2>1
    <2> QED BY <1>1, <1>2, <1>3, <2>1, <2>2
  <1>9. Chain(v, a + Size(h), z)
    BY <1>1, <1>5, <1>6, <1>7, <1>8 DEF Chain
  <1> QED BY <1>1, <1>3, <1>4, <1>9 DEF v, h

LEMMA ChainCut ==
  ASSUME NEW w \in Seq(Bytes), NEW a \in Nat, NEW z \in Nat, Chain(w, a, z), w # <<>>,
         NEW n \in Nat, n < Size(Head(w))
  PROVE  LET v == <<SubSeq(Head(w), n + 1, Len(Head(w)))>> \o Tail(w)
         IN  v \in Seq(Bytes) /\ Chain(v, a + n, z)
  <1> DEFINE h == Head(w)
             r == SubSeq(h, n + 1, Len(h))
             v == <<r>> \o Tail(w)
  <1>1. Packet(h) /\ h \in Bytes /\ Size(h) \in Nat /\ h = w[1] /\ Len(w) \in Nat /\ Len(w) > 0 /\ n < Size(h)
    BY ChainTaken, TailFacts DEF Packet
  <1>2. \A j \in 1..Size(h) : h[j] = a + j
    BY ChainTaken
  <1> HIDE DEF h
  <1>3. r \in Bytes /\ Size(r) = Size(h) - n /\ First(r) = r[1] /\ (\A j \in 1..Size(r) : r[j] = h[n + j])
    <2>1. h \in Seq(Nat) /\ n < Len(h)
      BY <1>1 DEF Bytes, Size
    <2>2. r \in Seq(Nat) /\ Len(r) = Len(h) - n /\ (\A j \in 1..Len(r) : r[j] = h[n + j])
      BY <2>1
    <2>3. Len(r) # 0
      BY <2>1, <2>2
    <2> HIDE DEF r
    <2>4. r # <<>>
      BY <2>2, <2>3, SomeByte
    <2> QED BY <2>2, <2>4 DEF Bytes, Size, First
  <1> HIDE DEF r
  <1>4. Size(r) \in Nat /\ Size(r) > 0 /\ First(r) = a + n + 1 /\ (\A j \in 1..Size(r) : r[j] = a + n + j)
    <2>1. Size(r) \in Nat /\ Size(r) > 0
      BY <1>1, <1>3
    <2>2. ASSUME NEW j \in 1..Size(r) PROVE r[j] = a + n + j
      <3>1. n + j \in 1..Size(h) /\ r[j] = h[n + j]
        BY <1>1, <1>3, <2>1
      <3>2. h[n + j] = a + (n + j)
        BY <1>2, <3>1
      <3> QED BY <2>1, <3>1, <3>2
    <2>3. r[1] = a + n + 1
      BY <2>1, <2>2
    <2> QED BY <1>3, <2>1, <2>2, <2>3
  <1>5. Packet(r)
    BY <1>3, <1>4 DEF Packet
  <1>6. v \in Seq(Bytes) /\ Len(v) = Len(w) /\ v[1] = r /\ (\A i \in 2..Len(w) : v[i] = w[i])
    BY <1>3, FirstReplaced
  <1> HIDE DEF v
  <1>7. /\ \A i \in 1..Len(w) : Packet(w[i])
        /\ \A i \in 1..Len(w) : i < Len(w) => First(w[i + 1]) = First(w[i]) + Size(w[i])
        /\ First(w[1]) = a + 1 /\ First(w[Len(w)]) + Size(w[Len(w)]) = z + 1
    BY <1>1 DEF Chain
  <1>8. \A i \in 1..Len(v) : Packet(v[i])
    BY <1>1, <1>5, <1>6, <1>7
  <1>9. ASSUME NEW i \in 1..Len(v), i < Len(v)
        PROVE  First(v[i + 1]) = First(v[i]) + Size(v[i])
    <2>1. v[i + 1] = w[i + 1] /\ First(w[i + 1]) = First(w[i]) + Size(w[i])
      BY <1>1, <1>6, <1>7, <1>9
    <2>2. CASE i = 1
      <3>1. v[i] = r /\ w[i] = h
        BY <1>1, <1>6, <2>2
      <3>2. First(h) = a + 1
        BY <1>1, <1>7
      <3> QED BY <1>1, <1>3, <1>4, <2>1, <3>1, <3>2
    <2>3. CASE i # 1
      BY <1>1, <1>6, <1>9, <2>1, <2>3
    <2> QED BY <2>2, <2>3
  <1>10. First(v[Len(v)]) + Size(v[Len(v)]) = z + 1
    <2>1. CASE Len(w) = 1
      <3>1. First(h) + Size(h) = z + 1 /\ First(h) = a + 1 /\ v[Len(v)] = r
        BY <1>1, <1>6, <1>7, <2>1
      <3> QED BY <1>1, <1>3, <1>4, <3>1
    <2>2. CASE Len(w) # 1
      BY <1>1, <1>6, <1>7, <2>2
    <2> QED BY <2>1, <2>2
  <1>11. First(v[1]) = a + n + 1
    BY <1>4, <1>6
  <1>12. Chain(v, a + n, z)
    BY <1>1, <1>6, <1>8, <1>9, <1>10, <1>11 DEF Chain
  <1> QED BY <1>6, <1>12 DEF v, r, h

\* Bytes that rise, one packet after the other.
LEMMA Joined ==
  ASSUME NEW s \in Seq(Nat), NEW t \in Seq(Nat)
  PROVE  /\ s \o t \in Seq(Nat) /\ Len(s \o t) = Len(s) + Len(t)
         /\ \A i \in DOMAIN s : (s \o t)[i] = s[i]
         /\ \A i \in DOMAIN t : (s \o t)[Len(s) + i] = t[i]
         /\ \A i \in DOMAIN (s \o t) : \/ i \in DOMAIN s /\ (s \o t)[i] = s[i]
                                       \/ /\ i > Len(s) /\ i - Len(s) \in DOMAIN t
                                          /\ (s \o t)[i] = t[i - Len(s)]
  OBVIOUS

LEMMA RisesJoined ==
  ASSUME NEW s \in Seq(Nat), NEW t \in Seq(Nat), Rises(s), Rises(t), Below(s, t)
  PROVE  Rises(s \o t)
  <1> DEFINE u == s \o t
  <1>1. \A i \in DOMAIN u : \/ i \in DOMAIN s /\ u[i] = s[i]
                            \/ i > Len(s) /\ i - Len(s) \in DOMAIN t /\ u[i] = t[i - Len(s)]
    BY Joined
  <1>2. DOMAIN u \subseteq Nat /\ DOMAIN s = 1..Len(s) /\ Len(s) \in Nat /\ DOMAIN t = 1..Len(t) /\ Len(t) \in Nat
    BY Joined
  <1> HIDE DEF u
  <1>3. ASSUME NEW i \in DOMAIN u, NEW j \in DOMAIN u, i < j PROVE u[i] < u[j]
    <2>1. CASE i \in DOMAIN s /\ u[i] = s[i] /\ j \in DOMAIN s /\ u[j] = s[j]
      BY <1>3, <2>1 DEF Rises
    <2>2. CASE i \in DOMAIN s /\ u[i] = s[i] /\ j - Len(s) \in DOMAIN t /\ u[j] = t[j - Len(s)]
      BY <2>2 DEF Below
    <2>3. CASE i - Len(s) \in DOMAIN t /\ u[i] = t[i - Len(s)] /\ j - Len(s) \in DOMAIN t /\ u[j] = t[j - Len(s)]
      <3>1. i - Len(s) < j - Len(s)
        BY <1>2, <1>3
      <3> QED BY <2>3, <3>1 DEF Rises
    <2>4. ~ (i > Len(s) /\ j \in DOMAIN s)
      BY <1>2, <1>3
    <2> QED BY <1>1, <2>1, <2>2, <2>3, <2>4
  <1> QED BY <1>3 DEF Rises, u

LEMMA BelowJoined ==
  ASSUME NEW s \in Seq(Nat), NEW t \in Seq(Nat), NEW q, Below(s, q), Below(t, q)
  PROVE  Below(s \o t, q)
  <1> DEFINE u == s \o t
  <1>1. \A i \in DOMAIN u : \/ i \in DOMAIN s /\ u[i] = s[i]
                            \/ i > Len(s) /\ i - Len(s) \in DOMAIN t /\ u[i] = t[i - Len(s)]
    BY Joined
  <1> HIDE DEF u
  <1> QED BY <1>1 DEF Below, u

LEMMA AtMostJoined ==
  ASSUME NEW s \in Seq(Nat), NEW t \in Seq(Nat), NEW z, AtMost(s, z), AtMost(t, z)
  PROVE  AtMost(s \o t, z)
  <1> DEFINE u == s \o t
  <1>1. \A i \in DOMAIN u : \/ i \in DOMAIN s /\ u[i] = s[i]
                            \/ i > Len(s) /\ i - Len(s) \in DOMAIN t /\ u[i] = t[i - Len(s)]
    BY Joined
  <1> HIDE DEF u
  <1> QED BY <1>1 DEF AtMost, u

\* The first n bytes of a packet.
LEMMA FirstOf ==
  ASSUME NEW h \in Seq(Nat), NEW n \in Nat, n <= Len(h)
  PROVE  /\ SubSeq(h, 1, n) \in Seq(Nat) /\ Len(SubSeq(h, 1, n)) = n
         /\ DOMAIN SubSeq(h, 1, n) = 1..n
         /\ 1..n \subseteq DOMAIN h
         /\ \A i \in 1..n : SubSeq(h, 1, n)[i] = h[i]
  OBVIOUS

LEMMA FirstOfRises ==
  ASSUME NEW h \in Seq(Nat), NEW n \in Nat, n <= Len(h)
  PROVE  /\ Rises(h) => Rises(SubSeq(h, 1, n))
         /\ \A g : Below(g, h) => Below(g, SubSeq(h, 1, n))
         /\ \A g : Below(h, g) => Below(SubSeq(h, 1, n), g)
         /\ \A z : AtMost(h, z) => AtMost(SubSeq(h, 1, n), z)
  <1> DEFINE p == SubSeq(h, 1, n)
  <1>1. DOMAIN p = 1..n /\ 1..n \subseteq DOMAIN h /\ (\A i \in 1..n : p[i] = h[i])
    BY FirstOf
  <1> HIDE DEF p
  <1>2. Rises(h) => Rises(p)
    BY <1>1 DEF Rises
  <1>3. \A g : Below(g, h) => Below(g, p)
    BY <1>1 DEF Below
  <1>4. \A g : Below(h, g) => Below(p, g)
    BY <1>1 DEF Below
  <1>5. \A z : AtMost(h, z) => AtMost(p, z)
    BY <1>1 DEF AtMost
  <1> QED BY <1>2, <1>3, <1>4, <1>5 DEF p

\* The packet of the n bytes after z.
LEMMA NewPacket ==
  ASSUME NEW z \in Nat, NEW n \in Nat, n > 0
  PROVE  LET p == [i \in 1..n |-> z + i]
         IN  /\ p \in Bytes /\ Rises(p) /\ AtMost(p, z + n) /\ First(p) = z + 1
             /\ \A s : s \in Seq(Nat) /\ AtMost(s, z) => Below(s, p)
  <1> DEFINE p == [i \in 1..n |-> z + i]
  <1>1. p \in Seq(Nat) /\ Len(p) = n /\ DOMAIN p = 1..n /\ (\A j \in 1..n : p[j] = z + j)
    OBVIOUS
  <1> HIDE DEF p
  <1>2. p # <<>>
    BY <1>1
  <1>3. p \in Bytes /\ First(p) = z + 1
    BY <1>1, <1>2 DEF Bytes, First
  <1>4. Rises(p) /\ AtMost(p, z + n)
    BY <1>1 DEF Rises, AtMost
  <1>5. ASSUME NEW s, s \in Seq(Nat), AtMost(s, z) PROVE Below(s, p)
    <2>1. \A i \in DOMAIN s : s[i] \in Nat /\ s[i] <= z
      BY <1>5 DEF AtMost
    <2> QED BY <1>1, <2>1 DEF Below
  <1> QED BY <1>3, <1>4, <1>5 DEF p

\* Bytes stored in the caller's buffer after those that are there.
LEMMA StoredFacts ==
  ASSUME mem \in Seq(Nat), total \in Nat, sub \in Nat, NEW bs \in Seq(Nat), total + sub + Len(bs) <= Len(mem)
  PROVE  /\ stored(bs) \in Seq(Nat) /\ Len(stored(bs)) = Len(mem)
         /\ \A i \in 1..(total + sub) : stored(bs)[i] = mem[i]
         /\ \A i \in 1..Len(bs) : stored(bs)[total + sub + i] = bs[i]
         /\ SubSeq(stored(bs), 1, total + sub + Len(bs)) = SubSeq(mem, 1, total + sub) \o bs
  <1> DEFINE m == stored(bs)
             b == total + sub
             x == SubSeq(m, 1, b + Len(bs))
             y == SubSeq(mem, 1, b)
  <1>1. DOMAIN mem = 1..Len(mem) /\ Len(mem) \in Nat /\ DOMAIN bs = 1..Len(bs) /\ Len(bs) \in Nat /\ b \in Nat
    OBVIOUS
  <1>2. m = [i \in 1..Len(mem) |-> IF i - total - sub \in 1..Len(bs) THEN bs[i - total - sub] ELSE mem[i]]
    BY <1>1 DEF stored
  <1>3. \A i \in 1..Len(mem) : (IF i - total - sub \in 1..Len(bs) THEN bs[i - total - sub] ELSE mem[i]) \in Nat
    OBVIOUS
  <1>4. m \in [1..Len(mem) -> Nat]
    BY <1>2, <1>3
  <1>5. m \in Seq(Nat) /\ Len(m) = Len(mem)
    <2> HIDE DEF m
    <2> QED BY <1>1, <1>4, SequenceOf
  <1>6. \A i \in 1..b : m[i] = mem[i]
    BY <1>1, <1>2
  <1>7. ASSUME NEW i \in 1..Len(bs) PROVE m[b + i] = bs[i]
    <2>1. b + i \in 1..Len(mem) /\ (b + i) - total - sub = i
      BY <1>1
    <2> QED BY <1>2, <2>1
  <1> HIDE DEF m
  <1>8. x = y \o bs
    <2>1. x \in Seq(Nat) /\ Len(x) = b + Len(bs) /\ (\A i \in 1..(b + Len(bs)) : x[i] = m[i])
      BY <1>1, <1>5
    <2>2. y \in Seq(Nat) /\ Len(y) = b /\ DOMAIN y = 1..b /\ (\A i \in 1..b : y[i] = mem[i])
      BY <1>1
    <2> HIDE DEF x, y, b
    <2> DEFINE q == y \o bs
    <2>3. /\ q \in Seq(Nat) /\ Len(q) = b + Len(bs)
          /\ \A i \in 1..b : q[i] = y[i]
          /\ \A i \in 1..Len(bs) : q[b + i] = bs[i]
      <3>1. /\ q \in Seq(Nat) /\ Len(q) = Len(y) + Len(bs)
            /\ \A i \in DOMAIN y : q[i] = y[i]
            /\ \A i \in DOMAIN bs : q[Len(y) + i] = bs[i]
        BY <2>2, Joined
      <3> HIDE DEF q
      <3> QED BY <1>1, <2>2, <3>1
    <2> HIDE DEF q
    <2>4. ASSUME NEW i \in 1..(b + Len(bs)) PROVE x[i] = q[i]
      <3>1. CASE i \in 1..b
        BY <1>6, <2>1, <2>2, <2>3, <2>4, <3>1
      <3>2. CASE i \notin 1..b
        <4> DEFINE j == i - b
        <4>1. j \in 1..Len(bs) /\ i = b + j
          BY <1>1, <2>4, <3>2
        <4> HIDE DEF j
        <4> QED BY <1>7, <2>1, <2>3, <4>1
      <3> QED BY <3>1, <3>2
    <2>5. x = q
      BY <1>1, <2>1, <2>3, <2>4, SameBytes
    <2> QED BY <2>5 DEF q
  <1> QED BY <1>5, <1>6, <1>7, <1>8 DEF m

\* A read that fails.
LEMMA FailKeeps ==
  ASSUME TIInv, pc' = "idle", clean' = FALSE, st = "Open",
         UNCHANGED <<kind, st, bflag, req, mem, total, sub, sent, got>>,
         handle' \in {handle, "none"}, wire' \in Seq(Bytes)
  PROVE  TIInv'
  <1>1. TTypes'
    BY DEF TIInv, TTypes
  <1>2. ~ Reading'
    BY DEF Reading
  <1>3. InCall' /\ NoHandleLeak'
    BY <1>2 DEF TIInv, InCall, NoHandleLeak
  <1> QED BY <1>1, <1>3 DEF TIInv

\* A step within a read that moves no byte.
LEMMA WaitKeeps ==
  ASSUME TIInv, Reading, pc' \in {"loop", "recv", "call"}, total' \in Nat, sub' \in Nat, Held' = Held,
         UNCHANGED <<kind, st, bflag, req, mem, wire, sent, got, clean>>,
         handle' \in {handle, "none"},
         pc' = "loop" => kind \notin Bulks,
         pc' = "call" => kind \in Serials,
         pc' = "recv" => sub' = 0 /\ kind \notin Bulks,
         pc = "recv" => ~ bflag
  PROVE  TIInv'
  <1>1. TTypes /\ InCall /\ NoHandleLeak /\ (clean => Flows)
    BY DEF TIInv
  <1>2. TTypes'
    BY <1>1 DEF TTypes
  <1>3. Reading' /\ st = "Open" /\ pc' # "idle"
    BY <1>1 DEF InCall, Reading
  <1>4. InCall' /\ NoHandleLeak'
    BY <1>1, <1>3 DEF InCall, NoHandleLeak
  <1>5. ASSUME clean PROVE Flows'
    <2>1. Single' = Single /\ Filled' = Filled
      BY DEF Single, Filled
    <2>2. StreamFlows => StreamFlows'
      BY <1>3 DEF StreamFlows
    <2>3. BulkFlows => BulkFlows'
      BY DEF BulkFlows
    <2>4. DatagramsRise => DatagramsRise'
      BY <2>1 DEF DatagramsRise
    <2> QED BY <1>1, <1>5, <2>1, <2>2, <2>3, <2>4 DEF Flows
  <1> QED BY <1>2, <1>4, <1>5 DEF TIInv

\* The device sends a packet.
LEMMA SendingKeeps ==
  ASSUME "Win32Serial" \notin Backends, TIInv, deviceSends
  PROVE  TIInv'
  <1>1. TTypes /\ InCall /\ NoHandleLeak /\ (clean => Flows)
    BY DEF TIInv
  <1>2. UNCHANGED <<kind, st, handle, bflag, pc, req, mem, total, sub, got, clean>> /\ st = "Open"
    BY DEF deviceSends, readvars
  <1>3. PICK n \in 1..(IF kind \in Datagrams \cup Bulks THEN 2 ELSE 1) :
           wire' = Append(wire, [i \in 1..n |-> sent + i]) /\ sent' = sent + n
    BY DEF deviceSends
  <1>4. n \in Nat /\ n > 0 /\ sent \in Nat /\ sent' \in Nat /\ wire \in Seq(Bytes) /\ got \in Seq(Nat) /\ mem \in Seq(Nat)
        /\ (kind \notin Datagrams \cup Bulks => n = 1)
    BY <1>1, <1>3 DEF TTypes
  <1> DEFINE p == [i \in 1..n |-> sent + i]
  <1>5. /\ p \in Bytes /\ Rises(p) /\ AtMost(p, sent + n) /\ First(p) = sent + 1
        /\ \A s : s \in Seq(Nat) /\ AtMost(s, sent) => Below(s, p)
    BY <1>4, NewPacket
  <1> HIDE DEF p
  <1>6. /\ wire' \in Seq(Bytes) /\ Len(wire) \in Nat /\ Len(wire') = Len(wire) + 1 /\ wire'[Len(wire) + 1] = p
        /\ \A i \in 1..Len(wire) : wire'[i] = wire[i]
    <2>1. wire' = Append(wire, p)
      BY <1>3 DEF p
    <2> QED BY <1>4, <1>5, <2>1, AppendFacts
  <1>7. TTypes'
    BY <1>1, <1>2, <1>4, <1>6 DEF TTypes
  <1>8. Reading' = Reading /\ Held' = Held /\ Filled' = Filled /\ Single' = Single
    BY <1>2 DEF Reading, Held, Filled, Single
  <1>9. InCall' /\ NoHandleLeak'
    BY <1>1, <1>2, <1>8 DEF InCall, NoHandleLeak
  <1>10. ASSUME clean PROVE Flows'
    <2>1. ASSUME Single PROVE StreamFlows'
      <3>1. StreamFlows /\ n = 1 /\ Held \in Nat /\ Len(got) \in Nat
        BY <1>1, <1>4, <1>10, <2>1, KindsApart DEF Flows, TTypes, Held
      <3>2. ASSUME ~ bflag
            PROVE  /\ Len(got) + Held + Len(wire') = sent'
                   /\ \A i \in 1..Len(wire') : First(wire'[i]) = Len(got) + Held + i
        <4>1. /\ Len(got) + Held + Len(wire) = sent
              /\ \A i \in 1..Len(wire) : First(wire[i]) = Len(got) + Held + i
          BY <1>2, <1>4, <3>1, <3>2 DEF StreamFlows
        <4>2. Len(got) + Held + Len(wire') = sent'
          BY <1>3, <1>4, <1>6, <3>1, <4>1
        <4>3. ASSUME NEW i \in 1..Len(wire') PROVE First(wire'[i]) = Len(got) + Held + i
          <5>1. CASE i \in 1..Len(wire)
            BY <1>6, <4>1, <5>1
          <5>2. CASE i = Len(wire) + 1
            BY <1>5, <1>6, <3>1, <4>1, <5>2
          <5> QED BY <1>6, <5>1, <5>2
        <4> QED BY <4>2, <4>3
      <3>3. DOMAIN wire' = 1..Len(wire')
        BY <1>6
      <3> QED BY <1>2, <1>8, <3>1, <3>2, <3>3 DEF StreamFlows
    <2>2. ASSUME kind \in Bulks PROVE BulkFlows'
      <3>1. BulkFlows
        BY <1>1, <1>10, <2>2 DEF Flows
      <3>2. Chain(wire, Len(got), sent) /\ Len(got) \in Nat
        BY <1>2, <1>4, <3>1 DEF BulkFlows
      <3>3. Chain(wire', Len(got), sent')
        BY <1>3, <1>4, <3>2, ChainGrows
      <3> QED BY <1>2, <3>1, <3>3 DEF BulkFlows
    <2>3. ASSUME kind \in Datagrams PROVE DatagramsRise'
      <3>1. DatagramsRise /\ Filled \in Seq(Nat)
        <4>1. DatagramsRise
          BY <1>1, <1>10, <2>3 DEF Flows
        <4>2. Held \in Int
          BY <1>1 DEF TTypes, Held
        <4>3. Reading => Len(mem) = req[2] /\ Held <= req[2]
          BY <1>1 DEF InCall
        <4>4. Held <= Len(mem)
          BY <1>1, <4>3 DEF Held, Reading, TTypes
        <4> QED BY <1>4, <4>1, <4>2, <4>4 DEF Filled
      <3>2. /\ Rises(got) /\ Rises(Filled) /\ Below(got, Filled) /\ AtMost(got, sent) /\ AtMost(Filled, sent)
            /\ \A k \in 1..Len(wire) : /\ Rises(wire[k]) /\ AtMost(wire[k], sent)
                                       /\ Below(got, wire[k]) /\ Below(Filled, wire[k])
            /\ \A k, l \in 1..Len(wire) : k < l => Below(wire[k], wire[l])
        BY <1>2, <3>1 DEF DatagramsRise
      <3>3. \A s : s \in Seq(Nat) /\ AtMost(s, sent) => AtMost(s, sent')
        BY <1>3, <1>4 DEF AtMost
      <3>4. \A k \in 1..Len(wire) : wire[k] \in Seq(Nat)
        <4>1. \A k \in 1..Len(wire) : wire[k] \in Bytes
          BY <1>4
        <4> QED BY <4>1 DEF Bytes
      <3>5. AtMost(got, sent') /\ AtMost(Filled, sent') /\ AtMost(p, sent') /\ Below(got, p) /\ Below(Filled, p)
        BY <1>3, <1>4, <1>5, <3>1, <3>2, <3>3
      <3>6. ASSUME NEW k \in 1..Len(wire')
            PROVE  /\ Rises(wire'[k]) /\ AtMost(wire'[k], sent')
                   /\ Below(got, wire'[k]) /\ Below(Filled, wire'[k])
        <4>1. CASE k \in 1..Len(wire)
          BY <1>6, <3>2, <3>3, <3>4, <4>1
        <4>2. CASE k = Len(wire) + 1
          BY <1>5, <1>6, <3>5, <4>2
        <4> QED BY <1>6, <4>1, <4>2
      <3>7. ASSUME NEW k \in 1..Len(wire'), NEW l \in 1..Len(wire'), k < l
            PROVE  Below(wire'[k], wire'[l])
        <4>1. k \in 1..Len(wire) /\ wire'[k] = wire[k]
          BY <1>6, <3>7
        <4>2. CASE l \in 1..Len(wire)
          BY <1>6, <3>2, <3>7, <4>1, <4>2
        <4>3. CASE l = Len(wire) + 1
          BY <1>5, <1>6, <3>2, <3>4, <4>1, <4>3
        <4> QED BY <1>6, <4>2, <4>3
      <3> QED BY <1>2, <1>8, <3>2, <3>5, <3>6, <3>7 DEF DatagramsRise
    <2> QED BY <1>2, <1>8, <2>1, <2>2, <2>3 DEF Flows
  <1> QED BY <1>2, <1>7, <1>9, <1>10 DEF TIInv

\* What the buffer holds, in numbers.
LEMMA HeldFacts ==
  ASSUME TTypes, InCall
  PROVE  /\ Held \in Nat /\ Held <= Len(mem) /\ Len(mem) \in Nat /\ Len(got) \in Nat /\ Len(wire) \in Nat
         /\ Filled \in Seq(Nat) /\ Len(Filled) = Held
         /\ \A k \in 1..Len(wire) : wire[k] \in Bytes /\ wire[k] \in Seq(Nat)
  <1>1. mem \in Seq(Nat) /\ got \in Seq(Nat) /\ wire \in Seq(Bytes) /\ total \in Nat /\ sub \in Nat
    BY DEF TTypes
  <1>2. Held \in Nat /\ Len(mem) \in Nat /\ Len(got) \in Nat /\ Len(wire) \in Nat
    BY <1>1 DEF Held
  <1>3. Reading => Len(mem) = req[2] /\ Held <= req[2]
    BY DEF InCall
  <1>4. Held <= Len(mem)
    BY <1>2, <1>3 DEF Held, Reading
  <1>5. Filled \in Seq(Nat) /\ Len(Filled) = Held
    BY <1>1, <1>2, <1>4 DEF Filled
  <1>6. \A k \in 1..Len(wire) : wire[k] \in Bytes
    BY <1>1
  <1> QED BY <1>2, <1>4, <1>5, <1>6 DEF Bytes

\* read() begins.
LEMMA ReadCallKeeps ==
  ASSUME TIInv, readCall
  PROVE  TIInv'
  <1>1. TTypes /\ InCall /\ NoHandleLeak /\ (clean => Flows)
    BY DEF TIInv
  <1>2. pc = "idle" /\ UNCHANGED <<kind, st, handle, bflag, wire, sent>>
    BY DEF readCall, Call
  <1>3. CASE pc' = "idle" /\ clean' = FALSE /\ UNCHANGED <<got, req, mem, total, sub>>
    <2>1. TTypes'
      BY <1>1, <1>2, <1>3 DEF TTypes
    <2>2. ~ Reading'
      BY <1>3 DEF Reading
    <2>3. InCall' /\ NoHandleLeak'
      BY <1>1, <1>2, <1>3, <2>2 DEF InCall, NoHandleLeak
    <2> QED BY <1>3, <2>1, <2>3 DEF TIInv
  <1>4. CASE /\ st = "Open" /\ req' \in Reads /\ mem' = [i \in 1..req'[2] |-> 0] /\ total' = 0 /\ sub' = 0
             /\ pc' = IF This.loops THEN "loop" ELSE "recv"
             /\ UNCHANGED <<got, clean>>
    <2>1. req' \in Nat \X Nat /\ req'[2] \in Nat
      BY <1>4, TransportAssumption DEF Reads
    <2>2. mem' \in Seq(Nat) /\ Len(mem') = req'[2]
      BY <1>4, <2>1
    <2>3. pc' \in {"loop", "recv"} /\ (kind \in Bulks => pc' = "recv")
      <3>1. kind \in Bulks => This = UsbTransport
        BY DEF This, Bulks, Serials, Streams, Datagrams
      <3>2. UsbTransport.loops = FALSE
        BY DEF UsbTransport
      <3> QED BY <1>4, <3>1, <3>2
    <2>4. TTypes'
      BY <1>1, <1>2, <1>4, <2>1, <2>2, <2>3 DEF TTypes
    <2>5. Held = 0 /\ Held' = 0 /\ Reading' /\ ~ Reading
      BY <1>2, <1>4, <2>3 DEF Held, Reading
    <2>6. InCall' /\ NoHandleLeak'
      BY <1>1, <1>2, <1>4, <2>1, <2>2, <2>3, <2>5 DEF InCall, NoHandleLeak
    <2>7. ASSUME clean PROVE Flows'
      <3>1. Filled = <<>> /\ Filled' = <<>> /\ Single' = Single
        <4>1. mem \in Seq(Nat)
          BY <1>1 DEF TTypes
        <4> QED BY <1>2, <2>2, <2>5, <4>1 DEF Filled, Single
      <3>2. StreamFlows => StreamFlows'
        BY <1>2, <1>4, <2>5 DEF StreamFlows
      <3>3. BulkFlows => BulkFlows'
        BY <1>2, <1>4 DEF BulkFlows
      <3>4. DatagramsRise => DatagramsRise'
        BY <1>2, <1>4, <3>1 DEF DatagramsRise
      <3> QED BY <1>1, <1>2, <2>7, <3>1, <3>2, <3>3, <3>4 DEF Flows
    <2> QED BY <1>4, <2>4, <2>6, <2>7 DEF TIInv
  <1> QED BY <1>3, <1>4 DEF readCall, Fail, Return, readvars

\* The loop of read().
LEMMA ReadLoopKeeps ==
  ASSUME "Win32Serial" \notin Backends, TIInv, readLoop
  PROVE  TIInv'
  <1>1. TTypes /\ InCall /\ NoHandleLeak /\ (clean => Flows)
    BY DEF TIInv
  <1>2. pc = "loop" /\ UNCHANGED <<kind, st, handle, bflag, wire, sent>>
    BY DEF readLoop
  <1>3. st = "Open" /\ kind \notin Bulks /\ Reading /\ Held = total /\ wire \in Seq(Bytes) /\ total \in Nat /\ handle' = handle
    BY <1>1, <1>2 DEF InCall, Reading, Held, TTypes
  <1>4. CASE pc' = "idle" /\ clean' = FALSE /\ UNCHANGED <<got, req, mem, total, sub>>
    BY <1>2, <1>3, <1>4, FailKeeps
  <1>5. CASE pc' = "recv" /\ sub' = 0 /\ UNCHANGED <<req, mem, total, got, clean>>
    <2>1. Held' = Held
      BY <1>3, <1>5 DEF Held
    <2> QED BY <1>2, <1>3, <1>5, <2>1, WaitKeeps
  <1>6. CASE Deliver(total) /\ UNCHANGED <<clean, req, mem, total, sub>>
    <2>1. /\ Held \in Nat /\ Held <= Len(mem) /\ Len(mem) \in Nat /\ Len(got) \in Nat /\ Len(wire) \in Nat
          /\ Filled \in Seq(Nat) /\ Len(Filled) = Held /\ got \in Seq(Nat) /\ mem \in Seq(Nat)
      BY <1>1, HeldFacts DEF TTypes
    <2>2. pc' = "idle" /\ got' = got \o Filled
      BY <1>3, <1>6 DEF Deliver, Return, Filled
    <2>3. Held' = 0 /\ ~ Reading' /\ Filled' = <<>> /\ Single' = Single
      BY <1>2, <1>6, <2>1, <2>2 DEF Held, Reading, Filled, Single
    <2>4. TTypes'
      BY <1>1, <1>2, <1>6, <2>1, <2>2 DEF TTypes
    <2>5. InCall' /\ NoHandleLeak'
      BY <1>1, <1>2, <1>3, <2>2, <2>3 DEF InCall, NoHandleLeak
    <2>6. ASSUME clean PROVE Flows'
      <3>1. ASSUME Single PROVE StreamFlows'
        <4>1. StreamFlows
          BY <1>1, <2>6, <3>1 DEF Flows
        <4>2. \A i \in 1..Held : Filled[i] = Len(got) + i
          <5>1. \A i \in 1..Held : mem[i] = Len(got) + i
            BY <1>2, <1>3, <4>1 DEF StreamFlows
          <5>2. \A i \in 1..Held : Filled[i] = mem[i]
            BY <2>1 DEF Filled
          <5> QED BY <5>1, <5>2
        <4>3. /\ Len(got') = Len(got) + Held
              /\ \A i \in DOMAIN got' : \/ i \in DOMAIN got /\ got'[i] = got[i]
                                        \/ /\ i > Len(got) /\ i - Len(got) \in 1..Held
                                           /\ got'[i] = Filled[i - Len(got)]
          <5> DEFINE u == got \o Filled
          <5>1. /\ Len(u) = Len(got) + Len(Filled)
                /\ \A i \in DOMAIN u : \/ i \in DOMAIN got /\ u[i] = got[i]
                                      \/ /\ i > Len(got) /\ i - Len(got) \in DOMAIN Filled
                                         /\ u[i] = Filled[i - Len(got)]
            BY <2>1, Joined
          <5>2. DOMAIN Filled = 1..Held
            BY <2>1
          <5> HIDE DEF u
          <5>3. got' = u
            BY <2>2 DEF u
          <5> QED BY <2>1, <5>1, <5>2, <5>3
        <4>4. DOMAIN got' = 1..(Len(got) + Held)
          <5>1. got' \in Seq(Nat)
            BY <2>4 DEF TTypes
          <5> QED BY <4>3, <5>1
        <4>5. ASSUME NEW i \in DOMAIN got' PROVE got'[i] = i
          <5>1. CASE i \in DOMAIN got /\ got'[i] = got[i]
            BY <4>1, <5>1 DEF StreamFlows
          <5>2. CASE i - Len(got) \in 1..Held /\ got'[i] = Filled[i - Len(got)]
            <6>1. got'[i] = Len(got) + (i - Len(got))
              BY <4>2, <5>2
            <6> QED BY <2>1, <4>4, <6>1
          <5> QED BY <4>3, <5>1, <5>2
        <4>6. ASSUME ~ bflag
              PROVE  /\ Len(got') + 0 + Len(wire) = sent
                     /\ \A i \in DOMAIN wire : First(wire[i]) = Len(got') + 0 + i
          <5>1. /\ Len(got) + Held + Len(wire) = sent
                /\ \A i \in DOMAIN wire : First(wire[i]) = Len(got) + Held + i
            BY <1>3, <4>1, <4>6 DEF StreamFlows
          <5> QED BY <2>1, <4>3, <5>1
        <4> QED BY <1>2, <2>3, <4>5, <4>6 DEF StreamFlows
      <3>2. ASSUME kind \in Datagrams PROVE DatagramsRise'
        <4>1. DatagramsRise
          BY <1>1, <2>6, <3>2 DEF Flows
        <4>2. /\ Rises(got) /\ Rises(Filled) /\ Below(got, Filled) /\ AtMost(got, sent) /\ AtMost(Filled, sent)
              /\ \A k \in 1..Len(wire) : /\ Rises(wire[k]) /\ AtMost(wire[k], sent)
                                         /\ Below(got, wire[k]) /\ Below(Filled, wire[k])
              /\ \A k, l \in 1..Len(wire) : k < l => Below(wire[k], wire[l])
          BY <1>3, <4>1 DEF DatagramsRise
        <4>3. Rises(got') /\ AtMost(got', sent)
          BY <2>1, <2>2, <4>2, RisesJoined, AtMostJoined
        <4>4. \A k \in 1..Len(wire) : Below(got', wire[k])
          BY <2>1, <2>2, <4>2, BelowJoined
        <4>5. /\ Rises(<<>>) /\ Below(got', <<>>) /\ AtMost(<<>>, sent)
              /\ \A k \in 1..Len(wire) : Below(<<>>, wire[k])
          BY DEF Rises, Below, AtMost
        <4> QED BY <1>2, <2>3, <4>2, <4>3, <4>4, <4>5 DEF DatagramsRise
      <3> QED BY <1>2, <1>3, <2>3, <3>1, <3>2 DEF Flows
    <2> QED BY <1>6, <2>4, <2>5, <2>6 DEF TIInv
  <1> QED BY <1>4, <1>5, <1>6 DEF readLoop, Fail, Return, readvars

\* What is left of a sequence after its first n elements.
LEMMA RestFacts ==
  ASSUME NEW S, NEW w \in Seq(S), NEW n \in Nat, n <= Len(w)
  PROVE  LET v == SubSeq(w, n + 1, Len(w))
         IN  /\ v \in Seq(S) /\ Len(v) = Len(w) - n /\ DOMAIN v = 1..(Len(w) - n)
             /\ \A i \in 1..(Len(w) - n) : v[i] = w[n + i]
  OBVIOUS

\* A stream or a port hands n bytes to the backend.
LEMMA TakenKeeps ==
  ASSUME TIInv, Single, pc \in {"recv", "call"}, pc' = "recv", pc = "recv" => ~ bflag,
         NEW n \in 1..room, n <= Len(wire),
         mem' = stored(FirstBytes(n)), sub' = sub + n, wire' = SubSeq(wire, n + 1, Len(wire)),
         UNCHANGED <<kind, st, handle, bflag, req, total, sent, got, clean>>
  PROVE  TIInv'
  <1>1. TTypes /\ InCall /\ NoHandleLeak /\ (clean => Flows)
    BY DEF TIInv
  <1>2. /\ mem \in Seq(Nat) /\ got \in Seq(Nat) /\ wire \in Seq(Bytes) /\ total \in Nat /\ sub \in Nat /\ sent \in Nat
        /\ req[2] \in Nat
    BY <1>1 DEF TTypes
  <1>3. /\ Held = total + sub /\ st = "Open" /\ Len(mem) = req[2] /\ Len(mem) \in Nat /\ Len(got) \in Nat /\ Len(wire) \in Nat
    BY <1>1, <1>2, HeldFacts DEF InCall, Held, Reading
  <1>4. n \in Nat /\ n > 0 /\ total + sub + n <= Len(mem)
    BY <1>2, <1>3 DEF room
  <1> DEFINE bs == FirstBytes(n)
  <1>5. bs \in Seq(Nat) /\ Len(bs) = n /\ (\A i \in 1..n : bs[i] = First(wire[i]))
    <2>1. \A i \in 1..n : wire[i] \in Bytes
      BY <1>2, <1>3, <1>4
    <2>2. \A p \in Bytes : First(p) \in Nat
      BY DEF Bytes, First
    <2>3. bs = [i \in 1..n |-> First(wire[i])]
      BY DEF FirstBytes, First
    <2>4. bs \in [1..n -> Nat]
      BY <2>1, <2>2, <2>3
    <2>5. \A i \in 1..n : bs[i] = First(wire[i])
      BY <2>3
    <2> HIDE DEF bs
    <2> QED BY <1>4, <2>4, <2>5, SequenceOf
  <1> HIDE DEF bs
  <1>6. /\ mem' \in Seq(Nat) /\ Len(mem') = Len(mem)
        /\ \A i \in 1..(total + sub) : mem'[i] = mem[i]
        /\ \A i \in 1..n : mem'[total + sub + i] = bs[i]
    <2>1. mem' = stored(bs)
      BY DEF bs
    <2>2. total + sub + Len(bs) <= Len(mem)
      BY <1>4, <1>5
    <2>3. /\ mem' \in Seq(Nat) /\ Len(mem') = Len(mem)
          /\ \A i \in 1..(total + sub) : mem'[i] = mem[i]
          /\ \A i \in 1..Len(bs) : mem'[total + sub + i] = bs[i]
      <3>1. bs \in Seq(Nat)
        BY <1>5
      <3>2. /\ stored(bs) \in Seq(Nat) /\ Len(stored(bs)) = Len(mem)
            /\ \A i \in 1..(total + sub) : stored(bs)[i] = mem[i]
            /\ \A i \in 1..Len(bs) : stored(bs)[total + sub + i] = bs[i]
        BY <1>2, <2>2, <3>1, StoredFacts, Zenon
      <3> QED BY <2>1, <3>2
    <2> QED BY <1>5, <2>3
  <1>7. /\ wire' \in Seq(Bytes) /\ Len(wire') = Len(wire) - n /\ DOMAIN wire' = 1..(Len(wire) - n)
        /\ \A i \in 1..(Len(wire) - n) : wire'[i] = wire[n + i]
    BY <1>2, <1>4, RestFacts
  <1>8. TTypes'
    BY <1>1, <1>2, <1>4, <1>6, <1>7 DEF TTypes
  <1>9. Held' = Held + n /\ Reading' /\ Single'
    BY <1>2, <1>3, <1>4 DEF Held, Reading, Single
  <1>10. InCall' /\ NoHandleLeak'
    <2>1. kind \notin Bulks /\ kind \notin Datagrams
      BY DEF Single, Streams, Serials, Bulks, Datagrams
    <2>2. Held' <= req[2]
      BY <1>3, <1>4, <1>9
    <2> QED BY <1>1, <1>3, <1>6, <1>9, <2>1, <2>2 DEF InCall, NoHandleLeak
  <1>11. ASSUME clean PROVE Flows'
    <2>1. StreamFlows
      BY <1>1, <1>11 DEF Flows
    <2>2. ASSUME ~ bflag
          PROVE  /\ \A i \in 1..Held' : mem'[i] = Len(got) + i
                 /\ Len(got) + Held' + Len(wire') = sent
                 /\ \A i \in DOMAIN wire' : First(wire'[i]) = Len(got) + Held' + i
      <3>1. /\ Len(got) + Held + Len(wire) = sent
            /\ \A i \in 1..Len(wire) : First(wire[i]) = Len(got) + Held + i
            /\ \A i \in 1..Held : mem[i] = Len(got) + i
        <4>1. Reading /\ st = "Open" /\ DOMAIN wire = 1..Len(wire)
          BY <1>2, <1>3 DEF Reading
        <4>2. /\ Reading /\ ~ (bflag /\ pc = "recv") => \A i \in 1..Held : mem[i] = Len(got) + i
              /\ st = "Open" /\ ~ bflag =>
                    /\ Len(got) + Held + Len(wire) = sent
                    /\ \A i \in DOMAIN wire : First(wire[i]) = Len(got) + Held + i
          BY <2>1, Zenon DEF StreamFlows
        <4>3. Len(got) + Held + Len(wire) = sent /\ \A i \in DOMAIN wire : First(wire[i]) = Len(got) + Held + i
          BY <2>2, <4>1, <4>2, Zenon
        <4>4. \A i \in 1..Held : mem[i] = Len(got) + i
          BY <2>2, <4>1, <4>2, Zenon
        <4> QED BY <4>1, <4>3, <4>4, Zenon
      <3>2. Len(got) + Held' + Len(wire') = sent
        <4>1. Held \in Nat /\ Held' = Held + n /\ Len(wire') = Len(wire) - n
          BY <1>2, <1>3, <1>7, <1>9
        <4> QED BY <1>3, <1>4, <3>1, <4>1
      <3>3. ASSUME NEW i \in DOMAIN wire' PROVE First(wire'[i]) = Len(got) + Held' + i
        <4>1. n + i \in 1..Len(wire) /\ wire'[i] = wire[n + i]
          <5>1. i \in 1..(Len(wire) - n) /\ Len(wire) \in Nat /\ n \in Nat
            BY <1>3, <1>4, <1>7
          <5>2. wire'[i] = wire[n + i]
            BY <1>7, <5>1
          <5>3. n + i \in 1..Len(wire)
            BY <5>1
          <5> QED BY <5>2, <5>3
        <4>2. First(wire[n + i]) = Len(got) + Held + (n + i)
          BY <3>1, <4>1
        <4> QED BY <1>2, <1>3, <1>4, <1>7, <1>9, <4>1, <4>2
      <3>4. ASSUME NEW i \in 1..Held' PROVE mem'[i] = Len(got) + i
        <4>1. CASE i \in 1..Held
          BY <1>3, <1>6, <3>1, <4>1
        <4>2. CASE i \notin 1..Held
          <5> DEFINE j == i - Held
          <5>1. j \in 1..n /\ i = total + sub + j
            BY <1>2, <1>3, <1>4, <1>9, <4>2
          <5> HIDE DEF j
          <5>2. mem'[i] = First(wire[j]) /\ j \in 1..Len(wire)
            <6>1. j \in 1..Len(wire)
              BY <1>3, <1>4, <5>1
            <6>2. mem'[total + sub + j] = bs[j] /\ bs[j] = First(wire[j])
              BY <1>5, <1>6, <5>1
            <6> QED BY <5>1, <6>1, <6>2
          <5>3. mem'[i] = Len(got) + Held + j
            BY <3>1, <5>2
          <5> QED BY <1>2, <1>3, <5>1, <5>3
        <4> QED BY <4>1, <4>2
      <3> QED BY <3>2, <3>3, <3>4
    <2>3. StreamFlows'
      BY <1>3, <1>9, <2>1, <2>2 DEF StreamFlows
    <2>4. kind' \notin Bulks /\ kind' \notin Datagrams
      BY DEF Single, Streams, Serials, Bulks, Datagrams
    <2> QED BY <2>3, <2>4 DEF Flows
  <1> QED BY <1>8, <1>10, <1>11 DEF TIInv

\* The backend of a stream.
LEMMA StreamKeeps ==
  ASSUME TIInv, pc = "recv", kind \in Streams, streamRead,
         UNCHANGED <<kind, st, bflag, sent>>
  PROVE  TIInv'
  <1>1. TTypes /\ InCall
    BY DEF TIInv
  <1>2. Reading /\ st = "Open" /\ ~ bflag /\ kind \notin Bulks /\ kind \notin Serials /\ Single
    BY <1>1 DEF Reading, InCall, Single, Streams, Bulks, Serials
  <1>3. wire \in Seq(Bytes) /\ total \in Nat /\ sub \in Nat /\ handle \in {"none", "open", "shut"}
    BY <1>1 DEF TTypes
  <1>4. ASSUME NEW r, Fail(r), handle' \in {handle, "none"}, wire' = wire PROVE TIInv'
    BY <1>2, <1>3, <1>4, FailKeeps DEF Fail, Return, readvars
  <1>5. ASSUME Back(sub), handle' \in {handle, "none"}, wire' = wire PROVE TIInv'
    <2>1. Held' = Held /\ total' \in Nat
      BY <1>3, <1>5 DEF Held, Back
    <2> QED BY <1>2, <1>3, <1>5, <2>1, WaitKeeps DEF Back
  <1>6. ASSUME TimedOut, ~ (sub > 0), handle' = handle, wire' = wire PROVE TIInv'
    <2>1. Held' = Held /\ total' \in Nat /\ pc' = "loop" /\ UNCHANGED <<req, mem, total, sub, got, clean>>
      BY <1>3, <1>6 DEF Held, TimedOut, readvars
    <2> QED BY <1>2, <1>3, <1>6, <2>1, WaitKeeps
  <1>7. ASSUME NEW n \in 1..room, n <= Len(wire), Taken(FirstBytes(n), sub + n),
               wire' = SubSeq(wire, n + 1, Len(wire)), handle' = handle, pc' = pc
        PROVE  TIInv'
    BY <1>2, <1>7, TakenKeeps DEF Taken
  <1> QED BY <1>4, <1>5, <1>6, <1>7 DEF streamRead

\* The backend of a port.
LEMMA SerialKeeps ==
  ASSUME TIInv, kind = "PosixSerial",
         (pc = "recv" /\ serialCheck /\ wire' = wire) \/ (pc = "call" /\ serialRead),
         UNCHANGED <<kind, st, handle, bflag, sent>>
  PROVE  TIInv'
  <1>1. TTypes /\ InCall
    BY DEF TIInv
  <1>2. Reading /\ st = "Open" /\ kind \notin Bulks /\ kind \in Serials /\ Single /\ kind # "Win32Serial"
    BY <1>1 DEF Reading, InCall, Single, Bulks, Serials
  <1>3. wire \in Seq(Bytes) /\ total \in Nat /\ sub \in Nat
    BY <1>1 DEF TTypes
  <1>4. ASSUME NEW r, Fail(r), wire' = wire PROVE TIInv'
    BY <1>2, <1>3, <1>4, FailKeeps DEF Fail, Return, readvars
  <1>5. ASSUME Back(sub), wire' = wire, pc \in {"recv", "call"}, pc = "recv" => ~ bflag PROVE TIInv'
    <2>1. Held' = Held /\ total' \in Nat
      BY <1>3, <1>5 DEF Held, Back
    <2> QED BY <1>2, <1>3, <1>5, <2>1, WaitKeeps DEF Back
  <1>6. ASSUME TimedOut, ~ (sub > 0), wire' = wire, pc \in {"recv", "call"}, pc = "recv" => ~ bflag PROVE TIInv'
    <2>1. Held' = Held /\ total' \in Nat /\ pc' = "loop" /\ UNCHANGED <<req, mem, total, sub, got, clean>>
      BY <1>3, <1>6 DEF Held, TimedOut, readvars
    <2> QED BY <1>2, <1>3, <1>6, <2>1, WaitKeeps
  <1>7. ASSUME pc = "recv", ~ bflag, pc' = "call", UNCHANGED <<readvars, got, clean>>, wire' = wire PROVE TIInv'
    <2>1. Held' = Held /\ UNCHANGED <<req, mem, total, sub>>
      BY <1>7 DEF Held, readvars
    <2> QED BY <1>2, <1>3, <1>7, <2>1, WaitKeeps
  <1>8. ASSUME pc = "call", NEW n \in 1..room, n <= Len(wire), Taken(FirstBytes(n), newCount(n)),
               wire' = SubSeq(wire, n + 1, Len(wire)), pc' = "recv"
        PROVE  TIInv'
    <2>1. newCount(n) = sub + n
      BY <1>2 DEF newCount
    <2> QED BY <1>2, <1>8, <2>1, TakenKeeps DEF Taken
  <1>9. CASE pc = "recv" /\ serialCheck /\ wire' = wire
    BY <1>4, <1>5, <1>6, <1>7, <1>9 DEF serialCheck
  <1>10. CASE pc = "call" /\ serialRead
    BY <1>4, <1>5, <1>6, <1>8, <1>10 DEF serialRead
  <1> QED BY <1>9, <1>10

\* A datagram is received, what does not fit cut off.
LEMMA DatagramTaken ==
  ASSUME TIInv, pc = "recv", pc' = "loop", kind \in Datagrams, wire # <<>>,
         NEW n \in Nat, n = IF Len(Head(wire)) < room THEN Len(Head(wire)) ELSE room,
         mem' = stored(SubSeq(Head(wire), 1, n)), total' = total + n, wire' = Tail(wire),
         UNCHANGED <<kind, st, handle, bflag, req, sub, sent, got, clean>>
  PROVE  TIInv'
  <1>1. TTypes /\ InCall /\ NoHandleLeak /\ (clean => Flows)
    BY DEF TIInv
  <1>2. /\ mem \in Seq(Nat) /\ got \in Seq(Nat) /\ wire \in Seq(Bytes) /\ total \in Nat /\ sub = 0 /\ sent \in Nat
        /\ req[2] \in Nat
    BY <1>1 DEF TTypes, InCall
  <1>3. Held = total /\ Held <= Len(mem) /\ st = "Open" /\ Len(mem) = req[2] /\ Len(mem) \in Nat
    BY <1>1, <1>2, HeldFacts DEF InCall, Held, Reading
  <1> DEFINE h == Head(wire)
             p == SubSeq(h, 1, n)
  <1>4. /\ wire' \in Seq(Bytes) /\ h \in Bytes /\ h = wire[1] /\ Len(wire) \in Nat /\ Len(wire) > 0
        /\ Len(wire') = Len(wire) - 1 /\ (\A i \in 1..(Len(wire) - 1) : wire'[i] = wire[i + 1])
    BY <1>2, TailFacts
  <1>5. h \in Seq(Nat) /\ Len(h) \in Nat /\ n <= Len(h) /\ total + n <= Len(mem)
    <2>1. h \in Seq(Nat) /\ n = IF Len(h) < room THEN Len(h) ELSE room
      BY <1>4 DEF Bytes
    <2>2. Len(h) \in Nat
      BY <2>1
    <2> HIDE DEF h
    <2>3. room = Len(mem) - total /\ room \in Nat
      BY <1>2, <1>3 DEF room
    <2>4. n <= Len(h) /\ n <= room
      BY <2>1, <2>2, <2>3
    <2>5. \A t, l, r, k \in Nat : r = l - t /\ k <= r => t + k <= l
      OBVIOUS
    <2>6. total + n <= Len(mem)
      BY <1>2, <1>3, <2>3, <2>4, <2>5
    <2> QED BY <2>1, <2>2, <2>4, <2>6
  <1>6. p \in Seq(Nat) /\ Len(p) = n
    <2> HIDE DEF h
    <2> QED BY <1>5, FirstOf
  <1>7. mem' = stored(p)
    OBVIOUS
  <1>8. /\ Rises(h) => Rises(p)
        /\ \A g : Below(g, h) => Below(g, p)
        /\ \A g : Below(h, g) => Below(p, g)
        /\ \A z : AtMost(h, z) => AtMost(p, z)
    <2> HIDE DEF h
    <2> QED BY <1>5, FirstOfRises
  <1> HIDE DEF p, h
  <1>9. /\ mem' \in Seq(Nat) /\ Len(mem') = Len(mem)
        /\ SubSeq(mem', 1, total + n) = SubSeq(mem, 1, total) \o p
    <2>1. sub \in Nat /\ total + sub + Len(p) <= Len(mem) /\ total + sub = total /\ total + sub + Len(p) = total + n
      BY <1>2, <1>5, <1>6
    <2>2. /\ stored(p) \in Seq(Nat) /\ Len(stored(p)) = Len(mem)
          /\ SubSeq(stored(p), 1, total + sub + Len(p)) = SubSeq(mem, 1, total + sub) \o p
      BY <1>2, <1>6, <2>1, StoredFacts, Zenon
    <2> QED BY <1>7, <2>1, <2>2
  <1>10. Held' = total + n /\ Reading' /\ Single' = Single /\ Filled' = Filled \o p
    BY <1>2, <1>3, <1>9 DEF Held, Reading, Single, Filled
  <1>11. TTypes'
    <2>1. total' \in Nat
      BY <1>2
    <2>2. pc' \in {"idle", "opening", "loop", "recv", "call"} /\ mem' \in Seq(Nat) /\ wire' \in Seq(Bytes)
      BY <1>4, <1>9
    <2> QED BY <1>1, <2>1, <2>2, Zenon DEF TTypes
  <1>12. kind \notin Bulks /\ ~ Single
    BY DEF Single, Streams, Serials, Bulks, Datagrams
  <1>13. InCall' /\ NoHandleLeak'
    <2>1. Held' <= req[2]
      BY <1>3, <1>5, <1>10
    <2> QED BY <1>1, <1>3, <1>9, <1>10, <1>12, <2>1 DEF InCall, NoHandleLeak
  <1>14. ASSUME clean PROVE DatagramsRise'
    <2>1. DatagramsRise
      BY <1>1, <1>14 DEF Flows
    <2>2. /\ Rises(got) /\ Rises(Filled) /\ Below(got, Filled) /\ AtMost(got, sent) /\ AtMost(Filled, sent)
          /\ \A k \in 1..Len(wire) : /\ Rises(wire[k]) /\ AtMost(wire[k], sent)
                                     /\ Below(got, wire[k]) /\ Below(Filled, wire[k])
          /\ \A k, l \in 1..Len(wire) : k < l => Below(wire[k], wire[l])
      BY <1>3, <2>1 DEF DatagramsRise
    <2>3. Filled \in Seq(Nat)
      BY <1>1, HeldFacts
    <2>4. 1 \in 1..Len(wire) /\ Rises(h) /\ AtMost(h, sent) /\ Below(got, h) /\ Below(Filled, h)
      BY <1>4, <2>2
    <2>5. Rises(p) /\ AtMost(p, sent) /\ Below(got, p) /\ Below(Filled, p)
      BY <1>8, <2>4
    <2>6. Rises(Filled') /\ AtMost(Filled', sent)
      BY <1>6, <1>10, <2>2, <2>3, <2>5, RisesJoined, AtMostJoined
    <2>7. Below(got, Filled')
      <3> DEFINE u == Filled \o p
      <3>1. \A i \in DOMAIN u : \/ i \in DOMAIN Filled /\ u[i] = Filled[i]
                                \/ i > Len(Filled) /\ i - Len(Filled) \in DOMAIN p /\ u[i] = p[i - Len(Filled)]
        BY <1>6, <2>3, Joined
      <3> HIDE DEF u
      <3>2. Below(got, u)
        BY <2>2, <2>5, <3>1 DEF Below
      <3> QED BY <1>10, <3>2 DEF u
    <2>8. ASSUME NEW k \in 1..Len(wire')
          PROVE  /\ Rises(wire'[k]) /\ AtMost(wire'[k], sent)
                 /\ Below(got, wire'[k]) /\ Below(Filled', wire'[k])
      <3>1. k + 1 \in 1..Len(wire) /\ wire'[k] = wire[k + 1] /\ 1 < k + 1
        BY <1>4
      <3>2. Below(h, wire[k + 1])
        BY <1>4, <2>2, <2>4, <3>1
      <3>3. Below(p, wire[k + 1]) /\ Below(Filled, wire[k + 1])
        BY <1>8, <2>2, <3>1, <3>2
      <3>4. Below(Filled \o p, wire[k + 1])
        BY <1>6, <2>3, <3>3, BelowJoined
      <3> QED BY <1>10, <2>2, <3>1, <3>4
    <2>9. ASSUME NEW k \in 1..Len(wire'), NEW l \in 1..Len(wire'), k < l
          PROVE  Below(wire'[k], wire'[l])
      <3>1. k + 1 \in 1..Len(wire) /\ l + 1 \in 1..Len(wire) /\ k + 1 < l + 1
        BY <1>4, <2>9
      <3>2. wire'[k] = wire[k + 1] /\ wire'[l] = wire[l + 1]
        BY <1>4
      <3>3. Below(wire[k + 1], wire[l + 1])
        BY <2>2, <3>1
      <3> QED BY <3>2, <3>3
    <2> QED BY <1>3, <2>2, <2>6, <2>7, <2>8, <2>9 DEF DatagramsRise
  <1>15. (clean => Flows)'
    BY <1>10, <1>12, <1>14 DEF Flows
  <1> QED BY <1>11, <1>13, <1>15 DEF TIInv

LEMMA DatagramKeeps ==
  ASSUME TIInv, pc = "recv", kind \in Datagrams, datagramRead,
         UNCHANGED <<kind, st, handle, bflag, sent>>
  PROVE  TIInv'
  <1>1. TTypes /\ InCall
    BY DEF TIInv
  <1>2. Reading /\ st = "Open" /\ ~ bflag /\ kind \notin Bulks /\ kind \notin Serials /\ sub = 0
    BY <1>1 DEF Reading, InCall, Datagrams, Bulks, Serials
  <1>3. wire \in Seq(Bytes) /\ total \in Nat /\ req[2] \in Nat /\ total + sub <= req[2]
    BY <1>1, <1>2 DEF TTypes, InCall, Held
  <1>4. ASSUME NEW r, Fail(r), wire' = wire PROVE TIInv'
    BY <1>2, <1>3, <1>4, FailKeeps DEF Fail, Return, readvars
  <1>5. ASSUME TimedOut, wire' = wire PROVE TIInv'
    <2>1. Held' = Held /\ pc' = "loop" /\ UNCHANGED <<req, mem, total, sub, got, clean>>
      BY <1>2, <1>3, <1>5 DEF Held, TimedOut, readvars
    <2> QED BY <1>2, <1>3, <1>5, <2>1, WaitKeeps
  <1>6. ASSUME wire # <<>>,
               LET n == IF Len(Head(wire)) < room THEN Len(Head(wire)) ELSE room
               IN  /\ mem' = stored(SubSeq(Head(wire), 1, n))
                   /\ total' = total + n /\ pc' = "loop",
               wire' = Tail(wire), UNCHANGED <<req, sub, got, clean, result>>
        PROVE  TIInv'
    <2> DEFINE n == IF Len(Head(wire)) < room THEN Len(Head(wire)) ELSE room
    <2>1. Head(wire) \in Seq(Nat)
      BY <1>3, <1>6, TailFacts DEF Bytes
    <2>2. room \in Nat
      BY <1>2, <1>3 DEF room
    <2>3. Len(Head(wire)) \in Nat
      BY <2>1
    <2>4. n \in Nat
      BY <2>2, <2>3
    <2>5. mem' = stored(SubSeq(Head(wire), 1, n)) /\ total' = total + n /\ pc' = "loop"
      BY <1>6
    <2>6. n = IF Len(Head(wire)) < room THEN Len(Head(wire)) ELSE room
      OBVIOUS
    <2> HIDE DEF n
    <2> QED BY <1>6, <2>4, <2>5, <2>6, DatagramTaken
  <1> QED BY <1>4, <1>5, <1>6 DEF datagramRead

\* A bulk transfer returns n bytes of the first packet, and leaves the chain v.
LEMMA BulkTaken ==
  ASSUME TIInv, pc = "recv", pc' = "idle", kind \in Bulks, wire # <<>>,
         NEW p \in Seq(Nat), Len(p) <= room,
         \A a \in Nat : Chain(wire, a, sent) => /\ Chain(wire', a + Len(p), sent)
                                                /\ \A j \in 1..Len(p) : p[j] = a + j,
         wire' \in Seq(Bytes), mem' = stored(p), got' = got \o p,
         UNCHANGED <<kind, st, handle, bflag, req, total, sub, sent, clean>>
  PROVE  TIInv'
  <1>1. TTypes /\ InCall /\ NoHandleLeak /\ (clean => Flows)
    BY DEF TIInv
  <1>2. /\ mem \in Seq(Nat) /\ got \in Seq(Nat) /\ total = 0 /\ sub = 0 /\ req[2] \in Nat
        /\ st = "Open" /\ Len(mem) = req[2] /\ Len(p) \in Nat /\ Len(got) \in Nat
    BY <1>1 DEF TTypes, InCall, Reading
  <1>3. mem' \in Seq(Nat)
    <2>1. total \in Nat /\ sub \in Nat /\ total + sub + Len(p) <= Len(mem)
      BY <1>2 DEF room
    <2>2. stored(p) \in Seq(Nat)
      BY <1>2, <2>1, StoredFacts, Zenon
    <2> QED BY <2>2
  <1>4. /\ got' \in Seq(Nat) /\ Len(got') = Len(got) + Len(p)
        /\ \A i \in DOMAIN got' : \/ i \in DOMAIN got /\ got'[i] = got[i]
                                  \/ /\ i > Len(got) /\ i - Len(got) \in DOMAIN p
                                     /\ got'[i] = p[i - Len(got)]
    <2> DEFINE u == got \o p
    <2>1. /\ u \in Seq(Nat) /\ Len(u) = Len(got) + Len(p)
          /\ \A i \in DOMAIN u : \/ i \in DOMAIN got /\ u[i] = got[i]
                                 \/ i > Len(got) /\ i - Len(got) \in DOMAIN p /\ u[i] = p[i - Len(got)]
      BY <1>2, Joined
    <2>2. got' = u
      OBVIOUS
    <2> HIDE DEF u
    <2> QED BY <2>1, <2>2
  <1>5. TTypes'
    BY <1>1, <1>3, <1>4 DEF TTypes
  <1>6. ~ Reading'
    BY DEF Reading
  <1>7. InCall' /\ NoHandleLeak'
    BY <1>1, <1>2, <1>6 DEF InCall, NoHandleLeak
  <1>8. ASSUME clean PROVE BulkFlows'
    <2>1. BulkFlows
      BY <1>1, <1>8 DEF Flows
    <2>2. Chain(wire, Len(got), sent)
      BY <1>2, <2>1 DEF BulkFlows
    <2>3. Chain(wire', Len(got'), sent) /\ (\A j \in 1..Len(p) : p[j] = Len(got) + j)
      BY <1>2, <1>4, <2>2
    <2>4. ASSUME NEW i \in DOMAIN got' PROVE got'[i] = i
      <3>1. CASE i \in DOMAIN got /\ got'[i] = got[i]
        BY <2>1, <3>1 DEF BulkFlows
      <3>2. CASE i - Len(got) \in DOMAIN p /\ got'[i] = p[i - Len(got)]
        <4>1. i - Len(got) \in 1..Len(p) /\ i \in Nat
          BY <1>2, <1>4, <3>2
        <4>2. got'[i] = Len(got) + (i - Len(got))
          BY <2>3, <3>2, <4>1
        <4> QED BY <1>2, <4>1, <4>2
      <3> QED BY <1>4, <3>1, <3>2
    <2> QED BY <2>3, <2>4 DEF BulkFlows
  <1>9. kind' \notin Datagrams /\ ~ Single'
    BY DEF Single, Streams, Serials, Bulks, Datagrams
  <1> QED BY <1>5, <1>7, <1>8, <1>9 DEF TIInv, Flows

\* The backends of a bulk pipe.
LEMMA BulkKeeps ==
  ASSUME TIInv, pc = "recv", LibUsbRead \/ WinUsbRead,
         UNCHANGED <<kind, st, handle, bflag, sent>>
  PROVE  TIInv'
  <1>1. TTypes /\ InCall
    BY DEF TIInv
  <1>2. Reading /\ st = "Open" /\ kind \in Bulks /\ total = 0 /\ sub = 0
    BY <1>1 DEF Reading, InCall, Bulks, LibUsbRead, WinUsbRead
  <1>3. wire \in Seq(Bytes) /\ req[2] \in Nat /\ room \in Nat /\ sent \in Nat
    BY <1>1, <1>2 DEF TTypes, room
  <1>4. wire # <<>> => Tail(wire) \in Seq(Bytes) /\ Head(wire) \in Bytes /\ Head(wire) \in Seq(Nat)
    BY <1>3, TailFacts DEF Bytes
  <1>5. ASSUME NEW r, Fail(r), wire' \in Seq(Bytes) PROVE TIInv'
    BY <1>2, <1>5, FailKeeps DEF Fail, Return, readvars
  <1>6. ASSUME wire # <<>>, Len(Head(wire)) <= room, Return("Ok"), mem' = stored(Head(wire)),
               got' = got \o Head(wire), wire' = Tail(wire), UNCHANGED <<req, total, sub, clean>>
        PROVE  TIInv'
    <2> DEFINE p == Head(wire)
    <2>1. ASSUME NEW a \in Nat, Chain(wire, a, sent)
          PROVE  Chain(wire', a + Len(p), sent) /\ (\A j \in 1..Len(p) : p[j] = a + j)
      BY <1>3, <1>6, <2>1, ChainTaken DEF Size
    <2>2. p \in Seq(Nat) /\ Len(p) <= room /\ mem' = stored(p) /\ got' = got \o p /\ wire' \in Seq(Bytes) /\ pc' = "idle"
      BY <1>4, <1>6 DEF Return
    <2> HIDE DEF p
    <2> QED BY <1>2, <1>6, <2>1, <2>2, BulkTaken
  <1>7. ASSUME wire # <<>>, Len(Head(wire)) > room, Return("Ok"), mem' = stored(SubSeq(Head(wire), 1, room)),
               got' = got \o SubSeq(Head(wire), 1, room),
               wire' = <<SubSeq(Head(wire), room + 1, Len(Head(wire)))>> \o Tail(wire),
               UNCHANGED <<req, total, sub, clean>>
        PROVE  TIInv'
    <2> DEFINE h == Head(wire)
               p == SubSeq(h, 1, room)
               r == SubSeq(h, room + 1, Len(h))
    <2>1. h \in Seq(Nat) /\ h \in Bytes /\ room < Len(h) /\ room <= Len(h) /\ Len(h) \in Nat
      BY <1>3, <1>4, <1>7
    <2>2. mem' = stored(p) /\ got' = got \o p /\ wire' = <<r>> \o Tail(wire) /\ pc' = "idle"
      BY <1>7 DEF Return
    <2>3. ASSUME NEW a \in Nat, Chain(wire, a, sent)
          PROVE  Chain(wire', a + room, sent) /\ (\A j \in 1..Len(h) : h[j] = a + j)
      BY <1>3, <1>7, <2>1, <2>3, ChainTaken, ChainCut DEF Size
    <2> HIDE DEF h
    <2>4. p \in Seq(Nat) /\ Len(p) = room /\ (\A j \in 1..room : p[j] = h[j])
      BY <1>3, <2>1, FirstOf
    <2>5. r \in Seq(Nat) /\ Len(r) = Len(h) - room
      BY <1>3, <2>1
    <2> HIDE DEF p, r
    <2>6. r \in Bytes
      <3>1. Len(r) # 0
        BY <1>3, <2>1, <2>5
      <3> QED BY <2>5, <3>1, SomeByte DEF Bytes
    <2>7. wire' \in Seq(Bytes)
      BY <1>3, <1>7, <2>2, <2>6, FirstReplaced
    <2>8. ASSUME NEW a \in Nat, Chain(wire, a, sent)
          PROVE  Chain(wire', a + Len(p), sent) /\ (\A j \in 1..Len(p) : p[j] = a + j)
      <3>1. Chain(wire', a + room, sent) /\ (\A j \in 1..Len(h) : h[j] = a + j)
        BY <2>3, <2>8
      <3>2. Len(p) = room /\ (\A j \in 1..room : p[j] = h[j] /\ j \in 1..Len(h))
        BY <1>3, <2>1, <2>4
      <3> QED BY <3>1, <3>2
    <2>9. Len(p) <= room
      BY <1>3, <2>4
    <2> QED BY <1>2, <1>7, <2>2, <2>4, <2>7, <2>8, <2>9, BulkTaken
  <1>8. ASSUME NEW failures, bulkRead(failures) PROVE TIInv'
    BY <1>3, <1>5, <1>6, <1>8 DEF bulkRead
  <1>9. CASE LibUsbRead
    <2>1. CASE Crowded /\ Fail("BufferFull") /\ wire' = Tail(wire)
      BY <1>4, <1>5, <2>1 DEF Crowded
    <2> QED BY <1>8, <1>9, <2>1 DEF LibUsbRead
  <1>10. CASE WinUsbRead
    BY <1>7, <1>8, <1>10 DEF WinUsbRead, Crowded
  <1> QED BY <1>9, <1>10

\* What holds of the bytes and the descriptor in every step of the system.
LEMMA TransportSteps ==
  ASSUME "Win32Serial" \notin Backends, TIInv, [Next]_vars
  PROVE  TIInv'
  <1>1. CASE Client
    BY <1>1, CallsKeep, OpenKeeps, ReadCallKeeps DEF Client
  <1>2. CASE openStep
    BY <1>2, OpenKeeps
  <1>3. CASE readLoop
    BY <1>3, ReadLoopKeeps
  <1>4. CASE receive
    <2>1. UNCHANGED <<kind, st, bflag, sent>>
      BY <1>4 DEF receive
    <2>2. kind \in Serials => kind = "PosixSerial"
      BY KindsApart DEF TIInv, TTypes
    <2>3. pc = "call" => kind \in Serials
      BY DEF TIInv, InCall
    <2>4. CASE pc = "recv" /\ (PosixTcpRead \/ WinSockTcpRead)
      BY <2>1, <2>4, StreamKeeps DEF PosixTcpRead, WinSockTcpRead, Streams
    <2>5. CASE pc = "recv" /\ kind \in Serials /\ serialCheck /\ UNCHANGED <<handle, wire>>
      <3>1. kind = "PosixSerial" /\ pc = "recv" /\ serialCheck /\ wire' = wire /\ UNCHANGED <<kind, st, handle, bflag, sent>>
        BY <2>1, <2>2, <2>5
      <3> QED BY <3>1, SerialKeeps, Zenon
    <2>6. CASE pc = "call" /\ serialRead /\ UNCHANGED handle
      <3>1. kind = "PosixSerial" /\ pc = "call" /\ serialRead /\ UNCHANGED <<kind, st, handle, bflag, sent>>
        BY <2>1, <2>2, <2>3, <2>6
      <3> QED BY <3>1, SerialKeeps
    <2>7. CASE pc = "recv" /\ (PosixUdpRead \/ WinSockUdpRead) /\ UNCHANGED handle
      BY <2>1, <2>7, DatagramKeeps DEF PosixUdpRead, WinSockUdpRead, Datagrams
    <2>8. CASE pc = "recv" /\ (LibUsbRead \/ WinUsbRead) /\ UNCHANGED handle
      BY <2>1, <2>8, BulkKeeps
    <2> QED BY <1>4, <2>4, <2>5, <2>6, <2>7, <2>8 DEF receive
  <1>5. CASE cancelFlag \/ deviceCloses \/ timePasses
    BY <1>5, OthersKeep
  <1>6. CASE cancelBackend
    BY <1>6, BackendCancelKeeps
  <1>7. CASE deviceSends
    BY <1>7, SendingKeeps
  <1>8. CASE UNCHANGED vars
    <2>1. UNCHANGED <<kind, st, handle, bflag, pc, req, mem, total, sub, wire, sent, got, clean>>
      BY <1>8 DEF vars
    <2>2. TTypes' /\ InCall' /\ NoHandleLeak'
      BY <2>1 DEF TIInv, TTypes, InCall, NoHandleLeak, Reading, Held
    <2>3. (clean => Flows)'
      BY <2>1, FlowsSame DEF TIInv
    <2> QED BY <2>2, <2>3 DEF TIInv
  <1> QED BY <1>1, <1>2, <1>3, <1>4, <1>5, <1>6, <1>7, <1>8 DEF Next, Work

LEMMA SoundWhenFlowing ==
  ASSUME "Win32Serial" \notin Backends, TIInv
  PROVE  TransportIsSound
  <1>1. kind \in Datagrams \/ Single \/ kind \in Bulks
    BY KindsApart DEF TIInv, TTypes
  <1>2. ASSUME clean PROVE Flows
    BY <1>2 DEF TIInv
  <1>3. DeliveredIntact
    BY <1>1, <1>2 DEF DeliveredIntact, Flows, StreamFlows, BulkFlows, DatagramsRise, Rises
  <1> QED BY <1>3 DEF TransportIsSound, TIInv

\* Every backend but Win32Serial delivers what the device sent, and a transport
\* that is not open holds no descriptor, whatever reads, opens, cancel() and
\* the deadline interleave and however much is sent.
THEOREM TheTransportIsSound ==
  ASSUME "Win32Serial" \notin Backends
  PROVE  Spec => []TransportIsSound
  <1>1. Init => TIInv
    BY TransportStarts
  <1>2. TIInv /\ [Next]_vars => TIInv'
    BY TransportSteps
  <1>3. TIInv => TransportIsSound
    BY SoundWhenFlowing
  <1> QED BY <1>1, <1>2, <1>3, PTL DEF Spec

------------------------------------------------------------------------------
(***************************************************************************)
(* The command line, for any commands, scripts and lines.                  *)
(*                                                                         *)
(* That no call follows a cancel needs to know why: while a cancel is in   *)
(* force the Runtime's flag is set (Fine), and each command, whatever its  *)
(* calls, keeps it so (Good).                                              *)
(***************************************************************************)

\* The calls of the Runtime.
CallNames ==
    {"discover", "connect", "reconnect", "load", "flash", "read", "write", "erase", "verify", "backup", "restore", "job",
     "workflow"} \cup Direct

\* A state of the Runtime, and one of the application.
IsRt(rt) ==
    /\ rt = [init |-> rt.init, connected |-> rt.connected, cancelled |-> rt.cancelled]
    /\ rt.cancelled \in BOOLEAN

IsCli(c) ==
    /\ c = [at |-> c.at, cmd |-> c.cmd, quiet |-> c.quiet, format |-> c.format, status |-> c.status]
    /\ c.at \in {"start", "begun", "shell", "script", "done", "ended", "terminated"}

\* A cancel that nothing has taken back.
Frees == {"reset", "shutdown"}
Barred(ds) == \E i \in 1..Len(ds) : ds[i] = "cancel" /\ \A k \in i..Len(ds) : ds[k] \notin Frees

\* CancelHoldsInShell of any calls.
Kept(ds) ==
    \A i, j \in 1..Len(ds) :
        (i < j /\ ds[i] = "cancel" /\ ds[j] \notin Direct) => \E k \in i..j : ds[k] \in Frees

\* Calls after which the Runtime is in state rt.
Fine(ds, rt) == ds \in Seq(CallNames) /\ Kept(ds) /\ (Barred(ds) => rt.cancelled)

\* What a command may come to in state rt.
Good(rt, o) ==
    /\ o = [err |-> o.err, rt |-> o.rt, calls |-> o.calls]
    /\ IsRt(o.rt) /\ o.calls \in Seq(CallNames)
    /\ \A ds : Fine(ds, rt) => Fine(ds \o o.calls, o.rt)

CInv ==
    /\ IsCli(cli) /\ IsRt(crt) /\ did \in Seq(CallNames) /\ Kept(did)
    /\ cli.at # "ended" => (Barred(did) => crt.cancelled)
    /\ EndsShutDown

------------------------------------------------------------------------------
\* One more call.
LEMMA OneMore ==
  ASSUME NEW ds \in Seq(CallNames), NEW c \in CallNames
  PROVE  LET e == ds \o <<c>>
         IN  /\ e \in Seq(CallNames) /\ Len(e) = Len(ds) + 1 /\ Len(ds) \in Nat /\ e[Len(ds) + 1] = c
             /\ \A i \in 1..Len(ds) : e[i] = ds[i]
  <1> DEFINE S == CallNames
  <1>1. ds \in Seq(S) /\ c \in S
    OBVIOUS
  <1> HIDE DEF S
  <1>2. LET e == ds \o <<c>>
        IN  /\ e \in Seq(S) /\ Len(e) = Len(ds) + 1 /\ Len(ds) \in Nat /\ e[Len(ds) + 1] = c
            /\ \A i \in 1..Len(ds) : e[i] = ds[i]
    BY <1>1
  <1> QED BY <1>2 DEF S

LEMMA KeptOn ==
  ASSUME NEW ds \in Seq(CallNames), NEW c \in CallNames, Kept(ds), c \in Direct \/ ~ Barred(ds)
  PROVE  Kept(ds \o <<c>>)
  <1> DEFINE e == ds \o <<c>>
             n == Len(ds)
  <1>1. Len(e) = n + 1 /\ n \in Nat /\ e[n + 1] = c /\ (\A i \in 1..n : e[i] = ds[i])
    BY OneMore
  <1> HIDE DEF e
  <1>2. SUFFICES ASSUME NEW i \in 1..Len(e), NEW j \in 1..Len(e), i < j, e[i] = "cancel", e[j] \notin Direct
                 PROVE  \E k \in i..j : e[k] \in Frees
    BY DEF Kept, e
  <1>3. i \in 1..n /\ ds[i] = "cancel"
    BY <1>1, <1>2
  <1>4. CASE j \in 1..n
    <2>1. PICK k \in i..j : ds[k] \in Frees
      BY <1>1, <1>2, <1>3, <1>4 DEF Kept
    <2>2. k \in 1..n
      BY <1>1, <1>3, <1>4, <2>1
    <2> QED BY <1>1, <2>1, <2>2
  <1>5. CASE j = n + 1
    <2>1. ~ Barred(ds)
      BY <1>1, <1>2, <1>5
    <2>2. PICK k \in i..n : ds[k] \in Frees
      BY <1>3, <2>1 DEF Barred
    <2>3. k \in 1..n /\ k \in i..j
      BY <1>1, <1>3, <1>5, <2>2
    <2> QED BY <1>1, <2>2, <2>3
  <1> QED BY <1>1, <1>4, <1>5

LEMMA BarredOn ==
  ASSUME NEW ds \in Seq(CallNames), NEW c \in CallNames, Barred(ds \o <<c>>)
  PROVE  c \notin Frees /\ (c = "cancel" \/ Barred(ds))
  <1> DEFINE e == ds \o <<c>>
             n == Len(ds)
  <1>1. Len(e) = n + 1 /\ n \in Nat /\ e[n + 1] = c /\ (\A i \in 1..n : e[i] = ds[i])
    BY OneMore
  <1>2. Barred(e)
    OBVIOUS
  <1> HIDE DEF e
  <1>3. PICK i \in 1..(n + 1) : e[i] = "cancel" /\ \A k \in i..(n + 1) : e[k] \notin Frees
    BY <1>1, <1>2 DEF Barred
  <1>4. c \notin Frees
    BY <1>1, <1>3
  <1>5. CASE i = n + 1
    BY <1>1, <1>3, <1>4, <1>5
  <1>6. CASE i \in 1..n
    <2>1. ds[i] = "cancel"
      BY <1>1, <1>3, <1>6
    <2>2. \A k \in i..n : ds[k] \notin Frees
      BY <1>1, <1>3, <1>6
    <2> QED BY <1>4, <1>6, <2>1, <2>2 DEF Barred
  <1> QED BY <1>1, <1>3, <1>5, <1>6

\* No call at all.
LEMMA NoCall ==
  ASSUME NEW rt, IsRt(rt), NEW err
  PROVE  Good(rt, Outcome(err, rt, <<>>))
  <1>1. ASSUME NEW ds, Fine(ds, rt) PROVE Fine(ds \o <<>>, rt)
    <2>1. ds \in Seq(CallNames)
      BY <1>1 DEF Fine
    <2>2. ds \o <<>> = ds
      BY <2>1
    <2> QED BY <1>1, <2>2
  <1>2. <<>> \in Seq(CallNames)
    OBVIOUS
  <1> QED BY <1>1, <1>2 DEF Good, Outcome

\* A call that has no result.
LEMMA DirectCall ==
  ASSUME NEW rt, IsRt(rt), NEW c \in Direct
  PROVE  Good(rt, Outcome("Success", DirectEffect(c, rt), <<c>>))
  <1> DEFINE new == DirectEffect(c, rt)
  <1>1. c \in CallNames /\ <<c>> \in Seq(CallNames)
    BY DEF CallNames
  <1>2. IsRt(new) /\ (c = "cancel" => new.cancelled) /\ (c \notin Frees => (rt.cancelled => new.cancelled))
    BY DEF DirectEffect, IsRt, Direct, Frees
  <1> HIDE DEF new
  <1>3. ASSUME NEW ds, Fine(ds, rt) PROVE Fine(ds \o <<c>>, new)
    <2>1. ds \in Seq(CallNames) /\ Kept(ds) /\ (Barred(ds) => rt.cancelled)
      BY <1>3 DEF Fine
    <2>2. Kept(ds \o <<c>>) /\ ds \o <<c>> \in Seq(CallNames)
      BY <1>1, <2>1, KeptOn, OneMore
    <2>3. Barred(ds \o <<c>>) => new.cancelled
      BY <1>1, <1>2, <2>1, BarredOn
    <2> QED BY <2>2, <2>3 DEF Fine
  <1>4. Good(rt, Outcome("Success", new, <<c>>))
    BY <1>1, <1>2, <1>3 DEF Good, Outcome
  <1> QED BY <1>4 DEF new

\* A call behind an OperationContext: none while cancelled.
LEMMA InvokedCall ==
  ASSUME NEW rt, IsRt(rt), NEW c \in CallNames \ Direct, NEW arg, NEW o \in Invoked(c, arg, rt)
  PROVE  Good(rt, o)
  <1>1. ASSUME NEW err, NEW new, IsRt(new), new.cancelled = rt.cancelled, ~ rt.cancelled
        PROVE  Good(rt, Outcome(err, new, <<c>>))
    <2>1. ASSUME NEW ds, Fine(ds, rt) PROVE Fine(ds \o <<c>>, new)
      <3>1. ds \in Seq(CallNames) /\ Kept(ds) /\ ~ Barred(ds)
        BY <1>1, <2>1 DEF Fine
      <3>2. Kept(ds \o <<c>>) /\ ds \o <<c>> \in Seq(CallNames)
        BY <3>1, KeptOn, OneMore
      <3>3. c # "cancel"
        BY DEF Direct
      <3>4. ~ Barred(ds \o <<c>>)
        BY <3>1, <3>3, BarredOn
      <3> QED BY <3>2, <3>4 DEF Fine
    <2>2. <<c>> \in Seq(CallNames)
      OBVIOUS
    <2> QED BY <1>1, <2>1, <2>2 DEF Good, Outcome
  <1>2. IsRt(Succeeds(c, arg, rt)) /\ Succeeds(c, arg, rt).cancelled = rt.cancelled
    BY DEF Succeeds, IsRt
  <1>3. CASE \E err : o = Outcome(err, rt, <<>>)
    BY <1>3, NoCall
  <1>4. CASE ~ rt.cancelled /\ o = Outcome("Success", Succeeds(c, arg, rt), <<c>>)
    BY <1>1, <1>2, <1>4
  <1>5. CASE ~ rt.cancelled /\ \E err \in CliFailures : o = Outcome(err, rt, <<c>>)
    BY <1>1, <1>5
  <1>6. o \in {Outcome("Cancelled", rt, <<>>), Outcome("SessionAlreadyConnected", rt, <<>>), Outcome("SessionNotConnected", rt, <<>>)}
        \/ (~ rt.cancelled /\ o \in {Outcome("Success", Succeeds(c, arg, rt), <<c>>)} \cup {Outcome(e, rt, <<c>>) : e \in CliFailures})
    BY DEF Invoked, letsThrough
  <1> QED BY <1>3, <1>4, <1>5, <1>6

AllGood(rt, S) == \A o \in S : Good(rt, o)

LEMMA CallIsGood ==
  ASSUME NEW rt, IsRt(rt), NEW c \in CallNames, NEW arg
  PROVE  AllGood(rt, RuntimeCall(c, arg, rt))
  <1>1. CASE c \in Direct
    BY <1>1, DirectCall DEF RuntimeCall, AllGood
  <1>2. CASE c \notin Direct
    BY <1>2, InvokedCall DEF RuntimeCall, AllGood
  <1> QED BY <1>1, <1>2

\* Another result of the same calls, and one call after another.
LEMMA ErrorIsGood ==
  ASSUME NEW rt, NEW o, Good(rt, o), NEW err
  PROVE  Good(rt, [o EXCEPT !.err = err])
  BY DEF Good

LEMMA CallsBefore ==
  ASSUME NEW p, NEW e, NEW r, NEW k, NEW y, p = [err |-> e, rt |-> r, calls |-> k]
  PROVE  [p EXCEPT !.calls = y] = [err |-> e, rt |-> r, calls |-> y]
  OBVIOUS

LEMMA ThenIsGood ==
  ASSUME NEW rt, NEW S, AllGood(rt, S), NEW c \in CallNames, NEW arg
  PROVE  AllGood(rt, Then(S, c, arg))
  <1>1. ASSUME NEW o, Good(rt, o), NEW p, Good(o.rt, p)
        PROVE  Good(rt, [p EXCEPT !.calls = o.calls \o @])
    <2> DEFINE q == [p EXCEPT !.calls = o.calls \o @]
    <2>1. q = [err |-> p.err, rt |-> p.rt, calls |-> o.calls \o p.calls]
      <3>1. p = [err |-> p.err, rt |-> p.rt, calls |-> p.calls]
        BY <1>1 DEF Good
      <3> DEFINE y == o.calls \o p.calls
      <3> HIDE DEF y
      <3>2. [p EXCEPT !.calls = y] = [err |-> p.err, rt |-> p.rt, calls |-> y]
        BY <3>1, CallsBefore
      <3> QED BY <3>2 DEF y
    <2>2. o.calls \in Seq(CallNames) /\ p.calls \in Seq(CallNames) /\ IsRt(p.rt)
      BY <1>1 DEF Good
    <2>3. o.calls \o p.calls \in Seq(CallNames)
      BY <2>2
    <2>4. ASSUME NEW ds, Fine(ds, rt) PROVE Fine(ds \o (o.calls \o p.calls), p.rt)
      <3>1. Fine((ds \o o.calls) \o p.calls, p.rt)
        <4>1. Fine(ds \o o.calls, o.rt)
          BY <1>1, <2>4, Zenon DEF Good
        <4> QED BY <1>1, <4>1, Zenon DEF Good
      <3>2. ds \in Seq(CallNames)
        BY <2>4 DEF Fine
      <3>3. (ds \o o.calls) \o p.calls = ds \o (o.calls \o p.calls)
        <4> DEFINE a == o.calls
                   b == p.calls
        <4>1. a \in Seq(CallNames) /\ b \in Seq(CallNames)
          BY <2>2
        <4> HIDE DEF a, b
        <4>2. (ds \o a) \o b = ds \o (a \o b)
          BY <3>2, <4>1, ConcatAssociative
        <4> QED BY <4>2 DEF a, b
      <3> QED BY <3>1, <3>3
    <2> HIDE DEF q
    <2>5. Good(rt, q)
      BY <2>1, <2>2, <2>3, <2>4 DEF Good
    <2> QED BY <2>5 DEF q
  <1>2. ASSUME NEW o \in S, NEW r \in (IF o.err = "Success" THEN {[p EXCEPT !.calls = o.calls \o @] : p \in RuntimeCall(c, arg, o.rt)} ELSE {o})
        PROVE  Good(rt, r)
    <2>1. Good(rt, o) /\ IsRt(o.rt)
      BY DEF AllGood, Good
    <2>2. AllGood(o.rt, RuntimeCall(c, arg, o.rt))
      BY <2>1, CallIsGood
    <2>3. CASE o.err # "Success"
      BY <1>2, <2>1, <2>3
    <2>4. CASE o.err = "Success"
      <3>1. PICK p \in RuntimeCall(c, arg, o.rt) : r = [p EXCEPT !.calls = o.calls \o @]
        BY <1>2, <2>4
      <3>2. Good(o.rt, p)
        BY <2>2 DEF AllGood
      <3>3. Good(rt, [p EXCEPT !.calls = o.calls \o @])
        BY <1>1, <2>1, <3>2, Zenon
      <3> QED BY <3>1, <3>3
    <2> QED BY <2>3, <2>4
  <1> QED BY <1>2 DEF Then, AllGood

LEMMA RefusedIsGood ==
  ASSUME NEW rt, IsRt(rt), NEW err
  PROVE  AllGood(rt, Refused(err, rt))
  BY NoCall DEF Refused, AllGood

LEMMA ConnectIsGood ==
  ASSUME NEW rt, IsRt(rt), NEW args
  PROVE  AllGood(rt, connectCommand(args, rt))
  <1>1. AllGood(rt, RuntimeCall("discover", "", rt))
    BY CallIsGood DEF CallNames
  <1>2. ASSUME NEW o \in RuntimeCall("discover", "", rt)
        PROVE  /\ AllGood(rt, {o}) /\ AllGood(rt, {[o EXCEPT !.err = "DeviceNotFound"]})
               /\ AllGood(rt, Then({o}, "connect", args[1].v))
    <2>1. AllGood(rt, {o})
      BY <1>1 DEF AllGood
    <2>2. Good(rt, [o EXCEPT !.err = "DeviceNotFound"])
      BY <2>1, ErrorIsGood DEF AllGood
    <2>3. AllGood(rt, Then({o}, "connect", args[1].v))
      BY <2>1, ThenIsGood DEF CallNames
    <2> QED BY <2>1, <2>2, <2>3 DEF AllGood
  <1>3. AllGood(rt, Refused("InvalidArgument", rt))
    BY RefusedIsGood
  <1>4. ASSUME NEW S, S = UNION {IF o.err # "Success" THEN {o}
                   ELSE {[o EXCEPT !.err = "DeviceNotFound"]} \cup Then({o}, "connect", args[1].v) : o \in RuntimeCall("discover", "", rt)}
        PROVE  AllGood(rt, S)
    <2>1. SUFFICES ASSUME NEW q \in S PROVE Good(rt, q)
      BY DEF AllGood
    <2>2. PICK o \in RuntimeCall("discover", "", rt) :
             q \in (IF o.err # "Success" THEN {o} ELSE {[o EXCEPT !.err = "DeviceNotFound"]} \cup Then({o}, "connect", args[1].v))
      BY <1>4, <2>1
    <2>3. \/ q \in {o} \/ q \in {[o EXCEPT !.err = "DeviceNotFound"]} \/ q \in Then({o}, "connect", args[1].v)
      BY <2>2
    <2> QED BY <1>2, <2>3 DEF AllGood
  <1> QED BY <1>3, <1>4 DEF connectCommand

LEMMA BackupIsGood ==
  ASSUME NEW rt, IsRt(rt), NEW args
  PROVE  AllGood(rt, backupCommand(args, rt))
  <1>1. AllGood(rt, RuntimeCall("backup", "", rt))
    BY CallIsGood DEF CallNames
  <1>2. ASSUME NEW o \in RuntimeCall("backup", "", rt)
        PROVE  Good(rt, o) /\ Good(rt, [o EXCEPT !.err = "Unknown"])
    <2>1. Good(rt, o)
      BY <1>1 DEF AllGood
    <2> QED BY <2>1, ErrorIsGood
  <1>3. AllGood(rt, Refused("InvalidArgument", rt))
    BY RefusedIsGood
  <1>4. ASSUME NEW S, S = UNION {IF o.err # "Success" \/ Len(args) = 1 THEN {o} ELSE {o, [o EXCEPT !.err = "Unknown"]} :
                                 o \in RuntimeCall("backup", "", rt)}
        PROVE  AllGood(rt, S)
    <2>1. SUFFICES ASSUME NEW q \in S PROVE Good(rt, q)
      BY DEF AllGood
    <2>2. PICK o \in RuntimeCall("backup", "", rt) :
             q \in (IF o.err # "Success" \/ Len(args) = 1 THEN {o} ELSE {o, [o EXCEPT !.err = "Unknown"]})
      BY <1>4, <2>1
    <2>3. q = o \/ q = [o EXCEPT !.err = "Unknown"]
      BY <2>2
    <2> QED BY <1>2, <2>3
  <1> QED BY <1>3, <1>4 DEF backupCommand

\* Whatever the command, a cancelled Runtime lets no call through.
LEMMA CommandIsGood ==
  ASSUME NEW rt, IsRt(rt), NEW p
  PROVE  AllGood(rt, executeCommand(p, rt))
  <1>1. \A err : AllGood(rt, Refused(err, rt))
    BY RefusedIsGood
  <1>2. \A c \in CallNames : AllGood(rt, RuntimeCall(c, "", rt))
    BY CallIsGood
  <1>3. ASSUME NEW args, NEW options PROVE AllGood(rt, flashCommand(args, options, rt))
    <2>1. AllGood(rt, Then(RuntimeCall("load", "", rt), "flash", ""))
      BY <1>2, ThenIsGood DEF CallNames
    <2> QED BY <1>1, <2>1 DEF flashCommand
  <1>4. ASSUME NEW args, NEW type \in {"read", "write", "erase", "verify"} PROVE AllGood(rt, memoryCommand(type, args, rt))
    <2>1. AllGood(rt, RuntimeCall(type, "", rt))
      BY <1>2 DEF CallNames
    <2>2. memoryCommand(type, args, rt) \in {Refused("InvalidArgument", rt), Refused("throws", rt), RuntimeCall(type, "", rt)}
      BY DEF memoryCommand
    <2> QED BY <1>1, <2>1, <2>2
  <1>5. ASSUME NEW args, NEW type \in {"restore", "job"} PROVE AllGood(rt, fileCommand(type, args, rt))
    <2>1. AllGood(rt, RuntimeCall(type, "", rt))
      BY <1>2 DEF CallNames
    <2>2. fileCommand(type, args, rt) \in {Refused("InvalidArgument", rt), Refused("Unknown", rt), RuntimeCall(type, "", rt)}
      BY DEF fileCommand
    <2> QED BY <1>1, <2>1, <2>2
  <1>6. ASSUME NEW args PROVE AllGood(rt, packageCommand(args, rt)) /\ AllGood(rt, workflowCommand(args, rt))
                              /\ AllGood(rt, completionCommand(args, rt))
    <2>1. AllGood(rt, RuntimeCall("load", "", rt)) /\ AllGood(rt, RuntimeCall("workflow", "", rt))
      BY <1>2 DEF CallNames
    <2>2. AllGood(rt, packageCommand(args, rt))
      BY <1>1, <2>1 DEF packageCommand
    <2>3. AllGood(rt, workflowCommand(args, rt))
      BY <1>1, <2>1 DEF workflowCommand
    <2>4. AllGood(rt, completionCommand(args, rt))
      BY <1>1 DEF completionCommand
    <2> QED BY <2>2, <2>3, <2>4
  <1>7. AllGood(rt, connectCommand(p.args, rt)) /\ AllGood(rt, backupCommand(p.args, rt))
    BY ConnectIsGood, BackupIsGood
  <1>8. AllGood(rt, RuntimeCall("reset", "", rt)) /\ (p.type \in {"discover", "reconnect"} \cup Direct => AllGood(rt, RuntimeCall(p.type, "", rt)))
    BY <1>2 DEF CallNames, Direct
  <1>9. AllGood(rt, flashCommand(p.args, p.options, rt))
        /\ (p.type \in {"read", "write", "erase", "verify"} => AllGood(rt, memoryCommand(p.type, p.args, rt)))
        /\ (p.type \in {"restore", "job"} => AllGood(rt, fileCommand(p.type, p.args, rt)))
        /\ AllGood(rt, packageCommand(p.args, rt)) /\ AllGood(rt, workflowCommand(p.args, rt))
        /\ AllGood(rt, completionCommand(p.args, rt))
    BY <1>3, <1>4, <1>5, <1>6
  <1> QED BY <1>1, <1>7, <1>8, <1>9 DEF executeCommand, Printing

------------------------------------------------------------------------------
\* A step of the application before its end.
LEMMA StepKeeps ==
  ASSUME IsCli(cli'), cli'.at # "ended", IsRt(crt'), Fine(did', crt')
  PROVE  CInv'
  BY DEF CInv, Fine, EndsShutDown

LEMMA InitSet ==
  ASSUME NEW p, NEW i, NEW d, NEW c, NEW y, p = [init |-> i, connected |-> d, cancelled |-> c]
  PROVE  [p EXCEPT !.init = y] = [init |-> y, connected |-> d, cancelled |-> c]
  OBVIOUS

LEMMA FineNow ==
  ASSUME CInv, cli.at # "ended"
  PROVE  IsCli(cli) /\ IsRt(crt) /\ Fine(did, crt) /\ IsRt([crt EXCEPT !.init = TRUE]) /\ Fine(did, [crt EXCEPT !.init = TRUE])
  <1>1. IsCli(cli) /\ IsRt(crt) /\ Fine(did, crt)
    BY DEF CInv, Fine
  <1>2. IsRt([crt EXCEPT !.init = TRUE]) /\ [crt EXCEPT !.init = TRUE].cancelled = crt.cancelled
    <2> DEFINE n == [crt EXCEPT !.init = TRUE]
    <2>1. n = [init |-> TRUE, connected |-> crt.connected, cancelled |-> crt.cancelled]
      <3>1. crt = [init |-> crt.init, connected |-> crt.connected, cancelled |-> crt.cancelled]
        BY <1>1 DEF IsRt
      <3>2. ASSUME NEW y PROVE [crt EXCEPT !.init = y] = [init |-> y, connected |-> crt.connected, cancelled |-> crt.cancelled]
        BY <3>1, InitSet
      <3> QED BY <3>2, Zenon
    <2>2. crt.cancelled \in BOOLEAN
      BY <1>1 DEF IsRt
    <2> HIDE DEF n
    <2>3. n.init = TRUE /\ n.connected = crt.connected /\ n.cancelled = crt.cancelled
      BY <2>1
    <2>4. IsRt(n)
      BY <2>1, <2>2, <2>3 DEF IsRt
    <2> QED BY <2>3, <2>4 DEF n
  <1> QED BY <1>1, <1>2 DEF Fine

LEMMA PrintedKeeps ==
  ASSUME IsCli(cli), cli.at # "ended", NEW p, NEW outer, Printed(p, outer)
  PROVE  IsCli(cli') /\ cli'.at # "ended"
  BY DEF Printed, IsCli

LEMMA ExecutesKeeps ==
  ASSUME CInv, cli.at # "ended", NEW p, NEW outer, NEW rest, Executes(p, outer, rest)
  PROVE  CInv'
  <1>1. IsCli(cli) /\ IsRt(crt) /\ Fine(did, crt) /\ IsRt([crt EXCEPT !.init = TRUE]) /\ Fine(did, [crt EXCEPT !.init = TRUE])
    BY FineNow
  <1> DEFINE rt == [crt EXCEPT !.init = TRUE]
  <1>2. CASE Terminates
    <2>1. cli' = [cli EXCEPT !.at = "terminated"] /\ crt' = crt /\ did' = did
      BY <1>2 DEF Terminates
    <2>2. IsCli(cli') /\ cli'.at # "ended"
      BY <1>1, <2>1 DEF IsCli
    <2> QED BY <1>1, <2>1, <2>2, StepKeeps
  <1>3. ASSUME NEW code, Answers(p, outer, code), crt' = crt, did' = did PROVE CInv'
    <2>1. IsCli(cli') /\ cli'.at # "ended"
      BY <1>1, <1>3, PrintedKeeps DEF Answers
    <2> QED BY <1>1, <1>3, <2>1, StepKeeps
  <1>4. ASSUME script(p, outer, rest, rt) PROVE CInv'
    <2>1. did' = did /\ crt' = rt
      BY <1>4 DEF script
    <2>2. IsCli(cli') /\ cli'.at # "ended"
      <3>1. CASE cli' = [cli EXCEPT !.at = IF Len(rest) < MaxDepth THEN @ ELSE "terminated"]
        BY <1>1, <3>1 DEF IsCli
      <3>2. CASE \E code : Answers(p, outer, code)
        BY <1>1, <3>2, PrintedKeeps DEF Answers
      <3> QED BY <1>4, <3>1, <3>2 DEF script
    <2> QED BY <1>1, <2>1, <2>2, StepKeeps
  <1>5. ASSUME NEW o \in executeCommand(p, rt), crt' = o.rt, did' = did \o o.calls, Answers(p, outer, exitCodeFor(o.err))
        PROVE  CInv'
    <2>1. IsCli(cli') /\ cli'.at # "ended"
      BY <1>1, <1>5, PrintedKeeps DEF Answers
    <2> HIDE DEF rt
    <2>2. IsRt(rt) /\ Fine(did, rt)
      BY <1>1 DEF rt
    <2>3. Good(rt, o)
      BY <2>2, CommandIsGood DEF AllGood
    <2>4. IsRt(o.rt) /\ Fine(did \o o.calls, o.rt)
      BY <2>2, <2>3, Zenon DEF Good
    <2> QED BY <1>5, <2>1, <2>4, StepKeeps
  <1> QED BY <1>2, <1>3, <1>4, <1>5 DEF Executes

LEMMA CliSteps ==
  ASSUME CInv, [CliNext]_clivars
  PROVE  CInv'
  <1>1. cli.at # "ended" => IsCli(cli) /\ IsRt(crt) /\ Fine(did, crt) /\ IsRt([crt EXCEPT !.init = TRUE]) /\ Fine(did, [crt EXCEPT !.init = TRUE])
    BY FineNow
  <1>2. ASSUME NEW status, Returns(status), IsCli(cli) PROVE IsCli(cli') /\ cli'.at # "ended"
    BY <1>2 DEF Returns, IsCli
  <1>3. ASSUME Terminates, cli.at # "ended" PROVE CInv'
    <2>1. cli' = [cli EXCEPT !.at = "terminated"] /\ crt' = crt /\ did' = did
      BY <1>3 DEF Terminates
    <2>2. IsCli(cli') /\ cli'.at # "ended"
      BY <1>1, <1>3, <2>1 DEF IsCli
    <2> QED BY <1>1, <1>3, <2>1, <2>2, StepKeeps
  <1>4. CASE begin
    <2>1. cli.at = "start"
      BY <1>4 DEF begin
    <2>2. PICK args \in Invocations :
             \/ Terminates
             \/ /\ crt' = crt /\ did' = did
                /\ \E c, q, f : cli' = [cli EXCEPT !.at = "begun", !.cmd = c, !.quiet = q, !.format = f]
      BY <1>4 DEF begin
    <2>3. CASE crt' = crt /\ did' = did /\ \E c, q, f : cli' = [cli EXCEPT !.at = "begun", !.cmd = c, !.quiet = q, !.format = f]
      <3>1. PICK c, q, f : cli' = [cli EXCEPT !.at = "begun", !.cmd = c, !.quiet = q, !.format = f]
        BY <2>3
      <3>2. IsCli(cli') /\ cli'.at # "ended"
        BY <1>1, <2>1, <3>1 DEF IsCli
      <3> QED BY <1>1, <2>1, <2>3, <3>2, StepKeeps
    <2> QED BY <1>3, <2>1, <2>2, <2>3
  <1>5. CASE runCommand
    BY <1>5, ExecutesKeeps DEF runCommand
  <1>6. CASE runInteractive
    <2>1. cli.at = "begun" /\ did' = did /\ crt' \in {crt, [crt EXCEPT !.init = TRUE]}
      BY <1>6 DEF runInteractive
    <2>2. IsCli(cli') /\ cli'.at # "ended"
      <3>1. CASE Returns(1)
        BY <1>1, <1>2, <2>1, <3>1
      <3>2. CASE cli' = [cli EXCEPT !.at = "shell"]
        BY <1>1, <2>1, <3>2 DEF IsCli
      <3> QED BY <1>6, <3>1, <3>2 DEF runInteractive
    <2> QED BY <1>1, <2>1, <2>2, StepKeeps
  <1>7. CASE runScript
    <2>1. cli.at = "begun" /\ did' = did /\ crt' \in {crt, [crt EXCEPT !.init = TRUE]}
      BY <1>7 DEF runScript
    <2>2. IsCli(cli') /\ cli'.at # "ended"
      <3>1. CASE Returns(1) \/ Returns(2)
        BY <1>1, <1>2, <2>1, <3>1
      <3>2. CASE cli' = [cli EXCEPT !.at = "script"]
        BY <1>1, <2>1, <3>2 DEF IsCli
      <3> QED BY <1>7, <3>1, <3>2 DEF runScript
    <2> QED BY <1>1, <2>1, <2>2, StepKeeps
  <1>8. CASE shellLine
    BY <1>8, ExecutesKeeps DEF shellLine
  <1>9. CASE shellEnds
    <2>1. cli.at = "shell" /\ Returns(0) /\ crt' = crt /\ did' = did
      BY <1>9 DEF shellEnds
    <2> QED BY <1>1, <1>2, <2>1, StepKeeps
  <1>10. CASE scriptLine
    <2>1. cli.at \in {"script", "shell"}
      BY <1>10 DEF scriptLine
    <2>2. \/ Terminates
          \/ UNCHANGED <<cli, crt, did>>
          \/ \E p, outer, rest : Executes(p, outer, rest)
      BY <1>10 DEF scriptLine
    <2>3. CASE UNCHANGED <<cli, crt, did>>
      BY <1>1, <2>1, <2>3, StepKeeps
    <2> QED BY <1>3, <2>1, <2>2, <2>3, ExecutesKeeps
  <1>11. CASE scriptEnds
    <2>1. cli.at \in {"script", "shell"} /\ crt' = crt /\ did' = did
      BY <1>11 DEF scriptEnds
    <2>2. CASE Returns(0)
      BY <1>1, <1>2, <2>1, <2>2, StepKeeps
    <2>3. CASE Answers(Head(stack).cmd, Head(stack).outer, 0)
      <3>1. IsCli(cli') /\ cli'.at # "ended"
        BY <1>1, <2>1, <2>3, PrintedKeeps DEF Answers
      <3> QED BY <1>1, <2>1, <3>1, StepKeeps
    <2> QED BY <1>11, <2>2, <2>3 DEF scriptEnds
  <1>12. CASE destroyed
    <2>1. cli.at = "done" /\ cli' = [cli EXCEPT !.at = "ended"] /\ crt' = DirectEffect("shutdown", crt) /\ did' = did
      BY <1>12 DEF destroyed
    <2>2. crt' = [init |-> FALSE, connected |-> NoDevice, cancelled |-> FALSE]
      BY <2>1 DEF DirectEffect
    <2>3. IsCli(cli') /\ cli'.at = "ended" /\ IsRt(crt')
      <3>1. IsCli(cli') /\ cli'.at = "ended"
        BY <1>1, <2>1 DEF IsCli
      <3>2. IsRt(crt')
        BY <2>2 DEF IsRt
      <3> QED BY <3>1, <3>2
    <2>4. EndsShutDown'
      BY <2>2 DEF EndsShutDown
    <2> QED BY <2>1, <2>3, <2>4 DEF CInv
  <1>13. CASE UNCHANGED clivars
    BY <1>13 DEF clivars, CInv, EndsShutDown
  <1> QED BY <1>4, <1>5, <1>6, <1>7, <1>8, <1>9, <1>10, <1>11, <1>12, <1>13 DEF CliNext

\* Of the command line, whatever commands, scripts and lines it is given: it
\* leaves the Runtime shut down and no device connected, and after a cancel no
\* call reaches a device before a reset or a shutdown.
THEOREM TheShellIsSafe == CliSpec => [](EndsShutDown /\ CancelHoldsInShell)
  <1>1. CliInit => CInv
    <2> SUFFICES ASSUME CliInit PROVE CInv
      OBVIOUS
    <2>1. IsCli(cli) /\ IsRt(crt) /\ cli.at = "start"
      BY DEF CliInit, IsCli, IsRt
    <2>2. did = <<>> /\ did \in Seq(CallNames) /\ Len(did) = 0
      BY DEF CliInit
    <2>3. Kept(did) /\ ~ Barred(did)
      BY <2>2 DEF Kept, Barred
    <2> QED BY <2>1, <2>2, <2>3 DEF CInv, EndsShutDown
  <1>2. CInv /\ [CliNext]_clivars => CInv'
    BY CliSteps
  <1>3. CInv => EndsShutDown /\ CancelHoldsInShell
    <2> SUFFICES ASSUME CInv PROVE EndsShutDown /\ CancelHoldsInShell
      OBVIOUS
    <2>1. EndsShutDown /\ Kept(did) /\ DOMAIN did = 1..Len(did)
      BY DEF CInv
    <2> QED BY <2>1 DEF CancelHoldsInShell, Kept, Frees
  <1> QED BY <1>1, <1>2, <1>3, PTL DEF CliSpec
=============================================================================
