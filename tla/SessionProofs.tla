---------------------------- MODULE SessionProofs ----------------------------
(***************************************************************************)
(* Proofs about DeviceManager and DeviceSession, for any number of         *)
(* sessions, threads and calls.                                            *)
(*                                                                         *)
(* That a cancel() holds needs no discipline of the clients: m_cancelled   *)
(* stays set until a connect() has begun (Barred).                         *)
(*                                                                         *)
(* That sessions end closed and can be brought back needs it               *)
(* (Disciplined).  The invariant says that no two threads work on one      *)
(* session (Apart), that what is in the list is listed and what left it is *)
(* only disconnected and freed (Placed), that in the operations a call has *)
(* still to do a free or a reconnect has its disconnect before it or done  *)
(* (Prepared), and that a session in state Disconnected has its device     *)
(* closed (Settled).                                                       *)
(***************************************************************************)
EXTENDS DeviceManager, SequenceTheorems, TLAPS

\* The steps of the operations.
Labels == {"begin", "clear", "connecting", "open", "flag", "close", "state", "check", "busy", "device",
           "ready", "error"}

\* The list and the calls have their types.
Linked ==
    /\ list \in Seq(Sessions)
    /\ todo \in [Threads -> Seq(Ops)] /\ at \in [Threads -> Labels]

\* The m_cancelled of a session that is barred is set, and no connect() of it is
\* past its first test.
Barred ==
    /\ flag \in [Sessions -> BOOLEAN] /\ barred \in [Sessions -> BOOLEAN]
    /\ \A s \in Sessions : barred[s] => flag[s] /\ ~connectingTo(s)

\* Lists, calls, states and devices have their types.
Types ==
    /\ Linked
    /\ where \in [Sessions -> {"none", "listed", "leaving", "gone"}]
    /\ st \in [Sessions -> States] /\ dev \in [Sessions -> {"closed", "open", "reset"}]

\* No two threads have work on one session, other than to cancel it.
Apart ==
    \A t, u \in Threads : t # u =>
        \A k \in DOMAIN todo[t], l \in DOMAIN todo[u] :
            todo[t][k].s = todo[u][l].s => todo[t][k].op = "cancel" \/ todo[u][l].op = "cancel"

\* Where the session of an operation is.
Goes(e) ==
    /\ e.op = "create" <=> where[e.s] = "none"
    /\ where[e.s] \in {"leaving", "gone"} => e.op \in {"disconnect", "free"}
    /\ e.op = "free" => where[e.s] \in {"leaving", "gone"}

\* What is in the list is listed, once; what is still to do is on sessions where it belongs.
Placed ==
    /\ \A k \in DOMAIN list : where[list[k]] = "listed"
    /\ \A j, k \in DOMAIN list : list[j] = list[k] => j = k
    /\ \A t \in Threads : \A k \in DOMAIN todo[t] : Goes(todo[t][k])

\* The steps of a connect() up to the one that opens the device.
Preparing == {"begin", "clear", "connecting", "open"}

\* Of the operations ops, of which the first one is at label: a reconnect comes after
\* nothing but disconnects of its session and finds, or will find, its device closed; a
\* free follows the disconnect of its session; a session is created once.
Preparedness(ops, label, k) ==
    /\ ops[k].op = "reconnect" =>
          /\ \A j \in 1..(k - 1) : ops[j].s = ops[k].s => ops[j].op = "disconnect"
          /\ \/ k = 1 /\ label \notin Preparing
             \/ dev[ops[k].s] = "closed"
             \/ \E j \in 1..(k - 1) : ops[j].s = ops[k].s
    /\ ops[k].op = "free" =>
          \/ k = 1 /\ dev[ops[k].s] = "closed"
          \/ k > 1 /\ ops[k - 1].op = "disconnect" /\ ops[k - 1].s = ops[k].s
    /\ ops[k].op = "create" =>
          \A j \in 1..(k - 1) : ops[j].s # ops[k].s

\* So are the operations of every thread.
Prepared == \A t \in Threads : \A k \in DOMAIN todo[t] : Preparedness(todo[t], at[t], k)

\* A session in state Disconnected has its device closed; a connect() that is about to open
\* has left that state, a disconnect() that is about to store it has closed the device.
Settled ==
    /\ \A s \in Sessions : st[s] = "Disconnected" => dev[s] = "closed"
    /\ \A t \in Threads : At(t, Connecting, "open") => st[It(t)] # "Disconnected"
    /\ \A t \in Threads : At(t, {"disconnect"}, "state") => dev[It(t)] = "closed"

\* The inductive invariant of the sessions.
SInv == Types /\ Apart /\ Placed /\ Prepared /\ Settled /\ RemovedIsClosed

------------------------------------------------------------------------------
(* Calls: the operations of a thread.                                      *)

\* The first operation of a call that has some.
LEMMA HeadEntry ==
  ASSUME todo \in [Threads -> Seq(Ops)], NEW t \in Threads, todo[t] # <<>>
  PROVE  /\ todo[t] \in Seq(Ops) /\ Len(todo[t]) \in Nat /\ Len(todo[t]) >= 1
         /\ DOMAIN todo[t] = 1..Len(todo[t]) /\ 1 \in DOMAIN todo[t]
         /\ Head(todo[t]) = todo[t][1] /\ todo[t][1] \in Ops
         /\ todo[t][1].s \in Sessions /\ It(t) = todo[t][1].s
  <1>1. todo[t] \in Seq(Ops)
    OBVIOUS
  <1>2. Len(todo[t]) \in Nat /\ DOMAIN todo[t] = 1..Len(todo[t]) /\ Len(todo[t]) # 0
    BY <1>1, EmptySeq
  <1>3. 1 \in DOMAIN todo[t] /\ Len(todo[t]) >= 1
    BY <1>2
  <1>4. Head(todo[t]) = todo[t][1]
    BY <1>1
  <1>5. todo[t][1] \in Ops
    BY <1>1, <1>2, <1>3
  <1> QED BY <1>1, <1>2, <1>3, <1>4, <1>5 DEF It, Ops

\* What is left of a call after its first operation.
LEMMA TailEntries ==
  ASSUME todo \in [Threads -> Seq(Ops)], NEW t \in Threads, todo[t] # <<>>
  PROVE  /\ Tail(todo[t]) \in Seq(Ops) /\ Len(Tail(todo[t])) = Len(todo[t]) - 1
         /\ DOMAIN Tail(todo[t]) = 1..(Len(todo[t]) - 1)
         /\ \A k \in 1..(Len(todo[t]) - 1) :
               Tail(todo[t])[k] = todo[t][k + 1] /\ k + 1 \in DOMAIN todo[t]
  <1>1. todo[t] \in Seq(Ops) /\ Len(todo[t]) \in Nat /\ Len(todo[t]) >= 1 /\ DOMAIN todo[t] = 1..Len(todo[t])
    BY HeadEntry
  <1>2. Tail(todo[t]) \in Seq(Ops) /\ Len(Tail(todo[t])) = Len(todo[t]) - 1
    BY <1>1, HeadTailProperties
  <1>3. DOMAIN Tail(todo[t]) = 1..(Len(todo[t]) - 1)
    BY <1>1, <1>2
  <1>4. \A k \in 1..(Len(todo[t]) - 1) : Tail(todo[t])[k] = todo[t][k + 1]
    BY <1>1, <1>2, <1>3
  <1> QED BY <1>1, <1>2, <1>3, <1>4

\* How a step inside an operation leaves the call: going on, with the operation
\* done, or failed as a whole.
Goes1(t) == todo'[t] = todo[t]
Does1(t) == todo'[t] = Tail(todo[t]) /\ at'[t] = "begin"
Ends1(t) == todo'[t] = <<>> /\ at'[t] = "begin"

Within(t) ==
    /\ todo[t] # <<>>
    /\ todo' \in [Threads -> Seq(Ops)] /\ at' \in [Threads -> Labels]
    /\ \A u \in Threads \ {t} : todo'[u] = todo[u] /\ at'[u] = at[u]
    /\ Goes1(t) \/ Does1(t) \/ Ends1(t)

\* Goto, Done and Fail leave it so.
LEMMA GotoWithin ==
  ASSUME todo \in [Threads -> Seq(Ops)], at \in [Threads -> Labels], NEW t \in Threads, todo[t] # <<>>,
         NEW x \in Labels, Goto(t, x)
  PROVE  Within(t) /\ Goes1(t) /\ at'[t] = x
  BY DEF Goto, Within, Goes1

\* The operation is done, and the next one begins.
LEMMA DoneWithin ==
  ASSUME todo \in [Threads -> Seq(Ops)], at \in [Threads -> Labels], NEW t \in Threads, todo[t] # <<>>,
         Done(t)
  PROVE  Within(t) /\ Does1(t)
  <1>1. Tail(todo[t]) \in Seq(Ops) /\ "begin" \in Labels
    BY TailEntries DEF Labels
  <1> QED BY <1>1 DEF Done, Within, Does1

\* The call has failed.
LEMMA FailWithin ==
  ASSUME todo \in [Threads -> Seq(Ops)], at \in [Threads -> Labels], NEW t \in Threads, todo[t] # <<>>,
         Fail(t)
  PROVE  Within(t) /\ Ends1(t)
  <1>1. <<>> \in Seq(Ops) /\ "begin" \in Labels
    BY DEF Labels
  <1> QED BY <1>1 DEF Fail, Within, Ends1

\* No step inside an operation adds one to a call.
LEMMA WithinEntries ==
  ASSUME todo \in [Threads -> Seq(Ops)], NEW t \in Threads, Within(t), NEW u \in Threads,
         NEW k \in DOMAIN todo'[u]
  PROVE  \E l \in DOMAIN todo[u] : todo'[u][k] = todo[u][l]
  <1>1. CASE u # t
    BY <1>1 DEF Within
  <1>2. CASE u = t /\ Goes1(t)
    BY <1>2 DEF Goes1
  <1>3. CASE u = t /\ Does1(t)
    BY <1>3, TailEntries DEF Does1, Within
  <1>4. CASE u = t /\ Ends1(t)
    BY <1>4 DEF Ends1
  <1> QED BY <1>1, <1>2, <1>3, <1>4 DEF Within

------------------------------------------------------------------------------
(* A cancel() holds.                                                       *)

\* Operations are told apart by their names.
LEMMA KindsApart ==
  Kinds \cap {"connect", "reconnect", "disconnect", "cancel", "free", "create"} = {}
  BY SessionAssumption DEF BusyStates

\* A step inside an operation begins no connect() unless it is the first of one.
LEMMA NoNewConnect ==
  ASSUME Linked, NEW t \in Threads, Within(t),
         Head(todo[t]).op \notin Connecting \/ at[t] # "begin" \/ at'[t] = "begin",
         NEW s, connectingTo(s)'
  PROVE  connectingTo(s)
  <1>1. PICK u \in Threads : /\ todo'[u] # <<>> /\ Head(todo'[u]).op \in Connecting
                             /\ Head(todo'[u]).s = s /\ at'[u] # "begin"
    BY DEF connectingTo, It
  <1>2. CASE u # t
    BY <1>1, <1>2 DEF Within, connectingTo, It
  <1>3. CASE u = t
    <2>1. Goes1(t)
      BY <1>1, <1>3 DEF Within, Does1, Ends1
    <2> QED BY <1>1, <1>3, <2>1 DEF Goes1, connectingTo, It
  <1> QED BY <1>2, <1>3

\* Such a step that leaves the flags alone keeps the bar.
LEMMA BarKept ==
  ASSUME Linked, Barred, NEW t \in Threads, Within(t), UNCHANGED <<flag, barred>>,
         Head(todo[t]).op \notin Connecting \/ at[t] # "begin" \/ at'[t] = "begin"
  PROVE  Barred'
  <1>1. \A s \in Sessions : connectingTo(s)' => connectingTo(s)
    BY NoNewConnect
  <1> QED BY <1>1 DEF Barred

\* The steps of an operation keep the bar.
LEMMA BarStep == ASSUME Linked, Barred, NEW t \in Threads, Step(t) PROVE Barred'
  <1>1. todo \in [Threads -> Seq(Ops)] /\ at \in [Threads -> Labels]
    BY DEF Linked
  <1>2. /\ todo[t] # <<>>
        /\ It(t) \in Sessions
    <2>1. todo[t] # <<>>
      BY DEF Step, connectTest, connectClear, connectState, connectOpen, connectEnd, disconnectTest,
             disconnectFlag, disconnectClose, disconnectState, cancelFlag, cancelState, executeCancelled,
             executeCheck, executeBusy, executeDevice, executeEnd, free, add, At
    <2> QED BY <1>1, <2>1, HeadEntry
  <1>3. ASSUME NEW x \in Labels, Goto(t, x) PROVE Within(t) /\ Goes1(t) /\ at'[t] = x
    BY <1>1, <1>2, <1>3, GotoWithin
  <1>4. ASSUME Done(t) PROVE Within(t) /\ at'[t] = "begin"
    BY <1>1, <1>2, <1>4, DoneWithin DEF Does1
  <1>5. ASSUME Fail(t) PROVE Within(t) /\ at'[t] = "begin"
    BY <1>1, <1>2, <1>5, FailWithin DEF Ends1
  <1>6. {"clear", "connecting", "open", "flag", "close", "state", "check", "busy", "device",
         "ready", "error"} \subseteq Labels
    BY DEF Labels
  <1>7. CASE connectTest(t)
    <2> DEFINE s == It(t)
               over == st[s] \in {"Ready", "Connected"} \cup Terminal
    <2>1. barred' = [barred EXCEPT ![s] = @ /\ over] /\ flag' = flag
      BY <1>7 DEF connectTest, svars
    <2>2. CASE over
      <3>1. Done(t) \/ Fail(t)
        BY <1>7, <2>2 DEF connectTest
      <3>2. Within(t) /\ at'[t] = "begin"
        BY <1>4, <1>5, <3>1
      <3>3. barred' = barred
        <4>1. barred \in [Sessions -> BOOLEAN] /\ barred[s] \in BOOLEAN
          BY <1>2 DEF Barred
        <4>2. (barred[s] /\ over) = barred[s]
          BY <2>2, <4>1
        <4> QED BY <2>1, <4>1, <4>2
      <3> QED BY <2>1, <3>2, <3>3, BarKept
    <2>3. CASE ~over
      <3>1. Within(t) /\ at'[t] = "clear"
        BY <1>3, <1>6, <1>7, <2>3 DEF connectTest
      <3>2. /\ barred' \in [Sessions -> BOOLEAN] /\ ~barred'[s]
            /\ \A x \in Sessions \ {s} : barred'[x] = barred[x]
        BY <1>2, <2>1, <2>3 DEF Barred
      <3>3. ASSUME NEW x \in Sessions, barred'[x] PROVE flag'[x] /\ ~connectingTo(x)'
        <4>1. x # s /\ barred[x] /\ flag[x] /\ ~connectingTo(x)
          BY <3>2, <3>3 DEF Barred
        <4>2. ASSUME connectingTo(x)' PROVE FALSE
          <5>1. PICK u \in Threads : /\ todo'[u] # <<>> /\ Head(todo'[u]).op \in Connecting
                                     /\ Head(todo'[u]).s = x /\ at'[u] # "begin"
            BY <4>2 DEF connectingTo, It
          <5>2. u # t
            <6>1. todo'[t] = todo[t]
              BY <1>3, <1>6, <1>7, <2>3 DEF connectTest, Goes1
            <6> QED BY <4>1, <5>1, <6>1 DEF It
          <5> QED BY <3>1, <4>1, <5>1, <5>2 DEF Within, connectingTo, It
        <4> QED BY <2>1, <4>1, <4>2
      <3> QED BY <2>1, <3>1, <3>2, <3>3 DEF Barred, Within
    <2> QED BY <2>2, <2>3
  <1>8. CASE connectClear(t)
    <2>1. /\ Within(t) /\ at[t] = "clear" /\ connectingTo(It(t))
          /\ flag' = [flag EXCEPT ![It(t)] = FALSE] /\ barred' = barred
      BY <1>3, <1>6, <1>8 DEF connectClear, At, connectingTo
    <2>2. ~barred[It(t)]
      BY <1>2, <2>1 DEF Barred
    <2>3. \A s \in Sessions : connectingTo(s)' => connectingTo(s)
      BY <1>1, <2>1, NoNewConnect
    <2>4. flag' \in [Sessions -> BOOLEAN] /\ \A s \in Sessions \ {It(t)} : flag'[s] = flag[s]
      BY <1>2, <2>1 DEF Barred
    <2> QED BY <2>1, <2>2, <2>3, <2>4 DEF Barred, Within
  <1>9. CASE cancelFlag(t)
    <2>1. /\ Within(t) /\ Head(todo[t]).op = "cancel"
          /\ flag' = [flag EXCEPT ![It(t)] = TRUE]
          /\ barred' = [barred EXCEPT ![It(t)] = @ \/ ~connectingTo(It(t))]
      BY <1>3, <1>6, <1>9 DEF cancelFlag, At
    <2>2. \A s \in Sessions : connectingTo(s)' => connectingTo(s)
      BY <1>1, <2>1, NoNewConnect DEF Connecting
    <2>3. /\ flag' \in [Sessions -> BOOLEAN] /\ flag'[It(t)]
          /\ \A s \in Sessions \ {It(t)} : flag'[s] = flag[s]
      BY <1>2, <2>1 DEF Barred
    <2>4. /\ barred' \in [Sessions -> BOOLEAN]
          /\ barred'[It(t)] => barred[It(t)] \/ ~connectingTo(It(t))
          /\ \A s \in Sessions \ {It(t)} : barred'[s] = barred[s]
      BY <1>2, <2>1 DEF Barred
    <2>5. ASSUME NEW s \in Sessions, barred'[s] PROVE flag'[s] /\ ~connectingTo(s)'
      BY <1>2, <2>2, <2>3, <2>4, <2>5 DEF Barred
    <2> QED BY <2>1, <2>3, <2>4, <2>5 DEF Barred, Within
  <1>10. CASE disconnectFlag(t)
    <2>1. /\ Within(t) /\ Head(todo[t]).op = "disconnect"
          /\ flag' = [flag EXCEPT ![It(t)] = TRUE] /\ barred' = barred
      BY <1>3, <1>6, <1>10 DEF disconnectFlag, At
    <2>2. \A s \in Sessions : connectingTo(s)' => connectingTo(s)
      BY <1>1, <2>1, NoNewConnect DEF Connecting
    <2>3. /\ flag' \in [Sessions -> BOOLEAN] /\ flag'[It(t)]
          /\ \A s \in Sessions \ {It(t)} : flag'[s] = flag[s]
      BY <1>2, <2>1 DEF Barred
    <2>4. ASSUME NEW s \in Sessions, barred'[s] PROVE flag'[s] /\ ~connectingTo(s)'
      BY <2>1, <2>2, <2>3, <2>4 DEF Barred
    <2> QED BY <2>1, <2>3, <2>4 DEF Barred, Within
  <1>11. CASE connectState(t) \/ connectOpen(t) \/ connectEnd(t)
    <2>1. Within(t) /\ at[t] # "begin" /\ UNCHANGED <<flag, barred>>
      BY <1>3, <1>4, <1>5, <1>6, <1>11 DEF connectState, connectOpen, connectEnd, At
    <2> QED BY <2>1, BarKept
  <1>12. CASE disconnectTest(t) \/ disconnectClose(t) \/ disconnectState(t) \/ cancelState(t) \/ free(t) \/ add(t)
    <2>1. Within(t) /\ UNCHANGED <<flag, barred>>
      BY <1>3, <1>4, <1>6, <1>12 DEF disconnectTest, disconnectClose, disconnectState, cancelState, free, add, svars
    <2>2. Head(todo[t]).op \notin Connecting
      BY <1>12 DEF disconnectTest, disconnectClose, disconnectState, cancelState, free, add, At, Connecting
    <2> QED BY <2>1, <2>2, BarKept
  <1>13. CASE executeCancelled(t) \/ executeCheck(t) \/ executeBusy(t) \/ executeDevice(t) \/ executeEnd(t)
    <2>1. Within(t) /\ UNCHANGED <<flag, barred>>
      BY <1>3, <1>4, <1>5, <1>6, <1>13
         DEF executeCancelled, executeCheck, executeBusy, executeDevice, executeEnd, svars
    <2>2. Head(todo[t]).op \notin Connecting
      BY <1>13, KindsApart DEF executeCancelled, executeCheck, executeBusy, executeDevice, executeEnd, At, Connecting
    <2> QED BY <2>1, <2>2, BarKept
  <1> QED BY <1>7, <1>8, <1>9, <1>10, <1>11, <1>12, <1>13 DEF Step

------------------------------------------------------------------------------
(* Calls: the operations they bring.                                       *)

\* One operation for each session of a sequence.
LEMMA EachOps ==
  ASSUME NEW op \in {"connect", "reconnect", "disconnect", "create"}, NEW seq \in Seq(Sessions)
  PROVE  /\ Each(op, seq) \in Seq(Ops) /\ Len(Each(op, seq)) = Len(seq)
         /\ DOMAIN Each(op, seq) = 1..Len(seq)
         /\ \A k \in 1..Len(seq) :
               seq[k] \in Sessions /\ Each(op, seq)[k].op = op /\ Each(op, seq)[k].s = seq[k]
  <1>1. DOMAIN seq = 1..Len(seq) /\ Len(seq) \in Nat /\ \A k \in 1..Len(seq) : seq[k] \in Sessions
    OBVIOUS
  <1>2. ASSUME NEW k \in 1..Len(seq)
        PROVE  Each(op, seq)[k] \in Ops /\ Each(op, seq)[k].op = op /\ Each(op, seq)[k].s = seq[k]
    BY <1>1 DEF Each, Do, Ops
  <1>3. Each(op, seq) \in [1..Len(seq) -> Ops]
    BY <1>1, <1>2 DEF Each
  <1>4. Each(op, seq) \in Seq(Ops)
    BY <1>1, <1>3, IsASeq
  <1>5. DOMAIN Each(op, seq) = 1..Len(seq) /\ Len(Each(op, seq)) = Len(seq)
    BY <1>1, <1>3, <1>4
  <1> QED BY <1>1, <1>2, <1>4, <1>5

\* The destruction of a sequence of sessions: each is disconnected, then freed.
LEMMA DestroyOps ==
  ASSUME NEW seq \in Seq(Sessions)
  PROVE  /\ Destroy(seq) \in Seq(Ops) /\ Len(Destroy(seq)) = 2 * Len(seq)
         /\ \A k \in 1..(2 * Len(seq)) :
              /\ \E i \in 1..Len(seq) : Destroy(seq)[k].s = seq[i]
              /\ Destroy(seq)[k].op \in {"disconnect", "free"}
              /\ Destroy(seq)[k].op = "free" =>
                    /\ k > 1 /\ Destroy(seq)[k - 1].op = "disconnect"
                    /\ Destroy(seq)[k - 1].s = Destroy(seq)[k].s
  <1> DEFINE d == Destroy(seq)
             n == 2 * Len(seq)
             half(k) == (k + 1) \div 2
             op(k) == IF k % 2 = 1 THEN "disconnect" ELSE "free"
  <1>1. Len(seq) \in Nat /\ n \in Nat /\ \A k \in 1..Len(seq) : seq[k] \in Sessions
    OBVIOUS
  <1>2. \A k \in 1..n : half(k) \in 1..Len(seq)
    BY <1>1
  <1>3. d = [k \in 1..n |-> Do(op(k), seq[half(k)])]
    BY DEF Destroy
  <1>4. \A k \in 1..n : k % 2 # 1 => k > 1 /\ (k - 1) \in 1..n /\ (k - 1) % 2 = 1 /\ half(k - 1) = half(k)
    BY <1>1
  <1>5. \A k \in 1..n : op(k) \in {"disconnect", "free"} /\ (op(k) = "free" => k % 2 # 1) /\ (k % 2 = 1 => op(k) = "disconnect")
    OBVIOUS
  <1> HIDE DEF d, n, half, op
  <1>6. \A k \in 1..n : d[k] = Do(op(k), seq[half(k)])
    BY <1>3
  <1>7. ASSUME NEW k \in 1..n
        PROVE  d[k] \in Ops /\ d[k].op = op(k) /\ d[k].s = seq[half(k)] /\ seq[half(k)] \in Sessions
    <2>1. half(k) \in 1..Len(seq)
      BY <1>2
    <2>2. seq[half(k)] \in Sessions
      BY <1>1, <2>1
    <2>3. op(k) \in {"disconnect", "free"} /\ d[k] = Do(op(k), seq[half(k)])
      BY <1>5, <1>6
    <2> QED BY <2>2, <2>3 DEF Do, Ops
  <1>8. d \in Seq(Ops) /\ Len(d) = n
    <2>1. d \in [1..n -> Ops]
      BY <1>3, <1>6, <1>7
    <2>2. d \in Seq(Ops)
      BY <1>1, <2>1, IsASeq
    <2> QED BY <1>1, <2>1, <2>2
  <1>9. ASSUME NEW k \in 1..n, d[k].op = "free"
        PROVE  k > 1 /\ d[k - 1].op = "disconnect" /\ d[k - 1].s = d[k].s
    <2>1. k % 2 # 1
      BY <1>5, <1>7, <1>9
    <2>2. k > 1 /\ (k - 1) \in 1..n /\ (k - 1) % 2 = 1 /\ half(k - 1) = half(k)
      BY <1>4, <2>1
    <2>3. d[k - 1].op = op(k - 1) /\ d[k - 1].s = seq[half(k - 1)] /\ op(k - 1) = "disconnect"
      BY <1>5, <1>7, <2>2
    <2> QED BY <1>7, <2>2, <2>3
  <1>10. ASSUME NEW k \in 1..n
         PROVE  (\E i \in 1..Len(seq) : d[k].s = seq[i]) /\ d[k].op \in {"disconnect", "free"}
    BY <1>2, <1>5, <1>7
  <1>11. /\ d \in Seq(Ops) /\ Len(d) = n
         /\ \A k \in 1..n :
              /\ \E i \in 1..Len(seq) : d[k].s = seq[i]
              /\ d[k].op \in {"disconnect", "free"}
              /\ d[k].op = "free" => k > 1 /\ d[k - 1].op = "disconnect" /\ d[k - 1].s = d[k].s
    BY <1>8, <1>9, <1>10
  <1> QED BY <1>11 DEF d, n

\* What two sequences of operations hold when one follows the other.
LEMMA JoinOps ==
  ASSUME NEW a \in Seq(Ops), NEW b \in Seq(Ops)
  PROVE  /\ a \o b \in Seq(Ops) /\ Len(a \o b) = Len(a) + Len(b)
         /\ DOMAIN (a \o b) = 1..(Len(a) + Len(b)) /\ Len(a) \in Nat /\ Len(b) \in Nat
         /\ \A k \in 1..(Len(a) + Len(b)) :
               \/ k \in 1..Len(a) /\ (a \o b)[k] = a[k]
               \/ k > Len(a) /\ k - Len(a) \in 1..Len(b) /\ (a \o b)[k] = b[k - Len(a)]
         /\ \A k \in 1..Len(a) : (a \o b)[k] = a[k]
         /\ \A k \in 1..Len(b) : (a \o b)[k + Len(a)] = b[k]
  <1>1. a \o b \in Seq(Ops) /\ Len(a \o b) = Len(a) + Len(b) /\ Len(a) \in Nat /\ Len(b) \in Nat
    BY ConcatProperties
  <1>2. \A k \in 1..(Len(a) + Len(b)) : (a \o b)[k] = IF k <= Len(a) THEN a[k] ELSE b[k - Len(a)]
    BY <1>1, ConcatProperties
  <1>3. DOMAIN (a \o b) = 1..(Len(a) + Len(b))
    BY <1>1
  <1>4. ASSUME NEW k \in 1..(Len(a) + Len(b))
        PROVE  \/ k \in 1..Len(a) /\ (a \o b)[k] = a[k]
               \/ k > Len(a) /\ k - Len(a) \in 1..Len(b) /\ (a \o b)[k] = b[k - Len(a)]
    <2>1. CASE k <= Len(a)
      BY <1>1, <1>2, <2>1
    <2>2. CASE ~(k <= Len(a))
      BY <1>1, <1>2, <2>2
    <2> QED BY <2>1, <2>2
  <1>5. ASSUME NEW k \in 1..Len(a) PROVE (a \o b)[k] = a[k]
    BY <1>1, <1>2
  <1>6. ASSUME NEW k \in 1..Len(b) PROVE (a \o b)[k + Len(a)] = b[k]
    <2>1. k + Len(a) \in 1..(Len(a) + Len(b)) /\ ~(k + Len(a) <= Len(a)) /\ k + Len(a) - Len(a) = k
      BY <1>1
    <2> QED BY <1>2, <2>1
  <1> QED BY <1>1, <1>3, <1>4, <1>5, <1>6

\* The operations ops only disconnect sessions of seq, and only disconnect and free them,
\* each free after a disconnect of its session.
Parting(ops, seq)  == \A k \in 1..Len(ops) : ops[k].op = "disconnect" /\ ops[k].s \in Range(seq)
Removing(ops, seq) ==
    \A k \in DOMAIN ops :
        /\ ops[k].s \in Range(seq) /\ ops[k].op \in {"disconnect", "free"}
        /\ ops[k].op = "free" => k > 1 /\ ops[k - 1].op = "disconnect" /\ ops[k - 1].s = ops[k].s

\* Sessions of the list that are removed: disconnected, then destroyed.
LEMMA RemovalOps ==
  ASSUME NEW a \in Seq(Ops), NEW seq \in Seq(Sessions), Parting(a, seq)
  PROVE  a \o Destroy(seq) \in Seq(Ops) /\ Removing(a \o Destroy(seq), seq)
  <1> DEFINE d == Destroy(seq)
             ops == a \o d
             S == Range(seq)
  <1>0. \A k \in 1..Len(seq) : seq[k] \in S
    BY DEF Range
  <1> HIDE DEF S
  <1>1. /\ d \in Seq(Ops) /\ Len(d) = 2 * Len(seq)
        /\ \A k \in 1..Len(d) :
              /\ \E i \in 1..Len(seq) : d[k].s = seq[i]
              /\ d[k].op \in {"disconnect", "free"}
              /\ d[k].op = "free" => k > 1 /\ d[k - 1].op = "disconnect" /\ d[k - 1].s = d[k].s
    BY DestroyOps
  <1> HIDE DEF d
  <1>2. /\ Len(a) \in Nat /\ Len(d) \in Nat
        /\ ops \in Seq(Ops) /\ DOMAIN ops = 1..(Len(a) + Len(d))
        /\ \A k \in 1..(Len(a) + Len(d)) :
               \/ k \in 1..Len(a) /\ ops[k] = a[k]
               \/ k > Len(a) /\ k - Len(a) \in 1..Len(d) /\ ops[k] = d[k - Len(a)]
        /\ \A k \in 1..Len(d) : ops[k + Len(a)] = d[k]
    <2>1. d \in Seq(Ops)
      BY <1>1
    <2> QED BY <2>1, JoinOps
  <1> HIDE DEF ops
  <1>3. ASSUME NEW k \in DOMAIN ops
        PROVE  /\ ops[k].s \in S /\ ops[k].op \in {"disconnect", "free"}
               /\ ops[k].op = "free" => k > 1 /\ ops[k - 1].op = "disconnect" /\ ops[k - 1].s = ops[k].s
    <2>1. CASE k \in 1..Len(a) /\ ops[k] = a[k]
      BY <2>1 DEF S, Parting
    <2>2. CASE k > Len(a) /\ k - Len(a) \in 1..Len(d) /\ ops[k] = d[k - Len(a)]
      <3> DEFINE i == k - Len(a)
      <3>i. i \in 1..Len(d) /\ ops[k] = d[i] /\ i \in Int /\ k = i + Len(a)
        BY <1>2, <2>2
      <3> HIDE DEF i
      <3>1. ops[k].s \in S /\ ops[k].op \in {"disconnect", "free"}
        BY <1>0, <1>1, <3>i
      <3>2. ASSUME ops[k].op = "free"
            PROVE  k > 1 /\ ops[k - 1].op = "disconnect" /\ ops[k - 1].s = ops[k].s
        <4>1. i > 1 /\ d[i - 1].op = "disconnect" /\ d[i - 1].s = d[i].s
          BY <1>1, <3>2, <3>i
        <4>2. Len(a) \in Nat /\ Len(d) \in Nat
          BY <1>2
        <4>3. i - 1 \in 1..Len(d) /\ (i - 1) + Len(a) = k - 1 /\ k > 1
          BY <3>i, <4>1, <4>2
        <4>4. ops[(i - 1) + Len(a)] = d[i - 1]
          BY <1>2, <4>3
        <4> QED BY <3>i, <4>1, <4>3, <4>4
      <3> QED BY <3>1, <3>2
    <2> QED BY <1>2, <2>1, <2>2
  <1>4. ops \in Seq(Ops) /\ Removing(ops, seq)
    BY <1>2, <1>3 DEF S, Removing
  <1> QED BY <1>4 DEF ops, d

\* The reconnects among ops come after disconnects of their sessions only, and after one.
Returning(ops) ==
    \A k \in DOMAIN ops : ops[k].op = "reconnect" =>
        /\ \A j \in 1..(k - 1) : ops[j].s = ops[k].s => ops[j].op = "disconnect"
        /\ \E j \in 1..(k - 1) : ops[j].s = ops[k].s

\* Each session of seq once.
Distinct(seq) == \A j, k \in DOMAIN seq : seq[j] = seq[k] => j = k

\* reconnectAll(): every session is disconnected before the first one is connected.
LEMMA ReconnectOps ==
  ASSUME NEW seq \in Seq(Sessions), Distinct(seq)
  PROVE  LET ops == Each("disconnect", seq) \o Each("reconnect", seq) IN
         /\ ops \in Seq(Ops) /\ Returning(ops)
         /\ \A k \in DOMAIN ops :
               (\E i \in DOMAIN seq : ops[k].s = seq[i]) /\ ops[k].op \in {"disconnect", "reconnect"}
  <1> DEFINE a == Each("disconnect", seq)
             b == Each("reconnect", seq)
             ops == a \o b
             n == Len(seq)
  <1>1. /\ n \in Nat /\ DOMAIN seq = 1..n
        /\ a \in Seq(Ops) /\ Len(a) = n /\ \A k \in 1..n : a[k].op = "disconnect" /\ a[k].s = seq[k]
        /\ b \in Seq(Ops) /\ Len(b) = n /\ \A k \in 1..n : b[k].op = "reconnect" /\ b[k].s = seq[k]
    BY EachOps
  <1>2. /\ ops \in Seq(Ops) /\ DOMAIN ops = 1..(n + n)
        /\ \A k \in 1..(n + n) :
               \/ k \in 1..n /\ ops[k] = a[k]
               \/ k > n /\ k - n \in 1..n /\ ops[k] = b[k - n]
        /\ \A k \in 1..n : ops[k] = a[k]
    <2>1. a \in Seq(Ops) /\ b \in Seq(Ops) /\ Len(a) = n /\ Len(b) = n
      BY <1>1
    <2> HIDE DEF a, b, n
    <2>2. /\ ops \in Seq(Ops) /\ DOMAIN ops = 1..(Len(a) + Len(b))
          /\ \A k \in 1..(Len(a) + Len(b)) :
                 \/ k \in 1..Len(a) /\ ops[k] = a[k]
                 \/ k > Len(a) /\ k - Len(a) \in 1..Len(b) /\ ops[k] = b[k - Len(a)]
          /\ \A k \in 1..Len(a) : ops[k] = a[k]
      BY <2>1, JoinOps
    <2> QED BY <2>1, <2>2
  <1> HIDE DEF a, b, ops, n
  <1>3. ASSUME NEW k \in DOMAIN ops
        PROVE  /\ \E i \in DOMAIN seq : ops[k].s = seq[i]
               /\ ops[k].op \in {"disconnect", "reconnect"}
               /\ ops[k].op = "reconnect" =>
                     /\ \A j \in 1..(k - 1) : ops[j].s = ops[k].s => ops[j].op = "disconnect"
                     /\ \E j \in 1..(k - 1) : ops[j].s = ops[k].s
    <2>1. CASE k \in 1..n /\ ops[k] = a[k]
      BY <1>1, <2>1
    <2>2. CASE k > n /\ k - n \in 1..n /\ ops[k] = b[k - n]
      <3>1. ops[k].s = seq[k - n] /\ ops[k].op = "reconnect" /\ k - n \in DOMAIN seq
        BY <1>1, <2>2
      <3>2. ASSUME NEW j \in 1..(k - 1), ops[j].s = ops[k].s PROVE ops[j].op = "disconnect"
        <4>1. j \in 1..(n + n)
          BY <1>1, <1>2
        <4>2. CASE j \in 1..n /\ ops[j] = a[j]
          BY <1>1, <4>2
        <4>3. CASE j > n /\ j - n \in 1..n /\ ops[j] = b[j - n]
          <5>1. ops[j].s = seq[j - n] /\ j - n \in DOMAIN seq
            BY <1>1, <4>3
          <5>2. j - n = k - n
            BY <3>1, <3>2, <5>1 DEF Distinct
          <5> QED BY <1>1, <1>2, <5>2
        <4> QED BY <1>2, <4>1, <4>2, <4>3
      <3>3. k - n \in 1..(k - 1) /\ ops[k - n].s = seq[k - n]
        <4>1. k - n \in 1..n /\ ops[k - n] = a[k - n] /\ n >= 1
          BY <1>1, <1>2, <2>2
        <4>2. k - n \in 1..(k - 1)
          BY <1>1, <1>2, <2>2, <4>1
        <4> QED BY <1>1, <4>1, <4>2
      <3> QED BY <3>1, <3>2, <3>3
    <2> QED BY <1>2, <2>1, <2>2
  <1>4. Returning(ops)
    BY <1>3 DEF Returning
  <1> QED BY <1>2, <1>3, <1>4 DEF ops, a, b

\* Calls of one and of two operations.
LEMMA FewOps ==
  ASSUME NEW a \in Ops, NEW b \in Ops
  PROVE  /\ <<a>> \in Seq(Ops) /\ DOMAIN <<a>> = {1} /\ Len(<<a>>) = 1 /\ <<a>>[1] = a
         /\ <<a, b>> \in Seq(Ops) /\ DOMAIN <<a, b>> = {1, 2} /\ <<a, b>>[1] = a /\ <<a, b>>[2] = b
  OBVIOUS

\* The list without one session.
LEMMA RemoveAtList ==
  ASSUME NEW seq \in Seq(Sessions), NEW k \in 1..Len(seq)
  PROVE  LET r == RemoveAt(seq, k) IN
         /\ r \in Seq(Sessions) /\ Len(r) = Len(seq) - 1
         /\ \A j \in 1..(Len(seq) - 1) : r[j] = seq[IF j < k THEN j ELSE j + 1]
  <1> DEFINE u == SubSeq(seq, 1, k - 1)
             w == SubSeq(seq, k + 1, Len(seq))
  <1>1. Len(seq) \in Nat
    OBVIOUS
  <1>2. u \in Seq(Sessions) /\ Len(u) = k - 1 /\ \A j \in 1..(k - 1) : u[j] = seq[j]
    OBVIOUS
  <1>3. w \in Seq(Sessions) /\ Len(w) = Len(seq) - k /\ \A j \in 1..(Len(seq) - k) : w[j] = seq[j + k]
    OBVIOUS
  <1>4. RemoveAt(seq, k) = u \o w
    BY DEF RemoveAt
  <1> HIDE DEF u, w
  <1>5. /\ u \o w \in Seq(Sessions) /\ Len(u \o w) = Len(seq) - 1
        /\ \A j \in 1..(Len(seq) - 1) : (u \o w)[j] = IF j <= k - 1 THEN u[j] ELSE w[j - (k - 1)]
    <2>1. u \o w \in Seq(Sessions) /\ Len(u \o w) = Len(seq) - 1
      BY <1>2, <1>3
    <2> QED BY <1>2, <1>3, <2>1
  <1>6. ASSUME NEW j \in 1..(Len(seq) - 1) PROVE (u \o w)[j] = seq[IF j < k THEN j ELSE j + 1]
    <2>1. CASE j < k
      BY <1>2, <1>5, <2>1
    <2>2. CASE j >= k
      <3>1. j - (k - 1) \in 1..(Len(seq) - k) /\ (j - (k - 1)) + k = j + 1
        BY <1>1, <2>2
      <3>2. w[j - (k - 1)] = seq[j + 1]
        BY <1>3, <3>1
      <3>3. (u \o w)[j] = w[j - (k - 1)]
        BY <1>5, <2>2
      <3> QED BY <2>2, <3>2, <3>3
    <2>3. j < k \/ j >= k
      OBVIOUS
    <2> QED BY <2>1, <2>2, <2>3
  <1> QED BY <1>4, <1>5, <1>6

\* An operation of a session.
LEMMA DoOps ==
  ASSUME NEW op \in {"connect", "reconnect", "disconnect", "cancel", "free", "create"} \cup Kinds,
         NEW s \in Sessions
  PROVE  Do(op, s) \in Ops /\ Do(op, s).op = op /\ Do(op, s).s = s
  BY DEF Do, Ops

\* Whatever a thread calls, it is a sequence of operations it enters with, or a search.
LEMMA CallOps ==
  ASSUME Linked, NEW t \in Threads, ThreadCalls(t)
  PROVE  /\ list' \in Seq(Sessions) /\ UNCHANGED <<flag, barred, st, dev>> /\ todo[t] = <<>>
         /\ \/ UNCHANGED <<todo, at>>
            \/ \E ops \in Seq(Ops) : Enter(t, ops)
  <1>1. list \in Seq(Sessions) /\ Len(list) \in Nat /\ DOMAIN list = 1..Len(list)
    BY DEF Linked
  <1>2. ASSUME NEW op \in {"connect", "reconnect", "disconnect", "cancel"} \cup Kinds, NEW s \in Sessions
        PROVE  <<Do(op, s)>> \in Seq(Ops)
    <2>1. Do(op, s) \in Ops
      BY DoOps
    <2> QED BY <2>1
  <1>3. ASSUME NEW s \in Sessions PROVE <<Do("disconnect", s), Do("reconnect", s)>> \in Seq(Ops)
    <2>1. Do("disconnect", s) \in Ops /\ Do("reconnect", s) \in Ops
      BY DoOps
    <2> QED BY <2>1
  <1>4. CASE create(t)
    <2>0. PICK n \in 0..Cardinality(Fresh) : \E new \in [1..n -> Fresh] : Enter(t, Each("create", new))
      BY <1>4 DEF create
    <2>1. PICK new \in [1..n -> Fresh] : Enter(t, Each("create", new))
      BY <2>0
    <2>2. new \in Seq(Sessions)
      <3>1. n \in Nat /\ Fresh \subseteq Sessions
        BY DEF Fresh
      <3> QED BY <3>1
    <2>3. Each("create", new) \in Seq(Ops)
      BY <2>2, EachOps
    <2> QED BY <1>1, <1>4, <2>1, <2>3 DEF create, svars, Enter, Idle
  <1>5. CASE find(t)
    BY <1>1, <1>5 DEF find, svars, Idle
  <1>6. CASE removeAll(t)
    <2>1. Each("disconnect", list) \in Seq(Ops) /\ Destroy(list) \in Seq(Ops)
      BY <1>1, EachOps, DestroyOps
    <2>2. Each("disconnect", list) \o Destroy(list) \in Seq(Ops)
      BY <2>1
    <2>3. list' \in Seq(Sessions)
      BY <1>6 DEF removeAll
    <2> QED BY <1>6, <2>2, <2>3 DEF removeAll, svars, Enter, Idle
  <1>7. CASE bulk(t)
    <2>1. /\ Each("disconnect", list) \in Seq(Ops) /\ Each("connect", list) \in Seq(Ops)
          /\ Each("reconnect", list) \in Seq(Ops)
      BY <1>1, EachOps
    <2>2. Each("disconnect", list) \o Each("reconnect", list) \in Seq(Ops)
      BY <2>1
    <2> QED BY <1>1, <1>7, <2>1, <2>2 DEF bulk, svars, Enter, Idle
  <1>8. ASSUME NEW s \in Sessions, sessionCall(t, s)
        PROVE  /\ UNCHANGED <<list, flag, barred, st, dev>> /\ todo[t] = <<>>
               /\ \E ops \in Seq(Ops) : Enter(t, ops)
    BY <1>2, <1>3, <1>8 DEF sessionCall, svars, Enter, Idle
  <1>9. ASSUME NEW s \in Sessions, retry(t, s)
        PROVE  /\ UNCHANGED <<list, flag, barred, st, dev>> /\ todo[t] = <<>>
               /\ \E ops \in Seq(Ops) : Enter(t, ops)
    BY <1>3, <1>9 DEF retry, svars, Enter, Idle
  <1>10. ASSUME NEW s \in Sessions, removeSession(t, s)
         PROVE  /\ list' \in Seq(Sessions) /\ UNCHANGED <<flag, barred, st, dev>> /\ todo[t] = <<>>
                /\ \E ops \in Seq(Ops) : Enter(t, ops)
    <2>1. PICK k \in DOMAIN list : list' = RemoveAt(list, k)
      BY <1>10 DEF removeSession
    <2>2. list' \in Seq(Sessions)
      BY <1>1, <2>1, RemoveAtList
    <2>3. <<Do("disconnect", s)>> \in Seq(Ops) /\ <<s>> \in Seq(Sessions)
      BY <1>2
    <2>4. Destroy(<<s>>) \in Seq(Ops)
      BY <2>3, DestroyOps
    <2>5. <<Do("disconnect", s)>> \o Destroy(<<s>>) \in Seq(Ops)
      BY <2>3, <2>4
    <2> QED BY <1>10, <2>2, <2>5 DEF removeSession, svars, Enter, Idle
  <1> QED BY <1>1, <1>4, <1>5, <1>6, <1>7, <1>8, <1>9, <1>10 DEF ThreadCalls

\* A call that begins: its operations are those it enters with, the others have theirs.
LEMMA EnterEntries ==
  ASSUME Linked, NEW t \in Threads, NEW ops \in Seq(Ops), Enter(t, ops)
  PROVE  /\ todo' \in [Threads -> Seq(Ops)] /\ at' \in [Threads -> Labels]
         /\ todo'[t] = ops /\ at'[t] = "begin" /\ todo[t] = <<>>
         /\ \A u \in Threads \ {t} : todo'[u] = todo[u] /\ at'[u] = at[u]
  <1>1. "begin" \in Labels
    BY DEF Labels
  <1> QED BY <1>1 DEF Enter, Idle, Linked

\* Operations keep their place in a step.
LEMMA StepWithin ==
  ASSUME Linked, NEW t \in Threads, Step(t)
  PROVE  Within(t) /\ It(t) \in Sessions /\ list' \in Seq(Sessions)
  <1>1. todo \in [Threads -> Seq(Ops)] /\ at \in [Threads -> Labels] /\ list \in Seq(Sessions)
    BY DEF Linked
  <1>2. todo[t] # <<>>
    BY DEF Step, connectTest, connectClear, connectState, connectOpen, connectEnd, disconnectTest,
           disconnectFlag, disconnectClose, disconnectState, cancelFlag, cancelState, executeCancelled,
           executeCheck, executeBusy, executeDevice, executeEnd, free, add, At
  <1>3. It(t) \in Sessions
    BY <1>1, <1>2, HeadEntry
  <1>4. \E x \in Labels : Goto(t, x) \/ Done(t) \/ Fail(t)
    <2>1. {"clear", "connecting", "open", "flag", "close", "state", "check", "busy", "device",
           "ready", "error"} \subseteq Labels
      BY DEF Labels
    <2> QED BY <2>1 DEF Step, connectTest, connectClear, connectState, connectOpen, connectEnd, disconnectTest,
           disconnectFlag, disconnectClose, disconnectState, cancelFlag, cancelState, executeCancelled,
           executeCheck, executeBusy, executeDevice, executeEnd, free, add
  <1>5. Within(t)
    BY <1>1, <1>2, <1>4, GotoWithin, DoneWithin, FailWithin
  <1>6. list' \in Seq(Sessions)
    <2>1. CASE add(t)
      BY <1>1, <1>3, <2>1, AppendProperties DEF add
    <2>2. CASE ~add(t)
      BY <1>1, <2>2 DEF Step, connectTest, connectClear, connectState, connectOpen, connectEnd, disconnectTest,
           disconnectFlag, disconnectClose, disconnectState, cancelFlag, cancelState, executeCancelled,
           executeCheck, executeBusy, executeDevice, executeEnd, free, Keep
    <2> QED BY <2>1, <2>2
  <1> QED BY <1>3, <1>5, <1>6

\* Calls stay sequences of operations.
LEMMA LinkedStep == Linked /\ [DNext]_dvars => Linked'
  <1> SUFFICES ASSUME Linked, [DNext]_dvars PROVE Linked'
    OBVIOUS
  <1>1. ASSUME NEW t \in Threads, Step(t) PROVE Linked'
    BY <1>1, StepWithin DEF Linked, Within
  <1>2. ASSUME NEW t \in Threads, ThreadCalls(t) PROVE Linked'
    <2>1. list' \in Seq(Sessions) /\ (UNCHANGED <<todo, at>> \/ \E ops \in Seq(Ops) : Enter(t, ops))
      BY <1>2, CallOps
    <2>2. CASE UNCHANGED <<todo, at>>
      BY <2>1, <2>2 DEF Linked
    <2>3. ASSUME NEW ops \in Seq(Ops), Enter(t, ops) PROVE Linked'
      BY <2>1, <2>3, EnterEntries DEF Linked
    <2> QED BY <2>1, <2>2, <2>3
  <1>3. CASE UNCHANGED dvars
    BY <1>3 DEF dvars, Linked
  <1> QED BY <1>1, <1>2, <1>3 DEF DNext

\* A thread that calls begins no connect() yet.
LEMMA CallBars == ASSUME Linked, Barred, NEW t \in Threads, ThreadCalls(t) PROVE Barred'
  <1>1. /\ UNCHANGED <<flag, barred>> /\ todo[t] = <<>>
        /\ UNCHANGED <<todo, at>> \/ \E ops \in Seq(Ops) : Enter(t, ops)
    BY CallOps
  <1>2. CASE UNCHANGED <<todo, at>>
    BY <1>1, <1>2 DEF Barred, connectingTo, It
  <1>3. ASSUME NEW ops \in Seq(Ops), Enter(t, ops) PROVE Barred'
    <2>1. /\ at'[t] = "begin"
          /\ \A u \in Threads \ {t} : todo'[u] = todo[u] /\ at'[u] = at[u]
      BY <1>3, EnterEntries
    <2>2. \A s \in Sessions : connectingTo(s)' => connectingTo(s)
      BY <2>1 DEF connectingTo, It
    <2> QED BY <1>1, <2>2 DEF Barred
  <1> QED BY <1>1, <1>2, <1>3

\* The inductive invariant of the cancels.
BarInv == Linked /\ Barred

\* The bar is kept by every step.
LEMMA BarInvStep == BarInv /\ [DNext]_dvars => BarInv'
  <1> SUFFICES ASSUME BarInv, [DNext]_dvars PROVE Barred'
    BY LinkedStep DEF BarInv
  <1>1. CASE DNext
    BY <1>1, BarStep, CallBars DEF DNext, BarInv
  <1>2. CASE UNCHANGED dvars
    BY <1>2 DEF dvars, BarInv, Barred, connectingTo, It
  <1> QED BY <1>1, <1>2

\* An operation that gets past its first test has found m_cancelled clear.
LEMMA PastTheTest ==
  ASSUME BarInv, [DNext]_dvars, NEW t \in Threads, At(t, Kinds, "begin"), at'[t] = "check"
  PROVE  ~barred[It(t)]
  <1>1. Linked /\ todo[t] # <<>> /\ at[t] = "begin" /\ Head(todo[t]).op \in Kinds
    BY DEF BarInv, At
  <1>2. PICK u \in Threads : ThreadCalls(u) \/ Step(u)
    <2>1. ~UNCHANGED dvars
      BY <1>1 DEF dvars
    <2> QED BY <2>1 DEF DNext
  <1>3. u = t
    <2>1. CASE Step(u)
      BY <1>1, <2>1, StepWithin DEF Within
    <2>2. CASE ThreadCalls(u)
      BY <1>1, <2>2, CallOps, EnterEntries
    <2> QED BY <1>2, <2>1, <2>2
  <1>4. Step(t)
    BY <1>1, <1>2, <1>3, CallOps
  <1>5. executeCancelled(t)
    BY <1>1, <1>4, KindsApart
       DEF Step, connectTest, connectClear, connectState, connectOpen, connectEnd, disconnectTest,
           disconnectFlag, disconnectClose, disconnectState, cancelFlag, cancelState,
           executeCheck, executeBusy, executeDevice, executeEnd, free, add, At, Connecting
  <1>6. ~flag[It(t)]
    <2>1. CASE flag[It(t)]
      <3>1. Fail(t)
        BY <1>5, <2>1 DEF executeCancelled, checkCancelled
      <3> QED BY <1>1, <3>1 DEF Fail, Linked
    <2> QED BY <2>1
  <1>7. It(t) \in Sessions
    BY <1>1, HeadEntry DEF Linked
  <1> QED BY <1>6, <1>7 DEF BarInv, Barred

\* A cancel() that no connect() overlapped holds until the next connect() begins: no
\* operation of the session gets past its test of m_cancelled, whatever the threads do and
\* whatever the interrupted operation stores as the state (DeviceSession::cancel,
\* executeWithStateCheck).  No discipline of the clients is assumed.
THEOREM CancelsHold == DSpec => CancelHolds
  <1>1. DInit => BarInv
    BY DEF DInit, BarInv, Linked, Barred, connectingTo, Labels
  <1>2. BarInv /\ [DNext]_dvars => BarInv'
    BY BarInvStep
  <1>3. BarInv /\ [DNext]_dvars =>
          [\A t \in Threads : (At(t, Kinds, "begin") /\ at'[t] = "check") => ~barred[It(t)]]_dvars
    BY PastTheTest
  <1> QED BY <1>1, <1>2, <1>3, PTL DEF DSpec, CancelHolds

------------------------------------------------------------------------------
(* Sessions are sound: steps inside an operation.                          *)

\* No two threads come to work on one session.
LEMMA ApartWithin ==
  ASSUME Linked, Apart, NEW t \in Threads, Within(t)
  PROVE  Apart'
  <1> SUFFICES ASSUME NEW u \in Threads, NEW v \in Threads, u # v,
                      NEW k \in DOMAIN todo'[u], NEW l \in DOMAIN todo'[v], todo'[u][k].s = todo'[v][l].s
               PROVE  todo'[u][k].op = "cancel" \/ todo'[v][l].op = "cancel"
    BY DEF Apart
  <1>1. todo \in [Threads -> Seq(Ops)]
    BY DEF Linked
  <1>2. PICK i \in DOMAIN todo[u] : todo'[u][k] = todo[u][i]
    BY <1>1, WithinEntries
  <1>3. PICK j \in DOMAIN todo[v] : todo'[v][l] = todo[v][j]
    BY <1>1, WithinEntries
  <1> QED BY <1>2, <1>3 DEF Apart

\* The session of the first operation of t is used by no other thread, unless one of
\* the two is a cancel().
LEMMA HeadIsApart ==
  ASSUME Linked, Apart, NEW t \in Threads, todo[t] # <<>>, NEW u \in Threads \ {t},
         NEW k \in DOMAIN todo[u], todo[u][k].s = It(t), Head(todo[t]).op # "cancel"
  PROVE  todo[u][k].op = "cancel"
  <1>1. 1 \in DOMAIN todo[t] /\ Head(todo[t]) = todo[t][1] /\ It(t) = todo[t][1].s
    BY HeadEntry DEF Linked
  <1> QED BY <1>1 DEF Apart

\* What a step of t inside an operation may do to the devices: only to that of its own
\* session, which only a connect() or an operation of the device leaves other than closed;
\* a disconnect() that is done has closed it, and a reconnect() opens it last.
Tidy(t) ==
    /\ \A x \in Sessions : dev'[x] # dev[x] =>
          x = It(t) /\ (dev'[x] = "closed" \/ Head(todo[t]).op \in Connecting \cup Kinds)
    /\ Goes1(t) /\ Head(todo[t]).op = "reconnect" /\ at'[t] \in Preparing =>
          at[t] \in Preparing /\ dev' = dev
    /\ Does1(t) => dev' = dev /\ (Head(todo[t]).op = "disconnect" => dev[It(t)] = "closed")

\* The device of a session for which the operation at k waits stays closed.
LEMMA StaysClosed ==
  ASSUME Linked, Apart, NEW t \in Threads, Within(t), Tidy(t), NEW u \in Threads, NEW k \in DOMAIN todo[u],
         todo[u][k].op \in {"reconnect", "free"}, u = t => todo[t][1].s # todo[t][k].s,
         dev[todo[u][k].s] = "closed"
  PROVE  dev'[todo[u][k].s] = "closed"
  <1> DEFINE x == todo[u][k].s
  <1>1. todo[t] # <<>> /\ It(t) = todo[t][1].s
    BY HeadEntry DEF Linked, Within
  <1>2. x \in Sessions
    <2>1. todo[u] \in Seq(Ops)
      BY DEF Linked
    <2>2. todo[u][k] \in Ops
      BY <2>1
    <2> QED BY <2>2 DEF Ops
  <1>3. CASE dev'[x] = dev[x]
    BY <1>3
  <1>4. CASE dev'[x] # dev[x]
    <2>1. x = It(t) /\ (dev'[x] = "closed" \/ Head(todo[t]).op \in Connecting \cup Kinds)
      BY <1>2, <1>4 DEF Tidy
    <2>2. u # t
      BY <1>1, <2>1
    <2>3. Head(todo[t]).op = "cancel"
      BY <1>1, <2>1, <2>2, HeadIsApart
    <2> QED BY <2>1, <2>3, KindsApart DEF Connecting
  <1> QED BY <1>3, <1>4

\* Operations stay prepared through such a step.
LEMMA PreparedWithin ==
  ASSUME Linked, Apart, Prepared, NEW t \in Threads, Within(t), Tidy(t)
  PROVE  Prepared'
  <1> SUFFICES ASSUME NEW u \in Threads, NEW k \in DOMAIN todo'[u]
               PROVE  Preparedness(todo[u], at[u], k)'
    BY DEF Prepared
  <1>1. todo \in [Threads -> Seq(Ops)] /\ todo[t] # <<>>
    BY DEF Linked, Within
  <1>2. /\ todo[t] \in Seq(Ops) /\ Len(todo[t]) \in Nat /\ Len(todo[t]) >= 1
        /\ DOMAIN todo[t] = 1..Len(todo[t]) /\ Head(todo[t]) = todo[t][1] /\ It(t) = todo[t][1].s
        /\ todo[t][1].s \in Sessions
    BY <1>1, HeadEntry
  <1>3. CASE u # t
    <2>1. todo'[u] = todo[u] /\ at'[u] = at[u] /\ k \in DOMAIN todo[u]
      BY <1>3 DEF Within
    <2>2. Preparedness(todo[u], at[u], k)
      BY <2>1 DEF Prepared
    <2>3. todo[u][k].op \in {"reconnect", "free"} /\ dev[todo[u][k].s] = "closed" => dev'[todo[u][k].s] = "closed"
      BY <1>3, <2>1, StaysClosed
    <2> QED BY <2>1, <2>2, <2>3 DEF Preparedness
  <1>4. CASE u = t /\ Goes1(t)
    <2>1. todo'[t] = todo[t] /\ k \in 1..Len(todo[t])
      BY <1>2, <1>4 DEF Goes1
    <2>2. Preparedness(todo[t], at[t], k)
      BY <1>2, <2>1 DEF Prepared
    <2>3. CASE k = 1
      <3>1. todo[t][1].op = "reconnect" => at'[t] \notin Preparing \/ dev'[todo[t][1].s] = "closed"
        <4>1. todo[t][1].op = "reconnect" /\ at'[t] \in Preparing => at[t] \in Preparing /\ dev' = dev
          BY <1>2, <1>4 DEF Tidy
        <4>2. todo[t][1].op = "reconnect" /\ at[t] \in Preparing => dev[todo[t][1].s] = "closed"
          BY <2>2, <2>3 DEF Preparedness
        <4> QED BY <4>1, <4>2
      <3>2. todo[t][1].op = "free" => dev'[todo[t][1].s] = "closed"
        <4>1. todo[t][1].op = "free" => dev[todo[t][1].s] = "closed"
          BY <2>2, <2>3 DEF Preparedness
        <4> QED BY <1>2, <4>1, KindsApart DEF Tidy, Connecting
      <3> QED BY <1>4, <2>1, <2>2, <2>3, <3>1, <3>2 DEF Preparedness
    <2>4. CASE k # 1
      <3>1. ASSUME todo[t][k].op = "reconnect", dev[todo[t][k].s] = "closed",
                   ~\E j \in 1..(k - 1) : todo[t][j].s = todo[t][k].s
            PROVE  dev'[todo[t][k].s] = "closed"
        <4>1. 1 \in 1..(k - 1)
          BY <1>2, <2>1, <2>4
        <4>2. todo[t][1].s # todo[t][k].s
          BY <3>1, <4>1
        <4> QED BY <1>2, <2>1, <3>1, <4>2, StaysClosed
      <3> QED BY <1>4, <2>1, <2>2, <2>4, <3>1 DEF Preparedness
    <2> QED BY <2>3, <2>4
  <1>5. CASE u = t /\ Does1(t)
    <2>1. /\ todo'[t] = Tail(todo[t]) /\ at'[t] = "begin" /\ dev' = dev
          /\ todo[t][1].op = "disconnect" => dev[todo[t][1].s] = "closed"
      BY <1>2, <1>5 DEF Does1, Tidy
    <2>2. /\ k \in 1..(Len(todo[t]) - 1) /\ k + 1 \in DOMAIN todo[t]
          /\ \A j \in 1..k : todo'[t][j] = todo[t][j + 1]
      <3>1. /\ DOMAIN todo'[t] = 1..(Len(todo[t]) - 1)
            /\ \A j \in 1..(Len(todo[t]) - 1) : todo'[t][j] = todo[t][j + 1] /\ j + 1 \in DOMAIN todo[t]
        BY <1>1, <2>1, TailEntries
      <3>2. k \in 1..(Len(todo[t]) - 1)
        BY <1>5, <3>1
      <3>3. \A j \in 1..k : j \in 1..(Len(todo[t]) - 1)
        BY <1>2, <3>2
      <3> QED BY <3>1, <3>2, <3>3
    <2> DEFINE e == todo[t][k + 1]
    <2>3. Preparedness(todo[t], at[t], k + 1)
      BY <2>2 DEF Prepared
    <2>4. k \in Nat /\ k >= 1 /\ k + 1 # 1 /\ k + 1 > 1 /\ (k + 1) - 1 = k /\ todo'[t][k] = e
      BY <2>2
    <2>5. ASSUME e.op = "reconnect"
          PROVE  /\ \A j \in 1..(k - 1) : todo'[t][j].s = e.s => todo'[t][j].op = "disconnect"
                 /\ dev[e.s] = "closed" \/ \E j \in 1..(k - 1) : todo'[t][j].s = e.s
      <3>1. /\ \A j \in 1..k : todo[t][j].s = e.s => todo[t][j].op = "disconnect"
            /\ dev[e.s] = "closed" \/ \E j \in 1..k : todo[t][j].s = e.s
        BY <2>3, <2>4, <2>5 DEF Preparedness
      <3>2. ASSUME NEW j \in 1..(k - 1), todo'[t][j].s = e.s PROVE todo'[t][j].op = "disconnect"
        <4>1. j \in 1..k /\ j + 1 \in 1..k
          BY <2>4
        <4> QED BY <2>2, <3>1, <3>2, <4>1
      <3>3. ASSUME NEW j \in 1..k, todo[t][j].s = e.s
            PROVE  dev[e.s] = "closed" \/ \E i \in 1..(k - 1) : todo'[t][i].s = e.s
        <4>1. CASE j = 1
          BY <2>1, <3>1, <3>3, <4>1
        <4>2. CASE j # 1
          <5>1. j - 1 \in 1..(k - 1) /\ j - 1 \in 1..k /\ (j - 1) + 1 = j
            BY <2>4, <4>2
          <5>2. todo'[t][j - 1] = todo[t][j]
            BY <2>2, <5>1
          <5> QED BY <3>3, <5>1, <5>2
        <4> QED BY <4>1, <4>2
      <3> QED BY <3>1, <3>2, <3>3
    <2>6. ASSUME e.op = "free"
          PROVE  \/ k = 1 /\ dev[e.s] = "closed"
                 \/ k > 1 /\ todo'[t][k - 1].op = "disconnect" /\ todo'[t][k - 1].s = e.s
      <3>1. todo[t][k].op = "disconnect" /\ todo[t][k].s = e.s
        BY <2>3, <2>4, <2>6 DEF Preparedness
      <3>2. CASE k = 1
        BY <2>1, <3>1, <3>2
      <3>3. CASE k # 1
        <4>1. k > 1 /\ k - 1 \in 1..k /\ (k - 1) + 1 = k
          BY <2>4, <3>3
        <4>2. todo'[t][k - 1] = todo[t][k]
          BY <2>2, <4>1
        <4> QED BY <3>1, <4>1, <4>2
      <3> QED BY <3>2, <3>3
    <2>7. ASSUME e.op = "create", NEW j \in 1..(k - 1) PROVE todo'[t][j].s # e.s
      <3>1. \A i \in 1..k : todo[t][i].s # e.s
        BY <2>3, <2>4, <2>7 DEF Preparedness
      <3>2. j \in 1..k /\ j + 1 \in 1..k
        BY <2>4
      <3> QED BY <2>2, <3>1, <3>2
    <2> HIDE DEF e
    <2> QED BY <1>5, <2>1, <2>4, <2>5, <2>6, <2>7 DEF Preparedness
  <1>6. CASE u = t /\ Ends1(t)
    BY <1>6 DEF Ends1
  <1> QED BY <1>3, <1>4, <1>5, <1>6 DEF Within

\* What such a step may do to the states: only to that of its own session; the state
\* Disconnected is that of a closed device, which a cancel() neither stores nor opens.
Orderly(t) ==
    /\ \A x \in Sessions : st'[x] # st[x] \/ dev'[x] # dev[x] => x = It(t)
    /\ st'[It(t)] = "Disconnected" => dev'[It(t)] = "closed"
    /\ Head(todo[t]).op = "cancel" => dev' = dev /\ (st'[It(t)] # "Disconnected" \/ st' = st)
    /\ Goes1(t) /\ Head(todo[t]).op \in Connecting /\ at'[t] = "open" => st'[It(t)] # "Disconnected"
    /\ Goes1(t) /\ Head(todo[t]).op = "disconnect" /\ at'[t] = "state" => dev'[It(t)] = "closed"

\* States and devices stay in agreement through such a step.
LEMMA SettledWithin ==
  ASSUME Linked, Apart, Settled, NEW t \in Threads, Within(t), Orderly(t)
  PROVE  Settled'
  <1>1. /\ todo[t] # <<>> /\ It(t) \in Sessions
        /\ \A u \in Threads : todo[u] # <<>> => 1 \in DOMAIN todo[u] /\ Head(todo[u]) = todo[u][1] /\ It(u) = todo[u][1].s
                                                 /\ It(u) \in Sessions
    BY HeadEntry DEF Linked, Within
  <1>2. ASSUME NEW s \in Sessions, st'[s] = "Disconnected" PROVE dev'[s] = "closed"
    <2>1. CASE s = It(t)
      BY <1>2, <2>1 DEF Orderly
    <2>2. CASE s # It(t)
      BY <1>2, <2>2 DEF Orderly, Settled
    <2> QED BY <2>1, <2>2
  <1>3. ASSUME NEW u \in Threads, At(u, Connecting, "open")' PROVE st'[It(u)'] # "Disconnected"
    <2>1. CASE u = t
      <3>1. Goes1(t) /\ Head(todo[t]).op \in Connecting /\ at'[t] = "open" /\ It(t)' = It(t)
        BY <1>3, <2>1 DEF At, Within, Does1, Ends1, Goes1, It
      <3> QED BY <2>1, <3>1 DEF Orderly
    <2>2. CASE u # t
      <3>1. At(u, Connecting, "open") /\ It(u)' = It(u) /\ todo[u] # <<>> /\ Head(todo[u]).op \in Connecting
        BY <1>3, <2>2 DEF Within, At, It
      <3>2. st[It(u)] # "Disconnected" /\ It(u) \in Sessions
        BY <1>1, <3>1 DEF Settled
      <3>3. CASE It(u) # It(t)
        BY <3>1, <3>2, <3>3 DEF Orderly
      <3>4. CASE It(u) = It(t)
        <4>1. Head(todo[t]).op = "cancel"
          BY <1>1, <2>2, <3>1, <3>4, HeadIsApart DEF Connecting
        <4> QED BY <3>1, <3>2, <3>4, <4>1 DEF Orderly
      <3> QED BY <3>3, <3>4
    <2> QED BY <2>1, <2>2
  <1>4. ASSUME NEW u \in Threads, At(u, {"disconnect"}, "state")' PROVE dev'[It(u)'] = "closed"
    <2>1. CASE u = t
      <3>1. Goes1(t) /\ Head(todo[t]).op = "disconnect" /\ at'[t] = "state" /\ It(t)' = It(t)
        BY <1>4, <2>1 DEF At, Within, Does1, Ends1, Goes1, It
      <3> QED BY <2>1, <3>1 DEF Orderly
    <2>2. CASE u # t
      <3>1. At(u, {"disconnect"}, "state") /\ It(u)' = It(u) /\ todo[u] # <<>> /\ Head(todo[u]).op = "disconnect"
        BY <1>4, <2>2 DEF Within, At, It
      <3>2. dev[It(u)] = "closed" /\ It(u) \in Sessions
        BY <1>1, <3>1 DEF Settled
      <3>3. CASE It(u) # It(t)
        BY <3>1, <3>2, <3>3 DEF Orderly
      <3>4. CASE It(u) = It(t)
        <4>1. Head(todo[t]).op = "cancel"
          BY <1>1, <2>2, <3>1, <3>4, HeadIsApart
        <4> QED BY <3>1, <3>2, <3>4, <4>1 DEF Orderly
      <3> QED BY <3>3, <3>4
    <2> QED BY <2>1, <2>2
  <1> QED BY <1>2, <1>3, <1>4 DEF Settled

\* The operations of a session that stays where it is.
LEMMA PlacedWithin ==
  ASSUME Linked, Placed, NEW t \in Threads, Within(t), UNCHANGED <<list, where>>
  PROVE  Placed'
  <1>1. ASSUME NEW u \in Threads, NEW k \in DOMAIN todo'[u] PROVE Goes(todo[u][k])'
    <2>1. PICK l \in DOMAIN todo[u] : todo'[u][k] = todo[u][l]
      BY WithinEntries DEF Linked
    <2>2. Goes(todo[u][l])
      BY DEF Placed
    <2> QED BY <2>1, <2>2 DEF Goes
  <1> QED BY <1>1 DEF Placed

\* A destroyed session is not opened again.
LEMMA GoneWithin ==
  ASSUME Linked, Placed, RemovedIsClosed, NEW t \in Threads, Within(t), Tidy(t), UNCHANGED where
  PROVE  RemovedIsClosed'
  <1> SUFFICES ASSUME NEW s \in Sessions, where[s] = "gone" PROVE dev'[s] = "closed"
    BY DEF RemovedIsClosed
  <1>1. dev[s] = "closed"
    BY DEF RemovedIsClosed
  <1>2. CASE dev'[s] # dev[s]
    <2>1. s = It(t) /\ (dev'[s] = "closed" \/ Head(todo[t]).op \in Connecting \cup Kinds)
      BY <1>2 DEF Tidy
    <2>2. 1 \in DOMAIN todo[t] /\ Head(todo[t]) = todo[t][1] /\ It(t) = todo[t][1].s
      BY HeadEntry DEF Linked, Within
    <2>3. Goes(todo[t][1])
      BY <2>2 DEF Placed
    <2>4. Head(todo[t]).op \in {"disconnect", "free"}
      BY <2>1, <2>2, <2>3 DEF Goes
    <2> QED BY <2>1, <2>4, KindsApart DEF Connecting
  <1> QED BY <1>1, <1>2

\* A step inside an operation that is tidy and orderly keeps the invariant.
LEMMA SoundWithin ==
  ASSUME SInv, NEW t \in Threads, Within(t), Tidy(t), Orderly(t), UNCHANGED <<list, where>>,
         st' \in [Sessions -> States], dev' \in [Sessions -> {"closed", "open", "reset"}]
  PROVE  SInv'
  <1>1. Linked /\ Apart /\ Placed /\ Prepared /\ Settled /\ RemovedIsClosed
    BY DEF SInv, Types
  <1>2. Types'
    BY DEF SInv, Types, Linked, Within
  <1>3. Apart' /\ Prepared' /\ Settled' /\ Placed' /\ RemovedIsClosed'
    BY <1>1, ApartWithin, PreparedWithin, SettledWithin, PlacedWithin, GoneWithin
  <1> QED BY <1>2, <1>3 DEF SInv

\* How a step leaves the call, by the way it ends.
LEMMA Ways ==
  ASSUME Linked, NEW t \in Threads, todo[t] # <<>>
  PROVE  /\ \A x \in Labels : Goto(t, x) => Goes1(t) /\ at'[t] = x /\ (x # "begin" => ~Does1(t))
         /\ Done(t) => ~Goes1(t)
         /\ Fail(t) => ~Goes1(t)
  <1>1. todo \in [Threads -> Seq(Ops)] /\ at \in [Threads -> Labels]
    BY DEF Linked
  <1>2. ASSUME NEW x \in Labels, Goto(t, x) PROVE Goes1(t) /\ at'[t] = x /\ (x # "begin" => ~Does1(t))
    BY <1>1, <1>2, GotoWithin DEF Does1
  <1>3. ASSUME Done(t) PROVE ~Goes1(t)
    <2>1. todo'[t] = Tail(todo[t])
      BY <1>1, <1>3, DoneWithin DEF Does1
    <2>2. Len(Tail(todo[t])) = Len(todo[t]) - 1 /\ Len(todo[t]) \in Nat
      BY <1>1, TailEntries, HeadEntry
    <2>3. ASSUME NEW a, NEW b, Len(a) = Len(b) - 1, Len(b) \in Nat PROVE a # b
      BY <2>3
    <2> QED BY <2>1, <2>2, <2>3, Zenon DEF Goes1
  <1>4. ASSUME Fail(t) PROVE ~Goes1(t)
    BY <1>1, <1>4, FailWithin DEF Ends1, Goes1
  <1> QED BY <1>2, <1>3, <1>4

\* The steps of connect().
LEMMA ConnectSound ==
  ASSUME SInv, NEW t \in Threads, Within(t), It(t) \in Sessions,
         connectTest(t) \/ connectClear(t) \/ connectState(t) \/ connectOpen(t) \/ connectEnd(t)
  PROVE  SInv'
  <1>1. /\ Linked /\ todo[t] # <<>> /\ Settled
        /\ st \in [Sessions -> States] /\ dev \in [Sessions -> {"closed", "open", "reset"}]
    BY DEF SInv, Types, Within
  <1>2. /\ \A x \in {"clear", "connecting", "open", "ready", "error"} :
              Goto(t, x) => Goes1(t) /\ at'[t] = x /\ ~Does1(t)
        /\ Done(t) => ~Goes1(t)
        /\ Fail(t) => ~Goes1(t)
    <2>1. \A x \in {"clear", "connecting", "open", "ready", "error"} : x \in Labels /\ x # "begin"
      BY DEF Labels
    <2> QED BY <1>1, <2>1, Ways
  <1>3. Head(todo[t]).op \in Connecting /\ Head(todo[t]).op # "disconnect" /\ Head(todo[t]).op # "cancel"
    BY DEF connectTest, connectClear, connectState, connectOpen, connectEnd, At, Connecting
  <1>4. st[It(t)] = "Disconnected" => dev[It(t)] = "closed"
    BY <1>1 DEF Settled
  <1>5. {"Ready", "Error", "Connecting"} \subseteq States
    BY DEF States
  <1>6. CASE connectTest(t) \/ connectClear(t)
    <2>1. /\ st' = st /\ dev' = dev /\ UNCHANGED <<list, where>> /\ at[t] \in Preparing
          /\ (Goto(t, "clear") \/ Goto(t, "connecting") \/ Done(t) \/ Fail(t))
      BY <1>6 DEF connectTest, connectClear, svars, Keep, At, Preparing
    <2>2. Tidy(t)
      BY <1>3, <2>1 DEF Tidy
    <2>3. Orderly(t)
      BY <1>2, <1>3, <1>4, <2>1 DEF Orderly
    <2> QED BY <1>1, <2>1, <2>2, <2>3, SoundWithin
  <1>7. CASE connectState(t)
    <2>1. /\ st' = [st EXCEPT ![It(t)] = "Connecting"] /\ dev' = dev /\ UNCHANGED <<list, where>>
          /\ at[t] \in Preparing
      BY <1>7 DEF connectState, setState, Keep, At, Preparing
    <2>2. Tidy(t)
      BY <1>3, <2>1 DEF Tidy
    <2>3. Orderly(t)
      BY <1>1, <1>3, <2>1 DEF Orderly
    <2>4. st' \in [Sessions -> States]
      BY <1>1, <1>5, <2>1
    <2> QED BY <1>1, <2>1, <2>2, <2>3, <2>4, SoundWithin
  <1>8. CASE connectOpen(t)
    <2>1. /\ st' = st /\ UNCHANGED <<list, where>> /\ (Goto(t, "ready") \/ Goto(t, "error"))
          /\ dev' = dev \/ dev' = [dev EXCEPT ![It(t)] = "open"]
          /\ At(t, Connecting, "open")
      BY <1>8 DEF connectOpen, Keep
    <2>2. st[It(t)] # "Disconnected"
      BY <1>1, <2>1 DEF Settled
    <2>3. Goes1(t) /\ ~Does1(t) /\ at'[t] \in {"ready", "error"}
      BY <1>2, <2>1
    <2>4. \A x \in Sessions : dev'[x] # dev[x] => x = It(t)
      BY <1>1, <2>1
    <2>5. Tidy(t)
      BY <1>3, <2>3, <2>4 DEF Tidy, Preparing
    <2>6. Orderly(t)
      BY <1>3, <2>1, <2>2, <2>3, <2>4 DEF Orderly
    <2>7. dev' \in [Sessions -> {"closed", "open", "reset"}]
      BY <1>1, <2>1
    <2> QED BY <1>1, <2>1, <2>5, <2>6, <2>7, SoundWithin
  <1>9. CASE connectEnd(t)
    <2>1. /\ dev' = dev /\ UNCHANGED <<list, where>> /\ (Done(t) \/ Fail(t))
          /\ \E x \in {"Ready", "Error"} : st' = [st EXCEPT ![It(t)] = x]
      BY <1>9 DEF connectEnd, setState, Keep
    <2>2. ~Goes1(t)
      BY <1>2, <2>1
    <2>3. Tidy(t)
      BY <1>3, <2>1, <2>2 DEF Tidy
    <2>4. Orderly(t)
      BY <1>1, <1>3, <2>1, <2>2 DEF Orderly
    <2>5. st' \in [Sessions -> States]
      BY <1>1, <1>5, <2>1
    <2> QED BY <1>1, <2>1, <2>3, <2>4, <2>5, SoundWithin
  <1> QED BY <1>6, <1>7, <1>8, <1>9

\* The steps of disconnect() and of cancel().
LEMMA DisconnectSound ==
  ASSUME SInv, NEW t \in Threads, Within(t), It(t) \in Sessions,
         \/ disconnectTest(t) \/ disconnectFlag(t) \/ disconnectClose(t) \/ disconnectState(t)
         \/ cancelFlag(t) \/ cancelState(t)
  PROVE  SInv'
  <1>1. /\ Linked /\ todo[t] # <<>> /\ Settled
        /\ st \in [Sessions -> States] /\ dev \in [Sessions -> {"closed", "open", "reset"}]
    BY DEF SInv, Types, Within
  <1>2. /\ \A x \in {"flag", "close", "state"} : Goto(t, x) => Goes1(t) /\ at'[t] = x /\ ~Does1(t)
        /\ Done(t) => ~Goes1(t)
    <2>1. \A x \in {"flag", "close", "state"} : x \in Labels /\ x # "begin"
      BY DEF Labels
    <2> QED BY <1>1, <2>1, Ways
  <1>3. Head(todo[t]).op \in {"disconnect", "cancel"} /\ Head(todo[t]).op \notin Connecting
        /\ Head(todo[t]).op # "reconnect"
    BY DEF disconnectTest, disconnectFlag, disconnectClose, disconnectState, cancelFlag, cancelState, At, Connecting
  <1>4. st[It(t)] = "Disconnected" => dev[It(t)] = "closed"
    BY <1>1 DEF Settled
  <1>5. {"Disconnected", "Cancelled"} \subseteq States
    BY DEF States
  <1>6. CASE disconnectTest(t)
    <2>1. /\ st' = st /\ dev' = dev /\ UNCHANGED <<list, where>> /\ Head(todo[t]).op = "disconnect"
          /\ \/ Goto(t, "flag")
             \/ Done(t) /\ st[It(t)] = "Disconnected"
      BY <1>6 DEF disconnectTest, settled, svars, Keep, At
    <2>2. Goes1(t) => at'[t] = "flag"
      BY <1>2, <2>1
    <2>3. Does1(t) => dev[It(t)] = "closed"
      BY <1>2, <1>4, <2>1
    <2>4. Tidy(t)
      BY <1>3, <2>1, <2>3 DEF Tidy
    <2>5. Orderly(t)
      BY <1>3, <1>4, <2>1, <2>2 DEF Orderly
    <2> QED BY <1>1, <2>1, <2>4, <2>5, SoundWithin
  <1>7. CASE disconnectFlag(t)
    <2>1. /\ st' = st /\ dev' = dev /\ UNCHANGED <<list, where>> /\ Goto(t, "close")
          /\ Head(todo[t]).op = "disconnect"
      BY <1>7 DEF disconnectFlag, Keep, At
    <2>2. ~Does1(t) /\ at'[t] = "close"
      BY <1>2, <2>1
    <2>3. Tidy(t)
      BY <1>3, <2>1, <2>2 DEF Tidy
    <2>4. Orderly(t)
      BY <1>3, <1>4, <2>1, <2>2 DEF Orderly
    <2> QED BY <1>1, <2>1, <2>3, <2>4, SoundWithin
  <1>8. CASE disconnectClose(t)
    <2>1. /\ st' = st /\ UNCHANGED <<list, where>> /\ Goto(t, "state")
          /\ dev' = [dev EXCEPT ![It(t)] = "closed"] /\ Head(todo[t]).op = "disconnect"
      BY <1>8 DEF disconnectClose, Keep, At
    <2>2. ~Does1(t)
      BY <1>2, <2>1
    <2>3. /\ dev' \in [Sessions -> {"closed", "open", "reset"}] /\ dev'[It(t)] = "closed"
          /\ \A x \in Sessions : dev'[x] # dev[x] => x = It(t)
      BY <1>1, <2>1
    <2>4. Tidy(t)
      BY <1>3, <2>1, <2>2, <2>3 DEF Tidy
    <2>5. Orderly(t)
      BY <1>3, <2>1, <2>2, <2>3 DEF Orderly
    <2> QED BY <1>1, <2>1, <2>3, <2>4, <2>5, SoundWithin
  <1>9. CASE disconnectState(t)
    <2>1. /\ st' = [st EXCEPT ![It(t)] = "Disconnected"] /\ dev' = dev /\ UNCHANGED <<list, where>>
          /\ Done(t) /\ Head(todo[t]).op = "disconnect" /\ At(t, {"disconnect"}, "state")
      BY <1>9 DEF disconnectState, setState, Keep, At
    <2>2. ~Goes1(t)
      BY <1>2, <2>1
    <2>3. dev[It(t)] = "closed"
      BY <1>1, <2>1 DEF Settled
    <2>4. Tidy(t)
      BY <1>3, <2>1, <2>2, <2>3 DEF Tidy
    <2>5. Orderly(t)
      BY <1>1, <1>3, <2>1, <2>2, <2>3 DEF Orderly
    <2>6. st' \in [Sessions -> States]
      BY <1>1, <1>5, <2>1
    <2> QED BY <1>1, <2>1, <2>4, <2>5, <2>6, SoundWithin
  <1>10. CASE cancelFlag(t)
    <2>1. /\ st' = st /\ dev' = dev /\ UNCHANGED <<list, where>> /\ Head(todo[t]).op = "cancel"
      BY <1>10 DEF cancelFlag, Keep, At
    <2>2. Tidy(t)
      BY <2>1 DEF Tidy
    <2>3. Orderly(t)
      BY <1>3, <1>4, <2>1 DEF Orderly
    <2> QED BY <1>1, <2>1, <2>2, <2>3, SoundWithin
  <1>11. CASE cancelState(t)
    <2>1. /\ st' = [st EXCEPT ![It(t)] = "Cancelled"] /\ dev' = dev /\ UNCHANGED <<list, where>>
          /\ Head(todo[t]).op = "cancel"
      BY <1>11 DEF cancelState, setState, Keep, At
    <2>2. Tidy(t)
      BY <2>1 DEF Tidy
    <2>3. Orderly(t)
      BY <1>1, <1>3, <2>1 DEF Orderly
    <2>4. st' \in [Sessions -> States]
      BY <1>1, <1>5, <2>1
    <2> QED BY <1>1, <2>1, <2>2, <2>3, <2>4, SoundWithin
  <1> QED BY <1>6, <1>7, <1>8, <1>9, <1>10, <1>11

\* The steps of the operations of the device.
LEMMA ExecuteSound ==
  ASSUME SInv, NEW t \in Threads, Within(t), It(t) \in Sessions,
         executeCancelled(t) \/ executeCheck(t) \/ executeBusy(t) \/ executeDevice(t) \/ executeEnd(t)
  PROVE  SInv'
  <1>1. /\ Linked /\ todo[t] # <<>> /\ Settled
        /\ st \in [Sessions -> States] /\ dev \in [Sessions -> {"closed", "open", "reset"}]
    BY DEF SInv, Types, Within
  <1>2. \A x \in {"ready", "error"} : Goto(t, x) => ~Does1(t)
    <2>1. \A x \in {"ready", "error"} : x \in Labels /\ x # "begin"
      BY DEF Labels
    <2> QED BY <1>1, <2>1, Ways
  <1>3. /\ Head(todo[t]).op \in Kinds /\ Head(todo[t]).op \notin Connecting
        /\ Head(todo[t]).op \notin {"disconnect", "reconnect", "cancel"}
    <2>1. Head(todo[t]).op \in Kinds
      BY DEF executeCancelled, executeCheck, executeBusy, executeDevice, executeEnd, At
    <2> QED BY <2>1, KindsApart DEF Connecting
  <1>4. st[It(t)] = "Disconnected" => dev[It(t)] = "closed"
    BY <1>1 DEF Settled
  <1>5. /\ Kinds \cup {"Ready", "Error", "Cancelled"} \subseteq States
        /\ "Disconnected" \notin Kinds \cup {"Ready", "Error", "Cancelled"}
    BY SessionAssumption DEF States, BusyStates
  <1>6. CASE executeCancelled(t) \/ executeCheck(t) \/ executeBusy(t) \/ executeEnd(t)
    <2>1. /\ dev' = dev /\ UNCHANGED <<list, where>>
          /\ st' = st \/ \E x \in Kinds \cup {"Ready", "Error", "Cancelled"} : st' = [st EXCEPT ![It(t)] = x]
      BY <1>3, <1>6 DEF executeCancelled, executeCheck, executeBusy, executeEnd, setState, svars, Keep
    <2>2. /\ st' \in [Sessions -> States]
          /\ \A x \in Sessions : st'[x] # st[x] => x = It(t) /\ st'[x] # "Disconnected"
      BY <1>1, <1>5, <2>1
    <2>3. Tidy(t)
      BY <1>3, <2>1 DEF Tidy
    <2>4. Orderly(t)
      BY <1>3, <1>4, <2>1, <2>2 DEF Orderly
    <2> QED BY <1>1, <2>1, <2>2, <2>3, <2>4, SoundWithin
  <1>7. CASE executeDevice(t)
    <2>1. /\ st' = st /\ UNCHANGED <<list, where>> /\ (Goto(t, "ready") \/ Goto(t, "error"))
          /\ \/ dev' = dev
             \/ dev[It(t)] = "open" /\ dev' = [dev EXCEPT ![It(t)] = "reset"]
      <3>1. dev[It(t)] \in {"closed", "open", "reset"}
        BY <1>1
      <3>2. [dev EXCEPT ![It(t)] = dev[It(t)]] = dev
        BY <1>1
      <3> QED BY <1>7, <3>1, <3>2 DEF executeDevice, Keep
    <2>2. ~Does1(t)
      BY <1>2, <2>1
    <2>3. /\ dev' \in [Sessions -> {"closed", "open", "reset"}]
          /\ \A x \in Sessions : dev'[x] # dev[x] => x = It(t) /\ dev[x] = "open"
      BY <1>1, <2>1
    <2>4. Tidy(t)
      BY <1>3, <2>2, <2>3 DEF Tidy
    <2>5. Orderly(t)
      BY <1>3, <1>4, <2>1, <2>3 DEF Orderly
    <2> QED BY <1>1, <2>1, <2>3, <2>4, <2>5, SoundWithin
  <1> QED BY <1>6, <1>7

\* A step that leaves states and devices alone keeps all but where the sessions are.
LEMMA QuietWithin ==
  ASSUME SInv, NEW t \in Threads, Within(t), It(t) \in Sessions, UNCHANGED <<st, dev>>,
         Head(todo[t]).op \in {"free", "create"}
  PROVE  Apart' /\ Prepared' /\ Settled'
  <1>1. Linked /\ Apart /\ Prepared /\ Settled
    BY DEF SInv, Types
  <1>2. Head(todo[t]).op \notin Connecting /\ Head(todo[t]).op \notin {"disconnect", "reconnect", "cancel"}
    BY DEF Connecting
  <1>3. Tidy(t)
    BY <1>2 DEF Tidy
  <1>4. Orderly(t)
    BY <1>1, <1>2 DEF Orderly, Settled
  <1> QED BY <1>1, <1>3, <1>4, ApartWithin, PreparedWithin, SettledWithin

\* The end of a destructor.
LEMMA FreeSound ==
  ASSUME SInv, NEW t \in Threads, Within(t), It(t) \in Sessions, free(t)
  PROVE  SInv'
  <1>1. /\ UNCHANGED <<list, st, dev>> /\ Head(todo[t]).op = "free"
        /\ where' = [where EXCEPT ![It(t)] = "gone"]
    BY DEF free, svars, At
  <1>2. /\ Linked /\ Placed /\ Prepared /\ RemovedIsClosed
        /\ where \in [Sessions -> {"none", "listed", "leaving", "gone"}]
    BY DEF SInv, Types
  <1>3. 1 \in DOMAIN todo[t] /\ todo[t][1].op = "free" /\ It(t) = todo[t][1].s
    BY <1>1, <1>2, HeadEntry DEF Linked, Within
  <1>4. where[It(t)] \in {"leaving", "gone"}
    BY <1>2, <1>3 DEF Placed, Goes
  <1>5. dev[It(t)] = "closed"
    <2>1. Preparedness(todo[t], at[t], 1)
      BY <1>2, <1>3 DEF Prepared
    <2> QED BY <1>3, <2>1 DEF Preparedness
  <1>6. where'[It(t)] = "gone" /\ \A x \in Sessions \ {It(t)} : where'[x] = where[x]
    BY <1>1, <1>2
  <1>7. Placed'
    <2>1. ASSUME NEW k \in DOMAIN list PROVE where'[list[k]] = "listed"
      <3>1. where[list[k]] = "listed" /\ list[k] \in Sessions
        BY <1>2 DEF Placed, Linked
      <3> QED BY <1>4, <1>6, <3>1
    <2>2. ASSUME NEW u \in Threads, NEW k \in DOMAIN todo'[u] PROVE Goes(todo[u][k])'
      <3>1. PICK l \in DOMAIN todo[u] : todo'[u][k] = todo[u][l]
        BY <1>2, WithinEntries DEF Linked
      <3>2. Goes(todo[u][l]) /\ todo[u][l].s \in Sessions
        <4>1. todo[u] \in Seq(Ops)
          BY <1>2 DEF Linked
        <4>2. todo[u][l] \in Ops
          BY <4>1
        <4> QED BY <1>2, <4>2 DEF Placed, Ops
      <3>3. CASE todo[u][l].s = It(t)
        BY <1>4, <1>6, <3>1, <3>2, <3>3 DEF Goes
      <3>4. CASE todo[u][l].s # It(t)
        BY <1>6, <3>1, <3>2, <3>4 DEF Goes
      <3> QED BY <3>3, <3>4
    <2> QED BY <1>1, <1>2, <2>1, <2>2 DEF Placed
  <1>8. RemovedIsClosed'
    BY <1>1, <1>2, <1>5, <1>6 DEF RemovedIsClosed
  <1>9. Types'
    BY <1>1, <1>2 DEF SInv, Types, Linked, Within
  <1>10. Apart' /\ Prepared' /\ Settled'
    BY <1>1, QuietWithin
  <1> QED BY <1>7, <1>8, <1>9, <1>10 DEF SInv

\* A session that is added to the list.
LEMMA AddSound ==
  ASSUME SInv, NEW t \in Threads, Within(t), It(t) \in Sessions, add(t)
  PROVE  SInv'
  <1>1. /\ UNCHANGED <<st, dev>> /\ Head(todo[t]).op = "create" /\ Done(t)
        /\ where' = [where EXCEPT ![It(t)] = "listed"] /\ list' = Append(list, It(t))
    BY DEF add, svars, At
  <1>2. /\ Linked /\ Apart /\ Placed /\ Prepared /\ RemovedIsClosed /\ todo[t] # <<>>
        /\ where \in [Sessions -> {"none", "listed", "leaving", "gone"}]
        /\ list \in Seq(Sessions) /\ Len(list) \in Nat /\ DOMAIN list = 1..Len(list)
    BY DEF SInv, Types, Within, Linked
  <1>3. 1 \in DOMAIN todo[t] /\ todo[t][1].op = "create" /\ It(t) = todo[t][1].s
    BY <1>1, <1>2, HeadEntry DEF Linked
  <1>4. where[It(t)] = "none"
    BY <1>2, <1>3 DEF Placed, Goes
  <1>5. where'[It(t)] = "listed" /\ \A x \in Sessions \ {It(t)} : where'[x] = where[x]
    BY <1>1, <1>2
  <1>6. /\ list' \in Seq(Sessions) /\ DOMAIN list' = 1..(Len(list) + 1)
        /\ \A k \in 1..Len(list) : list'[k] = list[k]
        /\ list'[Len(list) + 1] = It(t)
    BY <1>1, <1>2, AppendProperties
  <1>7. \A k \in 1..Len(list) : where[list[k]] = "listed" /\ list[k] \in Sessions /\ list[k] # It(t)
    BY <1>2, <1>4 DEF Placed
  <1>8. \A k \in DOMAIN list' : k \in 1..Len(list) \/ k = Len(list) + 1
    BY <1>2, <1>6
  <1>9. \A k \in DOMAIN list' : where'[list'[k]] = "listed"
    BY <1>5, <1>6, <1>7, <1>8
  <1>10. \A j, k \in DOMAIN list' : list'[j] = list'[k] => j = k
    <2>1. \A j, k \in 1..Len(list) : list[j] = list[k] => j = k
      BY <1>2 DEF Placed
    <2> QED BY <1>6, <1>7, <1>8, <2>1
  <1>11. ASSUME NEW u \in Threads, NEW k \in DOMAIN todo'[u] PROVE Goes(todo[u][k])'
    <2>1. CASE u # t
      <3>1. todo'[u] = todo[u] /\ k \in DOMAIN todo[u]
        BY <2>1 DEF Within
      <3>2. Goes(todo[u][k]) /\ todo[u][k].s \in Sessions
        <4>1. todo[u] \in Seq(Ops)
          BY <1>2 DEF Linked
        <4>2. todo[u][k] \in Ops
          BY <3>1, <4>1
        <4> QED BY <1>2, <3>1, <4>2 DEF Placed, Ops
      <3>3. todo[u][k].s # It(t)
        <4>1. ASSUME todo[u][k].s = It(t) PROVE FALSE
          <5>1. todo[u][k].op = "cancel"
            BY <1>1, <1>2, <2>1, <3>1, <4>1, HeadIsApart
          <5> QED BY <1>4, <3>2, <4>1, <5>1 DEF Goes
        <4> QED BY <4>1
      <3> QED BY <1>5, <3>1, <3>2, <3>3 DEF Goes
    <2>2. CASE u = t
      <3>0. todo \in [Threads -> Seq(Ops)] /\ at \in [Threads -> Labels]
        BY <1>2 DEF Linked
      <3>1. todo'[t] = Tail(todo[t])
        BY <1>1, <1>2, <3>0, DoneWithin DEF Does1
      <3>2. todo'[t][k] = todo[t][k + 1] /\ k + 1 \in DOMAIN todo[t] /\ k \in Nat /\ k >= 1 /\ todo[t] \in Seq(Ops)
        BY <1>2, <2>2, <3>0, <3>1, TailEntries
      <3>3. /\ Goes(todo[t][k + 1]) /\ Preparedness(todo[t], at[t], k + 1)
            /\ todo[t][k + 1].s \in Sessions
        <4>1. todo[t][k + 1] \in Ops
          BY <3>2
        <4> QED BY <1>2, <3>2, <4>1 DEF Placed, Prepared, Ops
      <3>4. todo[t][k + 1].s # It(t)
        <4>1. ASSUME todo[t][k + 1].s = It(t) PROVE FALSE
          <5>1. todo[t][k + 1].op = "create"
            BY <1>4, <3>3, <4>1 DEF Goes
          <5>2. 1 \in 1..((k + 1) - 1)
            BY <3>2
          <5>3. todo[t][1].s # todo[t][k + 1].s
            BY <3>3, <5>1, <5>2 DEF Preparedness
          <5> QED BY <1>3, <4>1, <5>3
        <4> QED BY <4>1
      <3> QED BY <1>5, <2>2, <3>2, <3>3, <3>4 DEF Goes
    <2> QED BY <2>1, <2>2
  <1>12. Placed'
    BY <1>9, <1>10, <1>11 DEF Placed
  <1>13. RemovedIsClosed'
    BY <1>1, <1>2, <1>5 DEF RemovedIsClosed
  <1>14. Types'
    BY <1>1, <1>2, <1>6 DEF SInv, Types, Linked, Within
  <1>15. Apart' /\ Prepared' /\ Settled'
    BY <1>1, QuietWithin
  <1> QED BY <1>12, <1>13, <1>14, <1>15 DEF SInv

\* The steps of a thread keep sessions sound.
LEMMA StepSound == ASSUME SInv, NEW t \in Threads, Step(t) PROVE SInv'
  <1>1. Within(t) /\ It(t) \in Sessions
    BY StepWithin DEF SInv, Types
  <1> QED BY <1>1, ConnectSound, DisconnectSound, ExecuteSound, FreeSound, AddSound DEF Step

------------------------------------------------------------------------------
(* Sessions are sound: calls.                                              *)

\* A call that begins keeps the invariant when its operations are apart from those of the
\* others, prepared, and on sessions where they belong.
LEMMA CallKeeps ==
  ASSUME SInv, NEW t \in Threads, NEW ops \in Seq(Ops), Enter(t, ops), UNCHANGED <<st, dev>>,
         list' \in Seq(Sessions), where' \in [Sessions -> {"none", "listed", "leaving", "gone"}],
         \A u \in Threads \ {t} : \A k \in DOMAIN ops, l \in DOMAIN todo[u] :
             ops[k].s = todo[u][l].s => ops[k].op = "cancel" \/ todo[u][l].op = "cancel",
         \A k \in DOMAIN ops : Goes(ops[k])' /\ Preparedness(ops, "begin", k),
         \A u \in Threads \ {t} : \A l \in DOMAIN todo[u] : where'[todo[u][l].s] = where[todo[u][l].s],
         \A k \in DOMAIN list' : where'[list'[k]] = "listed",
         \A j, k \in DOMAIN list' : list'[j] = list'[k] => j = k,
         \A s \in Sessions : where'[s] = "gone" => where[s] = "gone"
  PROVE  SInv'
  <1>1. /\ Linked /\ Apart /\ Placed /\ Prepared /\ Settled /\ RemovedIsClosed
        /\ st \in [Sessions -> States] /\ dev \in [Sessions -> {"closed", "open", "reset"}]
    BY DEF SInv, Types
  <1>2. /\ todo' \in [Threads -> Seq(Ops)] /\ at' \in [Threads -> Labels]
        /\ todo'[t] = ops /\ at'[t] = "begin" /\ todo[t] = <<>>
        /\ \A u \in Threads \ {t} : todo'[u] = todo[u] /\ at'[u] = at[u]
    BY <1>1, EnterEntries
  <1>3. Types'
    BY <1>1, <1>2 DEF Types, Linked
  <1>4. Apart'
    <2> SUFFICES ASSUME NEW u \in Threads, NEW v \in Threads, u # v,
                        NEW k \in DOMAIN todo'[u], NEW l \in DOMAIN todo'[v], todo'[u][k].s = todo'[v][l].s
                 PROVE  todo'[u][k].op = "cancel" \/ todo'[v][l].op = "cancel"
      BY DEF Apart
    <2>1. CASE u = t
      <3>1. todo'[u] = ops /\ todo'[v] = todo[v] /\ v \in Threads \ {t} /\ k \in DOMAIN ops /\ l \in DOMAIN todo[v]
        BY <1>2, <2>1
      <3>2. ops[k].s = todo[v][l].s => ops[k].op = "cancel" \/ todo[v][l].op = "cancel"
        BY <3>1
      <3> QED BY <3>1, <3>2
    <2>2. CASE v = t
      <3>1. todo'[v] = ops /\ todo'[u] = todo[u] /\ u \in Threads \ {t} /\ l \in DOMAIN ops /\ k \in DOMAIN todo[u]
        BY <1>2, <2>2
      <3>2. ops[l].s = todo[u][k].s => ops[l].op = "cancel" \/ todo[u][k].op = "cancel"
        BY <3>1
      <3> QED BY <3>1, <3>2
    <2>3. CASE u # t /\ v # t
      <3>1. todo'[u] = todo[u] /\ todo'[v] = todo[v] /\ k \in DOMAIN todo[u] /\ l \in DOMAIN todo[v]
        BY <1>2, <2>3
      <3>2. todo[u][k].s = todo[v][l].s => todo[u][k].op = "cancel" \/ todo[v][l].op = "cancel"
        BY <1>1, <3>1 DEF Apart
      <3> QED BY <3>1, <3>2
    <2> QED BY <2>1, <2>2, <2>3
  <1>5. Placed'
    <2>1. ASSUME NEW u \in Threads, NEW k \in DOMAIN todo'[u] PROVE Goes(todo[u][k])'
      <3>1. CASE u = t
        BY <1>2, <3>1 DEF Goes
      <3>2. CASE u # t
        <4>1. todo'[u] = todo[u] /\ k \in DOMAIN todo[u]
          BY <1>2, <3>2
        <4>2. Goes(todo[u][k]) /\ where'[todo[u][k].s] = where[todo[u][k].s]
          BY <1>1, <3>2, <4>1 DEF Placed
        <4> QED BY <4>1, <4>2 DEF Goes
      <3> QED BY <3>1, <3>2
    <2> QED BY <2>1 DEF Placed
  <1>6. Prepared'
    <2> SUFFICES ASSUME NEW u \in Threads, NEW k \in DOMAIN todo'[u] PROVE Preparedness(todo[u], at[u], k)'
      BY DEF Prepared
    <2>1. CASE u = t
      <3>1. Preparedness(ops, "begin", k)
        BY <1>2, <2>1
      <3> QED BY <1>2, <2>1, <3>1 DEF Preparedness
    <2>2. CASE u # t
      <3>1. todo'[u] = todo[u] /\ at'[u] = at[u] /\ k \in DOMAIN todo[u]
        BY <1>2, <2>2
      <3>2. Preparedness(todo[u], at[u], k)
        BY <1>1, <3>1 DEF Prepared
      <3> QED BY <3>1, <3>2 DEF Preparedness
    <2> QED BY <2>1, <2>2
  <1>7. Settled'
    <2>1. ASSUME NEW u \in Threads, NEW S, NEW x \in {"open", "state"}, At(u, S, x)'
          PROVE  At(u, S, x) /\ It(u)' = It(u)
      BY <1>2, <2>1 DEF At, It
    <2> QED BY <1>1, <2>1 DEF Settled
  <1>8. RemovedIsClosed'
    BY <1>1 DEF RemovedIsClosed
  <1> QED BY <1>3, <1>4, <1>5, <1>6, <1>7, <1>8 DEF SInv

\* A call on sessions of the list.
LEMMA CallOnListed ==
  ASSUME SInv, Disciplined, NEW t \in Threads, NEW ops \in Seq(Ops), Enter(t, ops),
         UNCHANGED <<list, where, st, dev>>, NEW S \in SUBSET Sessions,
         \A k \in DOMAIN ops : ops[k].op = "cancel" \/ (ops[k].s \in S /\ Alone(t, S, FALSE)),
         \A k \in DOMAIN ops : where[ops[k].s] = "listed" /\ ops[k].op \notin {"create", "free"},
         Returning(ops)
  PROVE  SInv'
  <1>1. \A u \in Threads \ {t} : \A k \in DOMAIN ops, l \in DOMAIN todo[u] :
            ops[k].s = todo[u][l].s => ops[k].op = "cancel" \/ todo[u][l].op = "cancel"
    BY DEF Alone
  <1>2. \A k \in DOMAIN ops : Goes(ops[k])'
    BY DEF Goes
  <1>3. \A k \in DOMAIN ops : Preparedness(ops, "begin", k)
    BY DEF Preparedness, Returning
  <1>4. /\ \A k \in DOMAIN list' : where'[list'[k]] = "listed"
        /\ \A j, k \in DOMAIN list' : list'[j] = list'[k] => j = k
        /\ list' \in Seq(Sessions) /\ where' \in [Sessions -> {"none", "listed", "leaving", "gone"}]
    BY DEF SInv, Placed, Types, Linked
  <1> QED BY <1>1, <1>2, <1>3, <1>4, CallKeeps

\* A call with the operations ops that takes the sessions of seq out of the list, to
\* disconnect and destroy them.
Removal(t, ops, seq) ==
    /\ Alone(t, Range(seq), TRUE)
    /\ where' \in [Sessions -> {"none", "listed", "leaving", "gone"}]
    /\ \A x \in Sessions : where'[x] = IF x \in Range(seq) THEN "leaving" ELSE where[x]
    /\ Removing(ops, seq)
    /\ list' \in Seq(Sessions)
    /\ \A k \in DOMAIN list' : list'[k] \notin Range(seq) /\ where[list'[k]] = "listed"
    /\ \A j, k \in DOMAIN list' : list'[j] = list'[k] => j = k

\* Such a call keeps the invariant.
LEMMA CallRemoves ==
  ASSUME SInv, Disciplined, NEW t \in Threads, NEW ops \in Seq(Ops), Enter(t, ops),
         UNCHANGED <<st, dev>>, NEW seq \in Seq(Sessions), Removal(t, ops, seq)
  PROVE  SInv'
  <1> DEFINE S == Range(seq)
  <1> HIDE DEF S
  <1>0. /\ \A x \in Sessions : where'[x] = IF x \in S THEN "leaving" ELSE where[x]
        /\ Alone(t, S, TRUE)
        /\ \A k \in DOMAIN ops : ops[k].s \in S
        /\ \A k \in DOMAIN ops :
              /\ ops[k].op \in {"disconnect", "free"}
              /\ ops[k].op = "free" => k > 1 /\ ops[k - 1].op = "disconnect" /\ ops[k - 1].s = ops[k].s
        /\ \A k \in DOMAIN list' : list'[k] \notin S /\ where[list'[k]] = "listed"
        /\ list' \in Seq(Sessions) /\ \A j, k \in DOMAIN list' : list'[j] = list'[k] => j = k
        /\ where' \in [Sessions -> {"none", "listed", "leaving", "gone"}]
    BY DEF S, Removal, Removing
  <1>1. /\ todo \in [Threads -> Seq(Ops)]
        /\ where \in [Sessions -> {"none", "listed", "leaving", "gone"}]
        /\ where' \in [Sessions -> {"none", "listed", "leaving", "gone"}]
    BY <1>0 DEF SInv, Types, Linked
  <1>2. \A u \in Threads \ {t} : \A l \in DOMAIN todo[u] : todo[u][l].s \in Sessions \ S
    <2> SUFFICES ASSUME NEW u \in Threads \ {t}, NEW l \in DOMAIN todo[u] PROVE todo[u][l].s \in Sessions \ S
      OBVIOUS
    <2>1. todo[u] \in Seq(Ops)
      BY <1>1
    <2>2. todo[u][l] \in Ops
      BY <2>1
    <2> QED BY <1>0, <2>2 DEF Alone, Ops
  <1>3. \A u \in Threads \ {t} : \A k \in DOMAIN ops, l \in DOMAIN todo[u] :
            ops[k].s = todo[u][l].s => ops[k].op = "cancel" \/ todo[u][l].op = "cancel"
    BY <1>0, <1>2
  <1>4. \A u \in Threads \ {t} : \A l \in DOMAIN todo[u] : where'[todo[u][l].s] = where[todo[u][l].s]
    BY <1>0, <1>2
  <1>5. ASSUME NEW k \in DOMAIN ops PROVE Goes(ops[k])' /\ Preparedness(ops, "begin", k)
    <2>1. ops[k] \in Ops
      OBVIOUS
    <2>2. where'[ops[k].s] = "leaving"
      BY <1>0, <2>1 DEF Ops
    <2>3. Goes(ops[k])'
      BY <1>0, <2>2 DEF Goes
    <2>4. Preparedness(ops, "begin", k)
      BY <1>0 DEF Preparedness
    <2> QED BY <2>3, <2>4
  <1>6. \A k \in DOMAIN list' : where'[list'[k]] = "listed"
    <2> SUFFICES ASSUME NEW k \in DOMAIN list' PROVE where'[list'[k]] = "listed"
      OBVIOUS
    <2>1. list'[k] \in Sessions
      BY <1>0
    <2> QED BY <1>0, <2>1
  <1>7. \A s \in Sessions : where'[s] = "gone" => where[s] = "gone"
    BY <1>0
  <1> QED BY <1>0, <1>1, <1>3, <1>4, <1>5, <1>6, <1>7, CallKeeps

\* The calls of a thread keep sessions sound, when the clients serialise them.
LEMMA CallSound == ASSUME SInv, Disciplined, NEW t \in Threads, ThreadCalls(t) PROVE SInv'
  <1>1. /\ Linked /\ Placed /\ todo \in [Threads -> Seq(Ops)]
        /\ list \in Seq(Sessions) /\ Len(list) \in Nat /\ DOMAIN list = 1..Len(list)
        /\ where \in [Sessions -> {"none", "listed", "leaving", "gone"}]
        /\ \A k \in 1..Len(list) : list[k] \in Range(list) /\ list[k] \in Sessions
    <2>1. list \in Seq(Sessions) /\ Len(list) \in Nat /\ DOMAIN list = 1..Len(list)
      BY DEF SInv, Types, Linked
    <2> QED BY <2>1 DEF SInv, Types, Linked, Range
  <1>2. /\ \A k \in 1..Len(list) : where[list[k]] = "listed"
        /\ \A j, k \in 1..Len(list) : list[j] = list[k] => j = k
    BY <1>1 DEF Placed
  <1>3. ASSUME NEW s \in Sessions, Usable(t, s), NEW op \in {"connect", "disconnect", "cancel"} \cup Kinds,
               op = "cancel" \/ Alone(t, {s}, FALSE), Enter(t, <<Do(op, s)>>), UNCHANGED <<list, where, st, dev>>
        PROVE  SInv'
    <2>1. Do(op, s) \in Ops /\ Do(op, s).op = op /\ Do(op, s).s = s
      BY DoOps
    <2> PICK ops : ops = <<Do(op, s)>>
      OBVIOUS
    <2>2. ops \in Seq(Ops) /\ DOMAIN ops = {1} /\ ops[1].op = op /\ ops[1].s = s
      BY <2>1, FewOps
    <2>3. where[s] = "listed" /\ op \notin {"create", "free", "reconnect"}
      BY <1>3, KindsApart DEF Usable
    <2>4. /\ \A k \in DOMAIN ops : ops[k].op = "cancel" \/ (ops[k].s \in {s} /\ Alone(t, {s}, FALSE))
          /\ \A k \in DOMAIN ops : where[ops[k].s] = "listed" /\ ops[k].op \notin {"create", "free"}
          /\ Returning(ops)
      BY <1>3, <2>2, <2>3 DEF Returning
    <2> QED BY <1>3, <2>2, <2>4, CallOnListed
  <1>4. ASSUME NEW s \in Sessions, Usable(t, s), Alone(t, {s}, FALSE),
               Enter(t, <<Do("disconnect", s), Do("reconnect", s)>>), UNCHANGED <<list, where, st, dev>>
        PROVE  SInv'
    <2>1. /\ Do("disconnect", s) \in Ops /\ Do("disconnect", s).op = "disconnect" /\ Do("disconnect", s).s = s
          /\ Do("reconnect", s) \in Ops /\ Do("reconnect", s).op = "reconnect" /\ Do("reconnect", s).s = s
      BY DoOps
    <2> PICK ops : ops = <<Do("disconnect", s), Do("reconnect", s)>>
      OBVIOUS
    <2>2. /\ ops \in Seq(Ops) /\ DOMAIN ops = {1, 2}
          /\ ops[1].op = "disconnect" /\ ops[1].s = s /\ ops[2].op = "reconnect" /\ ops[2].s = s
      BY <2>1, FewOps
    <2>3. where[s] = "listed"
      BY <1>4 DEF Usable
    <2>4. /\ \A k \in DOMAIN ops : ops[k].op = "cancel" \/ (ops[k].s \in {s} /\ Alone(t, {s}, FALSE))
          /\ \A k \in DOMAIN ops : where[ops[k].s] = "listed" /\ ops[k].op \notin {"create", "free"}
      BY <1>4, <2>2, <2>3
    <2>5. ASSUME NEW k \in DOMAIN ops, ops[k].op = "reconnect"
          PROVE  /\ \A j \in 1..(k - 1) : ops[j].s = ops[k].s => ops[j].op = "disconnect"
                 /\ \E j \in 1..(k - 1) : ops[j].s = ops[k].s
      <3>1. k = 2 /\ 1..(k - 1) = {1}
        BY <2>2, <2>5
      <3> QED BY <2>2, <3>1
    <2>6. Returning(ops)
      BY <2>5 DEF Returning
    <2> QED BY <1>4, <2>2, <2>4, <2>6, CallOnListed
  <1>5. ASSUME NEW s \in Sessions, sessionCall(t, s) PROVE SInv'
    <2>1. Usable(t, s) /\ UNCHANGED <<list, where, st, dev>>
      BY <1>5 DEF sessionCall, svars
    <2>2. \/ Enter(t, <<Do("disconnect", s), Do("reconnect", s)>>) /\ Alone(t, {s}, FALSE)
          \/ \E op \in {"connect", "disconnect", "cancel"} \cup Kinds :
                Enter(t, <<Do(op, s)>>) /\ (op = "cancel" \/ Alone(t, {s}, FALSE))
      BY <1>5 DEF sessionCall
    <2> QED BY <1>3, <1>4, <2>1, <2>2
  <1>6. ASSUME NEW s \in Sessions, retry(t, s) PROVE SInv'
    BY <1>4, <1>6 DEF retry, svars
  <1>7. CASE create(t)
    <2>0. PICK n \in 0..Cardinality(Fresh) : \E new \in [1..n -> Fresh] :
              IsInjective(new) /\ Enter(t, Each("create", new))
      BY <1>7 DEF create
    <2>1. PICK new \in [1..n -> Fresh] : IsInjective(new) /\ Enter(t, Each("create", new))
      BY <2>0
    <2>2. /\ new \in Seq(Sessions) /\ Len(new) = n /\ n \in Nat
          /\ \A k \in 1..n : new[k] \in Fresh /\ new[k] \in Sessions
          /\ \A j, k \in 1..n : new[j] = new[k] => j = k
      <3>1. n \in Nat /\ Fresh \subseteq Sessions
        BY DEF Fresh
      <3>2. new \in Seq(Sessions) /\ Len(new) = n
        BY <3>1
      <3> QED BY <2>1, <3>1, <3>2 DEF IsInjective
    <2> PICK ops : ops = Each("create", new)
      OBVIOUS
    <2>3. ops \in Seq(Ops) /\ DOMAIN ops = 1..n /\ \A k \in 1..n : ops[k].op = "create" /\ ops[k].s = new[k]
      BY <2>2, EachOps
    <2>4. UNCHANGED <<list, where, st, dev>>
      BY <1>7 DEF create, svars
    <2>5. \A u \in Threads \ {t} : \A k \in DOMAIN ops, l \in DOMAIN todo[u] : ops[k].s # todo[u][l].s
      BY <2>2, <2>3 DEF Fresh, Mentions
    <2>6. ASSUME NEW k \in DOMAIN ops PROVE Goes(ops[k])' /\ Preparedness(ops, "begin", k)
      <3>0. ops[k].op = "create" /\ ops[k].s = new[k] /\ new[k] \in Fresh
        BY <2>2, <2>3
      <3>1. ops[k].op = "create" /\ where'[ops[k].s] = "none"
        BY <2>4, <3>0 DEF Fresh
      <3>2. Goes(ops[k])'
        BY <3>1 DEF Goes
      <3>3. ASSUME NEW j \in 1..(k - 1) PROVE ops[j].s # ops[k].s
        <4>1. j \in 1..n /\ k \in 1..n /\ j # k
          BY <2>2, <2>3
        <4> QED BY <2>2, <2>3, <4>1
      <3> QED BY <3>1, <3>2, <3>3 DEF Preparedness
    <2>7. /\ \A k \in DOMAIN list' : where'[list'[k]] = "listed"
          /\ \A j, k \in DOMAIN list' : list'[j] = list'[k] => j = k
          /\ list' \in Seq(Sessions) /\ where' \in [Sessions -> {"none", "listed", "leaving", "gone"}]
      BY <1>1, <1>2, <2>4
    <2>8. Enter(t, ops)
      BY <2>1
    <2> QED BY <2>3, <2>4, <2>5, <2>6, <2>7, <2>8, CallKeeps
  <1>8. CASE find(t)
    <2>1. UNCHANGED <<list, where, st, dev, todo, at>>
      BY <1>8 DEF find, svars
    <2> QED BY <2>1 DEF SInv, Types, Linked, Apart, Placed, Goes, Prepared, Preparedness, Settled, RemovedIsClosed,
                        At, It
  <1>9. ASSUME NEW s \in Sessions, removeSession(t, s) PROVE SInv'
    <2>1. /\ Alone(t, {s}, TRUE) /\ UNCHANGED <<st, dev>>
          /\ where' = [where EXCEPT ![s] = "leaving"]
          /\ Enter(t, <<Do("disconnect", s)>> \o Destroy(<<s>>))
      BY <1>9 DEF removeSession, svars
    <2>2. PICK i \in DOMAIN list : list[i] = s /\ list' = RemoveAt(list, i)
      BY <1>9 DEF removeSession
    <2>3. /\ list' \in Seq(Sessions) /\ Len(list') = Len(list) - 1
          /\ \A j \in 1..(Len(list) - 1) : list'[j] = list[IF j < i THEN j ELSE j + 1]
      BY <1>1, <2>2, RemoveAtList
    <2>4. DOMAIN list' = 1..(Len(list) - 1)
      BY <1>1, <2>3
    <2>5. ASSUME NEW j \in DOMAIN list'
          PROVE  \E l \in 1..Len(list) : /\ l = IF j < i THEN j ELSE j + 1
                                         /\ l # i /\ list'[j] = list[l]
      <3>1. (IF j < i THEN j ELSE j + 1) \in 1..Len(list) \ {i}
        BY <1>1, <2>4
      <3> QED BY <2>3, <2>4, <3>1
    <2>6. \A k \in DOMAIN list' : list'[k] \notin {s} /\ where[list'[k]] = "listed"
      BY <1>1, <1>2, <2>2, <2>5
    <2>7. ASSUME NEW j \in DOMAIN list', NEW k \in DOMAIN list', list'[j] = list'[k] PROVE j = k
      <3>1. PICK l \in 1..Len(list) : l = (IF j < i THEN j ELSE j + 1) /\ list'[j] = list[l] /\ l # i
        BY <2>5
      <3>2. PICK m \in 1..Len(list) : m = (IF k < i THEN k ELSE k + 1) /\ list'[k] = list[m] /\ m # i
        BY <2>5
      <3>3. l = m
        BY <1>2, <2>7, <3>1, <3>2
      <3>4. j \in Int /\ k \in Int /\ i \in Int
        BY <1>1, <2>4
      <3> QED BY <3>1, <3>2, <3>3, <3>4
    <2> DEFINE a == <<Do("disconnect", s)>>
               seq == <<s>>
               w == a \o Destroy(seq)
    <2>9. a \in Seq(Ops) /\ Parting(a, seq) /\ seq \in Seq(Sessions) /\ Range(seq) = {s}
      <3>1. Do("disconnect", s) \in Ops /\ Do("disconnect", s).op = "disconnect" /\ Do("disconnect", s).s = s
        BY DoOps
      <3>2. Range(seq) = {s}
        BY DEF Range
      <3> QED BY <3>1, <3>2 DEF Parting
    <2>10. Enter(t, w)
      BY <2>1
    <2> HIDE DEF a, seq
    <2>11. w \in Seq(Ops) /\ Removing(w, seq)
      BY <2>9, RemovalOps
    <2> HIDE DEF w
    <2> PICK ops : ops = w
      OBVIOUS
    <2>12. ops \in Seq(Ops) /\ Enter(t, ops) /\ seq \in Seq(Sessions) /\ UNCHANGED <<st, dev>>
      BY <2>1, <2>9, <2>10, <2>11
    <2>13. /\ where' \in [Sessions -> {"none", "listed", "leaving", "gone"}]
           /\ \A x \in Sessions : where'[x] = IF x \in Range(seq) THEN "leaving" ELSE where[x]
      BY <1>1, <2>1, <2>9
    <2>14. Removal(t, ops, seq)
      BY <2>1, <2>3, <2>6, <2>7, <2>9, <2>11, <2>13 DEF Removal
    <2> QED BY <2>12, <2>14, CallRemoves
  <1>10. CASE removeAll(t)
    <2>1. /\ Alone(t, Range(list), TRUE) /\ UNCHANGED <<st, dev>> /\ list' = <<>>
          /\ where' = [x \in Sessions |-> IF x \in Range(list) THEN "leaving" ELSE where[x]]
          /\ Enter(t, Each("disconnect", list) \o Destroy(list))
      BY <1>10 DEF removeAll, svars
    <2>2. /\ Each("disconnect", list) \in Seq(Ops)
          /\ \A k \in 1..Len(Each("disconnect", list)) :
                Each("disconnect", list)[k].op = "disconnect" /\ Each("disconnect", list)[k].s \in Range(list)
      <3>1. /\ Each("disconnect", list) \in Seq(Ops) /\ Len(Each("disconnect", list)) = Len(list)
            /\ \A k \in 1..Len(list) :
                  Each("disconnect", list)[k].op = "disconnect" /\ Each("disconnect", list)[k].s = list[k]
        BY <1>1, EachOps
      <3> QED BY <1>1, <3>1
    <2> DEFINE a == Each("disconnect", list)
               w == a \o Destroy(list)
    <2>3. w \in Seq(Ops) /\ Removing(w, list)
      <3>1. a \in Seq(Ops) /\ Parting(a, list)
        BY <2>2 DEF Parting
      <3>2. list \in Seq(Sessions)
        BY <1>1
      <3> HIDE DEF a
      <3> QED BY <3>1, <3>2, RemovalOps
    <2>e. Enter(t, w)
      BY <2>1
    <2> HIDE DEF w
    <2> PICK ops : ops = w
      OBVIOUS
    <2>4. list' \in Seq(Sessions) /\ DOMAIN list' = {}
      BY <2>1
    <2> PICK seq \in Seq(Sessions) : seq = list
      BY <1>1
    <2>5. ops \in Seq(Ops) /\ Enter(t, ops) /\ UNCHANGED <<st, dev>>
      BY <2>1, <2>3, <2>e
    <2>6. /\ where' \in [Sessions -> {"none", "listed", "leaving", "gone"}]
          /\ \A x \in Sessions : where'[x] = IF x \in Range(seq) THEN "leaving" ELSE where[x]
      BY <1>1, <2>1
    <2>7. Removal(t, ops, seq)
      BY <2>1, <2>3, <2>4, <2>6 DEF Removal
    <2> QED BY <2>5, <2>7, CallRemoves
  <1>11. CASE bulk(t)
    <2>1. Alone(t, Range(list), FALSE) /\ UNCHANGED <<list, where, st, dev>>
      BY <1>11 DEF bulk, svars
    <2>2. ASSUME NEW ops \in Seq(Ops), Enter(t, ops),
                 \A k \in DOMAIN ops : ops[k].op \notin {"create", "free"} /\ \E i \in 1..Len(list) : ops[k].s = list[i],
                 Returning(ops)
          PROVE  SInv'
      <3> PICK S \in SUBSET Sessions : S = Range(list)
        BY <1>1 DEF Range
      <3>1. /\ \A k \in DOMAIN ops : ops[k].op = "cancel" \/ (ops[k].s \in S /\ Alone(t, S, FALSE))
            /\ \A k \in DOMAIN ops : where[ops[k].s] = "listed" /\ ops[k].op \notin {"create", "free"}
        BY <1>1, <1>2, <2>1, <2>2
      <3> QED BY <2>1, <2>2, <3>1, CallOnListed
    <2>3. ASSUME NEW op \in {"connect", "disconnect"}, Enter(t, Each(op, list)) PROVE SInv'
      <3> DEFINE w == Each(op, list)
      <3>1. w \in Seq(Ops) /\ DOMAIN w = 1..Len(list) /\ \A k \in 1..Len(list) : w[k].op = op /\ w[k].s = list[k]
        <4>1. list \in Seq(Sessions) /\ op \in {"connect", "reconnect", "disconnect", "create"}
          BY <1>1
        <4> QED BY <4>1, EachOps
      <3>2. Enter(t, w)
        BY <2>3
      <3> HIDE DEF w
      <3> PICK ops : ops = w
        OBVIOUS
      <3>3. ops \in Seq(Ops) /\ Enter(t, ops)
        BY <3>1, <3>2
      <3>4. \A k \in DOMAIN ops : ops[k].op \notin {"create", "free"} /\ \E i \in 1..Len(list) : ops[k].s = list[i]
        BY <3>1
      <3>5. Returning(ops)
        BY <3>1 DEF Returning
      <3> QED BY <2>2, <3>3, <3>4, <3>5
    <2>4. ASSUME Enter(t, Each("disconnect", list) \o Each("reconnect", list)) PROVE SInv'
      <3> DEFINE w == Each("disconnect", list) \o Each("reconnect", list)
      <3>1. list \in Seq(Sessions) /\ Distinct(list)
        BY <1>1, <1>2 DEF Distinct
      <3>2. /\ w \in Seq(Ops) /\ Returning(w)
            /\ \A k \in DOMAIN w :
                  (\E i \in DOMAIN list : w[k].s = list[i]) /\ w[k].op \in {"disconnect", "reconnect"}
        BY <3>1, ReconnectOps
      <3>3. Enter(t, w)
        BY <2>4
      <3> HIDE DEF w
      <3> PICK ops : ops = w
        OBVIOUS
      <3>4. ops \in Seq(Ops) /\ Enter(t, ops)
        BY <3>2, <3>3
      <3>5. \A k \in DOMAIN ops : ops[k].op \notin {"create", "free"} /\ \E i \in 1..Len(list) : ops[k].s = list[i]
        BY <1>1, <3>2
      <3>6. Returning(ops)
        BY <3>2
      <3> QED BY <2>2, <3>4, <3>5, <3>6
    <2> QED BY <1>11, <2>3, <2>4 DEF bulk
  <1> QED BY <1>5, <1>6, <1>7, <1>8, <1>9, <1>10, <1>11 DEF ThreadCalls

\* In the first state.
LEMMA SInvInit == DInit => SInv
  BY DEF DInit, SInv, Types, Linked, Labels, States, Apart, Placed, Prepared, Settled, RemovedIsClosed, At

\* Of clients that serialise the calls on a session, other than cancel(), and let none
\* overlap its removal: a session that is destroyed has left its device closed, wherever
\* errors, cancels and resets had brought it (~DeviceSession, removeSession, removeAll),
\* and the open() of a reconnect() or a retry() always finds the device closed.
THEOREM SessionsSound == ASSUME Disciplined PROVE DSpec => []SessionsAreSound
  <1>1. SInv /\ [DNext]_dvars => SInv'
    <2>1. CASE DNext
      BY <2>1, StepSound, CallSound DEF DNext
    <2>2. CASE UNCHANGED dvars
      BY <2>2 DEF dvars, SInv, Types, Linked, Apart, Placed, Goes, Prepared, Preparedness, Settled, RemovedIsClosed,
                  At, It
    <2> QED BY <2>1, <2>2
  <1>2. SInv => SessionsAreSound
    <2> SUFFICES ASSUME SInv, NEW t \in Threads, At(t, {"reconnect"}, "open") PROVE dev[It(t)] = "closed"
      BY DEF SInv, SessionsAreSound, ReconnectOpensClosed
    <2>1. 1 \in DOMAIN todo[t] /\ Head(todo[t]) = todo[t][1] /\ It(t) = todo[t][1].s
      BY HeadEntry DEF SInv, Types, Linked, At
    <2>2. Preparedness(todo[t], at[t], 1)
      BY <2>1 DEF SInv, Prepared
    <2> QED BY <2>1, <2>2 DEF Preparedness, At, Preparing
  <1> QED BY <1>1, <1>2, SInvInit, PTL DEF DSpec
==============================================================================
