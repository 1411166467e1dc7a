------------------------------ MODULE JobProofs ------------------------------
(***************************************************************************)
(* Proofs about JobPipeline for every set of jobs, partitions and policies *)
(* and every number of calls, and about JobScheduler for every set of      *)
(* client threads.                                                         *)
(***************************************************************************)
EXTENDS JobScheduler, TLAPS

\* The job list: jobs of the client, each at most once.
JobList == jobs \in Seq(Jobs) /\ \A a, b \in 1..Len(jobs) : jobs[a] = jobs[b] => a = b

\* The jobs among the first n of list js that write partition p.
Writers(js, p, n) == {k \in 1..n : Part[js[k]] = p /\ Kind[js[k]].writes}

\* c is what partition p holds once the first n jobs of js have done their
\* work: the data of the last of them that writes p, or what was there before.
Holds(c, p, n, js, before) ==
    IF Writers(js, p, n) = {}
    THEN c = before[p]
    ELSE \E k \in Writers(js, p, n) :
            (\A m \in Writers(js, p, n) : m <= k) /\ c = Data[js[k]]

\* Where a run is, and how far.
Control ==
    /\ running <=> ppc # "idle"
    /\ ppc # "idle" => failed = 0
    /\ ppc \in {"exec", "io", "rollback"} => i <= Len(jobs)

\* Until a job fails the device holds what the jobs done so far wrote.
WrittenSoFar ==
    ppc \in {"loop", "exec", "io"} =>
        \A p \in Parts : Holds(flash[p], p, i - 1, jobs, start)

\* Unless a read failed, a job done kept what its predecessors had left.
SavedIsBefore ==
    (ppc # "idle" /\ ~mishap) =>
        \A k \in 1..(i - 1) : Kind[jobs[k]].saves =>
            Holds(saved[jobs[k]], Part[jobs[k]], k - 1, jobs, start)

\* With the jobs after rb undone, an undoable partition holds what the first
\* rb jobs had left, or was changed by the failed job and has a writer to go.
UndoneSoFar ==
    (ppc = "rollback" /\ ~mishap) =>
        \A p \in Parts : undoable(p) =>
            \/ Holds(flash[p], p, rb, jobs, start)
            \/ i \in writersOf(p, i) /\ writersOf(p, rb) # {}

\* A job cancel() has passed, in a call that goes on or in one that returned,
\* has its flag set; of the latter, one that is about to call the device had
\* passed its check when cancel() returned.
CancelInv ==
    /\ \A k \in 1..Len(jobs) : k < telling => jobs[k] \in jcancel
    /\ stopped \subseteq jcancel
    /\ ppc = "io" /\ jobs[i] \in stopped => jobs[i] \in excused
    /\ ~late

JInv == PTypeOK /\ JobList /\ Control /\ WrittenSoFar /\ SavedIsBefore /\ UndoneSoFar

------------------------------------------------------------------------------
\* Adding a job at the end keeps a list.
LEMMA AppendKeepsList ==
  ASSUME JobList, NEW j \in Jobs, j \notin Loaded, jobs' = Append(jobs, j)
  PROVE  JobList'
  BY DEF JobList, Loaded, ToSet

\* t is s with e inserted at k, position by position.
Inserted(t, s, k, e, S) ==
    /\ t \in Seq(S) /\ Len(t) = Len(s) + 1
    /\ \A a \in 1..(Len(s) + 1) :
          t[a] = IF a < k THEN s[a] ELSE IF a = k THEN e ELSE s[a - 1]

\* What inserting an element does to a sequence.
LEMMA InsertAtPositions ==
  ASSUME NEW S, NEW s \in Seq(S), NEW e \in S, NEW k \in 1..(Len(s) + 1)
  PROVE  Inserted(InsertAt(s, k, e), s, k, e, S)
  <1> DEFINE u == SubSeq(s, 1, k - 1)
             v == u \o <<e>>
             w == SubSeq(s, k, Len(s))
  <1>1. /\ u \in Seq(S) /\ Len(u) = k - 1
        /\ \A a \in 1..(k - 1) : u[a] = s[a]
    OBVIOUS
  <1>2. /\ w \in Seq(S) /\ Len(w) = Len(s) + 1 - k
        /\ \A a \in 1..(Len(s) + 1 - k) : w[a] = s[a + k - 1]
    OBVIOUS
  <1> HIDE DEF u, w
  <1>3. /\ v \in Seq(S) /\ Len(v) = k
        /\ \A a \in 1..k : v[a] = IF a < k THEN s[a] ELSE e
    BY <1>1
  <1> HIDE DEF v
  <1>4. /\ v \o w \in Seq(S) /\ Len(v \o w) = Len(s) + 1
        /\ \A a \in 1..(Len(s) + 1) : (v \o w)[a] = IF a <= k THEN v[a] ELSE w[a - k]
    BY <1>2, <1>3
  <1>5. InsertAt(s, k, e) = v \o w
    BY DEF InsertAt, u, v, w
  <1>6. ASSUME NEW a \in 1..(Len(s) + 1)
        PROVE  (v \o w)[a] = IF a < k THEN s[a] ELSE IF a = k THEN e ELSE s[a - 1]
    <2>1. CASE a <= k
      BY <2>1, <1>3, <1>4
    <2>2. CASE a > k
      <3>1. a - k \in 1..(Len(s) + 1 - k) /\ (a - k) + k - 1 = a - 1
        BY <2>2
      <3>2. w[a - k] = s[a - 1]
        BY <3>1, <1>2
      <3>3. (v \o w)[a] = w[a - k]
        BY <2>2, <1>4
      <3> QED BY <2>2, <3>2, <3>3
    <2>3. a <= k \/ a > k
      OBVIOUS
    <2> QED BY <2>1, <2>2, <2>3
  <1> QED BY <1>4, <1>5, <1>6 DEF Inserted

\* Inserting a job that is not in the list keeps it a list.
LEMMA InsertKeepsList ==
  ASSUME JobList, NEW j \in Jobs, j \notin Loaded,
         NEW k \in 1..(Len(jobs) + 1), jobs' = InsertAt(jobs, k, j)
  PROVE  JobList'
  <1>1. /\ jobs' \in Seq(Jobs) /\ Len(jobs') = Len(jobs) + 1
        /\ \A a \in 1..(Len(jobs) + 1) :
              jobs'[a] = IF a < k THEN jobs[a] ELSE IF a = k THEN j ELSE jobs[a - 1]
    <2>1. jobs \in Seq(Jobs)
      BY DEF JobList
    <2>2. Inserted(jobs', jobs, k, j, Jobs)
      BY <2>1, InsertAtPositions
    <2> QED BY <2>2 DEF Inserted
  <1>2. \A a \in 1..Len(jobs) : jobs[a] # j
    BY DEF JobList, Loaded, ToSet
  <1>3. ASSUME NEW a \in 1..Len(jobs'), NEW b \in 1..Len(jobs'), jobs'[a] = jobs'[b]
        PROVE  a = b
    <2> DEFINE at(c) == IF c < k THEN jobs[c] ELSE IF c = k THEN j ELSE jobs[c - 1]
    <2>1. at(a) = at(b)
      BY <1>1, <1>3
    <2>2. \A c \in 1..(Len(jobs) + 1) : /\ c < k => c \in 1..Len(jobs)
                                        /\ c > k => c - 1 \in 1..Len(jobs)
      BY DEF JobList
    <2>3. a \in 1..(Len(jobs) + 1) /\ b \in 1..(Len(jobs) + 1)
      BY <1>1
    <2> QED BY <2>1, <2>2, <2>3, <1>2 DEF JobList
  <1> QED BY <1>1, <1>3 DEF JobList

\* What removing an element does to a sequence, position by position.
LEMMA RemoveAtPositions ==
  ASSUME NEW S, NEW s \in Seq(S), NEW k \in 1..Len(s)
  PROVE  LET t == RemoveAt(s, k) IN
         /\ t \in Seq(S) /\ Len(t) = Len(s) - 1
         /\ \A a \in 1..(Len(s) - 1) : t[a] = IF a < k THEN s[a] ELSE s[a + 1]
  <1> DEFINE u == SubSeq(s, 1, k - 1)
             w == SubSeq(s, k + 1, Len(s))
  <1>1. /\ u \in Seq(S) /\ Len(u) = k - 1
        /\ \A a \in 1..(k - 1) : u[a] = s[a]
    OBVIOUS
  <1>2. /\ w \in Seq(S) /\ Len(w) = Len(s) - k
        /\ \A a \in 1..(Len(s) - k) : w[a] = s[a + k]
    OBVIOUS
  <1> HIDE DEF u, w
  <1>3. /\ u \o w \in Seq(S) /\ Len(u \o w) = Len(s) - 1
        /\ \A a \in 1..(Len(s) - 1) : (u \o w)[a] = IF a <= k - 1 THEN u[a] ELSE w[a - (k - 1)]
    <2>1. u \o w \in Seq(S) /\ Len(u \o w) = Len(s) - 1
      BY <1>1, <1>2
    <2> QED BY <1>1, <1>2, <2>1
  <1>4. RemoveAt(s, k) = u \o w
    BY DEF RemoveAt, u, w
  <1>5. ASSUME NEW a \in 1..(Len(s) - 1)
        PROVE  (u \o w)[a] = IF a < k THEN s[a] ELSE s[a + 1]
    <2>1. CASE a < k
      BY <2>1, <1>1, <1>3
    <2>2. CASE a >= k
      <3>1. a - (k - 1) \in 1..(Len(s) - k) /\ (a - (k - 1)) + k = a + 1
        BY <2>2
      <3>2. w[a - (k - 1)] = s[a + 1]
        BY <3>1, <1>2
      <3>3. (u \o w)[a] = w[a - (k - 1)]
        BY <2>2, <1>3
      <3> QED BY <2>2, <3>2, <3>3
    <2>3. a < k \/ a >= k
      OBVIOUS
    <2> QED BY <2>1, <2>2, <2>3
  <1> QED BY <1>3, <1>4, <1>5

\* Removing a job keeps a list.
LEMMA RemoveKeepsList ==
  ASSUME JobList, NEW k \in 1..Len(jobs), jobs' = RemoveAt(jobs, k)
  PROVE  JobList'
  <1>1. /\ jobs' \in Seq(Jobs) /\ Len(jobs') = Len(jobs) - 1
        /\ \A a \in 1..(Len(jobs) - 1) : jobs'[a] = IF a < k THEN jobs[a] ELSE jobs[a + 1]
    <2>1. jobs \in Seq(Jobs)
      BY DEF JobList
    <2> QED BY <2>1, RemoveAtPositions
  <1>2. ASSUME NEW a \in 1..Len(jobs'), NEW b \in 1..Len(jobs'), jobs'[a] = jobs'[b]
        PROVE  a = b
    <2>1. \A c \in 1..(Len(jobs) - 1) : c \in 1..Len(jobs) /\ c + 1 \in 1..Len(jobs)
      BY DEF JobList
    <2>2. a \in 1..(Len(jobs) - 1) /\ b \in 1..(Len(jobs) - 1)
      BY <1>1
    <2> QED BY <1>1, <1>2, <2>1, <2>2 DEF JobList
  <1> QED BY <1>1, <1>2 DEF JobList
------------------------------------------------------------------------------
(* What Holds promises as the list of jobs done grows and shrinks.         *)

\* Before the first job every partition holds what it held.
LEMMA HoldsNothing ==
  ASSUME NEW c, NEW p, NEW js, NEW before
  PROVE  Holds(c, p, 0, js, before) <=> c = before[p]
  <1>1. Writers(js, p, 0) = {}
    BY DEF Writers
  <1> QED BY <1>1 DEF Holds

\* A job that does not write a partition does not change what it holds.
LEMMA HoldsSkip ==
  ASSUME NEW c, NEW p, NEW n \in Nat \ {0}, NEW js, NEW before,
         ~(Part[js[n]] = p /\ Kind[js[n]].writes)
  PROVE  /\ Writers(js, p, n) = Writers(js, p, n - 1)
         /\ Holds(c, p, n, js, before) <=> Holds(c, p, n - 1, js, before)
  <1>1. \A k : k \in 1..n <=> (k \in 1..(n - 1) \/ k = n)
    OBVIOUS
  <1>2. Writers(js, p, n) = Writers(js, p, n - 1)
    BY <1>1 DEF Writers
  <1> QED BY <1>2 DEF Holds

\* After a job that writes a partition, it holds that job's data.
LEMMA HoldsWritten ==
  ASSUME NEW p, NEW n \in Nat \ {0}, NEW js, NEW before,
         Part[js[n]] = p, Kind[js[n]].writes
  PROVE  /\ n \in Writers(js, p, n)
         /\ Holds(Data[js[n]], p, n, js, before)
  <1>1. n \in Writers(js, p, n) /\ \A m \in Writers(js, p, n) : m <= n
    BY DEF Writers
  <1> QED BY <1>1 DEF Holds

\* What a partition holds is never the mark of a job that saved nothing.
LEMMA HoldsContents ==
  ASSUME NEW c, NEW p \in Parts, NEW n \in Nat, NEW js \in Seq(Jobs), n <= Len(js),
         NEW before \in [Parts -> Contents], Holds(c, p, n, js, before)
  PROVE  c \in Contents /\ c # None
  <1>1. None \notin Contents
    BY JobAssumption DEF Contents, None, Original, Blank, Torn
  <1>2. \A k \in Writers(js, p, n) : js[k] \in Jobs
    BY DEF Writers
  <1>3. c \in Contents
    BY <1>2 DEF Holds, Contents
  <1> QED BY <1>1, <1>3
------------------------------------------------------------------------------
(* The inductive invariant.                                                *)

\* A list of jobs holds jobs of the client.
LEMMA ListIsLoaded == JobList => Loaded \subseteq Jobs
  BY DEF JobList, Loaded, ToSet

\* The flags, one by one.
LEMMA FlagsAreBoolean ==
  PTypeOK => /\ running \in BOOLEAN /\ paused \in BOOLEAN /\ cancelled \in BOOLEAN
             /\ mishap \in BOOLEAN /\ late \in BOOLEAN
  BY Zenon DEF PTypeOK

\* No run, no job: every part of the invariant holds at the start.
LEMMA InitJInv == PInit => JInv
  <1> SUFFICES ASSUME PInit PROVE JInv
    OBVIOUS
  <1>1. JobList /\ Control
    BY DEF PInit, JobList, Control
  <1>2. PTypeOK
    <2>1. Loaded \subseteq Jobs
      BY <1>1, ListIsLoaded
    <2>2. {running, paused, cancelled, mishap, late} \subseteq BOOLEAN
      BY Zenon DEF PInit
    <2> QED BY <2>1, <2>2 DEF PInit, PTypeOK, Contents
  <1>3. WrittenSoFar /\ SavedIsBefore /\ UndoneSoFar
    BY DEF PInit, WrittenSoFar, SavedIsBefore, UndoneSoFar
  <1> QED BY <1>1, <1>2, <1>3 DEF JInv

\* The list is built between runs.
LEMMA ListStep ==
  ASSUME JInv,
         \/ \E j \in Jobs : addJob(j) \/ removeJob(j) \/ \E k \in 0..Len(jobs) : insertJob(k, j)
         \/ clearJobs
  PROVE  JInv'
  <1>1. ppc = "idle" /\ ppc' = "idle"
    BY DEF addJob, removeJob, insertJob, clearJobs, run_, quiet
  <1>2. JobList'
    <2>1. ASSUME NEW j \in Jobs, addJob(j)
          PROVE  JobList'
      BY <2>1, AppendKeepsList DEF addJob, JInv
    <2>2. ASSUME NEW j \in Jobs, NEW k \in 0..Len(jobs), insertJob(k, j)
          PROVE  JobList'
      <3>1. (IF k > Len(jobs) THEN Len(jobs) + 1 ELSE k + 1) \in 1..(Len(jobs) + 1)
        BY DEF JInv, JobList
      <3> QED BY <2>2, <3>1, InsertKeepsList DEF insertJob, JInv
    <2>3. ASSUME NEW j \in Jobs, removeJob(j)
          PROVE  JobList'
      <3>1. CASE UNCHANGED jobs
        BY <3>1 DEF JInv, JobList
      <3>2. CASE \E a \in DOMAIN jobs : jobs[a] = j /\ jobs' = RemoveAt(jobs, a)
        BY <3>2, RemoveKeepsList DEF JInv, JobList
      <3> QED BY <2>3, <3>1, <3>2 DEF removeJob
    <2>4. CASE clearJobs
      BY <2>4 DEF clearJobs, JobList
    <2> QED BY <2>1, <2>2, <2>3, <2>4
  <1>3. /\ UNCHANGED <<rb, running, result, flags, device, history>>
        /\ (completed' = completed /\ failed' = failed) \/ (completed' = 0 /\ failed' = 0)
    BY DEF addJob, removeJob, insertJob, clearJobs, run_
  <1>4. PTypeOK'
    <2>1. Loaded' \subseteq Jobs
      BY <1>2 DEF JobList, Loaded, ToSet
    <2> QED BY <1>1, <1>3, <2>1 DEF JInv, PTypeOK, flags, device, history
  <1>5. Control'
    BY <1>1, <1>3 DEF JInv, Control
  <1>6. WrittenSoFar' /\ SavedIsBefore' /\ UndoneSoFar'
    BY <1>1 DEF WrittenSoFar, SavedIsBefore, UndoneSoFar
  <1> QED BY <1>2, <1>4, <1>5, <1>6 DEF JInv

\* A run begins with no job done and the device as it is.
LEMMA BeginStep ==
  ASSUME JInv, beginRun
  PROVE  JInv'
  <1>1. JobList' /\ Control'
    BY DEF JInv, beginRun, JobList, Control
  <1>2. PTypeOK'
    <2>1. {running, paused, cancelled, mishap, late}' \subseteq BOOLEAN
      BY Zenon DEF JInv, PTypeOK, beginRun
    <2>2. Len(jobs) \in Nat
      BY DEF JInv, JobList
    <2> QED BY <2>1, <2>2 DEF JInv, PTypeOK, beginRun, Loaded
  <1>3. \A p \in Parts : Holds(flash'[p], p, 0, jobs', start')
    BY HoldsNothing DEF beginRun
  <1>4. i' - 1 = 0 /\ ppc' = "loop"
    BY DEF beginRun
  <1>5. WrittenSoFar'
    BY <1>3, <1>4 DEF WrittenSoFar
  <1>6. SavedIsBefore' /\ UndoneSoFar'
    BY <1>4 DEF SavedIsBefore, UndoneSoFar
  <1> QED BY <1>1, <1>2, <1>5, <1>6 DEF JInv

\* The head of the loop changes nothing but where the run is.
LEMMA LoopStep ==
  ASSUME JInv, loop
  PROVE  JInv'
  <1>1. /\ ppc = "loop" /\ ppc' \in {"idle", "exec"}
        /\ ppc' = "exec" => i <= Len(jobs)
        /\ running' \in BOOLEAN /\ (running' <=> ppc' # "idle")
        /\ result' \in {result, "ok"}
        /\ UNCHANGED <<i, rb, completed, failed, jobs, flags, device, history, calls>>
    BY FlagsAreBoolean DEF JInv, loop, endRun, Control
  <1>2. JobList' /\ Control'
    BY <1>1 DEF JInv, JobList, Control
  <1>3. PTypeOK'
    <2>1. {running, paused, cancelled, mishap, late}' \subseteq BOOLEAN
      <3>1. /\ UNCHANGED <<paused, cancelled, mishap, late>> /\ running' \in BOOLEAN
        BY <1>1 DEF flags, device, history
      <3> QED BY <3>1, Zenon DEF JInv, PTypeOK
    <2> QED BY <1>1, <2>1 DEF JInv, PTypeOK, Loaded, flags, device, history
  <1>4. WrittenSoFar' /\ SavedIsBefore' /\ UndoneSoFar'
    BY <1>1 DEF JInv, WrittenSoFar, SavedIsBefore, UndoneSoFar, device, history
  <1> QED BY <1>2, <1>3, <1>4 DEF JInv

\* The calls of other threads touch the flags only.
LEMMA CallStep ==
  ASSUME JInv, cancel \/ tellJob \/ cancelReturns \/ setPaused(TRUE) \/ setPaused(FALSE)
  PROVE  JInv'
  <1> DEFINE Calm ==
        /\ UNCHANGED <<run_, jobs, device, start, late>>
        /\ paused' \in BOOLEAN /\ cancelled' \in BOOLEAN
        /\ telling' \in Nat
        /\ jcancel' \subseteq Jobs /\ stopped' \subseteq Jobs /\ excused' \subseteq Jobs
  <1>1. Calm
    <2>1. /\ paused \in BOOLEAN /\ cancelled \in BOOLEAN /\ telling \in Nat
          /\ jcancel \subseteq Jobs /\ stopped \subseteq Jobs /\ excused \subseteq Jobs
          /\ Loaded \subseteq Jobs
      BY FlagsAreBoolean DEF JInv, PTypeOK
    <2>2. CASE cancel
      BY <2>1, <2>2 DEF cancel, history
    <2>3. CASE tellJob
      <3>1. jobs[telling] \in Jobs
        BY <2>3 DEF tellJob, JInv, JobList
      <3> QED BY <2>1, <2>3, <3>1 DEF tellJob, history
    <2>4. CASE cancelReturns
      <3>1. ppc = "io" => jobs[i] \in Jobs
        BY DEF JInv, Control, JobList, PTypeOK
      <3> QED BY <2>1, <2>4, <3>1 DEF cancelReturns
    <2>5. ASSUME NEW b \in BOOLEAN, setPaused(b)
          PROVE  Calm
      BY <2>1, <2>5 DEF setPaused, history
    <2> QED BY <2>2, <2>3, <2>4, <2>5
  <1>2. JobList' /\ Control' /\ WrittenSoFar' /\ SavedIsBefore'
    BY <1>1 DEF JInv, JobList, Control, WrittenSoFar, SavedIsBefore, run_, device
  <1>3. UndoneSoFar'
    BY <1>1 DEF JInv, UndoneSoFar, undoable, writersOf, run_, device
  <1>4. PTypeOK'
    BY <1>1 DEF JInv, PTypeOK, Loaded, run_, device
  <1> QED BY <1>2, <1>3, <1>4 DEF JInv

\* executeJob() up to the device operation.
LEMMA ExecStep ==
  ASSUME JInv, exec
  PROVE  JInv'
  <1>1. /\ ppc = "exec" /\ i \in 1..Len(jobs) /\ Len(jobs) \in Nat /\ jobs[i] \in Jobs
        /\ UNCHANGED <<i, completed, jobs, flags, device, history>>
    BY DEF exec, JInv, Control, PTypeOK, JobList
  <1>2. \/ ppc' = "rollback" /\ rb' = i - 1 /\ UNCHANGED <<running, failed, result>>
        \/ ppc' = "idle" /\ running' = FALSE /\ result' \in {"failed", "Cancelled"}
           /\ failed' = failed + 1 /\ UNCHANGED rb
        \/ ppc' = "io" /\ UNCHANGED <<rb, running, failed, result>>
    BY DEF exec, jobFailed, jobCancelled, endRun
  <1>3. JobList' /\ Control'
    <2>1. JobList'
      BY <1>1 DEF JInv, JobList
    <2>2. running /\ failed = 0
      BY <1>1 DEF JInv, Control
    <2>3. running' <=> ppc' # "idle"
      BY <1>2, <2>2
    <2>4. ppc' # "idle" => failed' = 0
      BY <1>2, <2>2
    <2>5. i' <= Len(jobs')
      BY <1>1
    <2>6. Control'
      BY <2>3, <2>4, <2>5 DEF Control
    <2> QED BY <2>1, <2>6
  <1>4. PTypeOK'
    <2>1. running' \in BOOLEAN
      BY <1>2, FlagsAreBoolean DEF JInv
    <2>2. {running, paused, cancelled, mishap, late}' \subseteq BOOLEAN
      BY <1>1, <1>2, <2>1, Zenon DEF JInv, PTypeOK, flags, device, history
    <2>3. failed = 0
      BY <1>1 DEF JInv, Control
    <2> QED BY <1>1, <1>2, <2>2, <2>3 DEF JInv, PTypeOK, Loaded, flags, device, history
  <1>5. WrittenSoFar' /\ SavedIsBefore'
    BY <1>1, <1>2 DEF JInv, WrittenSoFar, SavedIsBefore, device, history
  <1>6. UndoneSoFar'
    BY <1>1, <1>2 DEF JInv, WrittenSoFar, UndoneSoFar, device, history
  <1> QED BY <1>3, <1>4, <1>5, <1>6 DEF JInv

\* What a save does to the copies: unless it fails, the job that works now
\* has kept what the partition held before it.
LEMMA SaveStep ==
  ASSUME JInv, ppc = "io", NEW j, j = jobs[i], save(j), jobs' = jobs, start' = start
  PROVE  /\ saved' \in [Jobs -> Contents \cup {None}]
         /\ mishap' \in BOOLEAN
         /\ ~mishap' => \A k \in 1..i : Kind[jobs[k]].saves =>
                          Holds(saved'[jobs[k]], Part[jobs[k]], k - 1, jobs, start)
  <1>1. /\ i \in 1..Len(jobs) /\ Len(jobs) \in Nat /\ j \in Jobs /\ Part[j] \in Parts
        /\ \A k \in 1..i : jobs[k] \in Jobs /\ (k # i => jobs[k] # j)
    <2>1. i \in 1..Len(jobs) /\ Len(jobs) \in Nat /\ jobs \in Seq(Jobs)
      BY DEF JInv, Control, PTypeOK, JobList
    <2>2. \A k \in 1..i : jobs[k] \in Jobs /\ (k # i => jobs[k] # j)
      BY <2>1 DEF JInv, JobList
    <2>3. j \in Jobs /\ Part[j] \in Parts
      BY <2>1, <2>2, JobAssumption
    <2> QED BY <2>1, <2>2, <2>3
  <1>2. Holds(flash[Part[j]], Part[j], i - 1, jobs, start)
    BY <1>1 DEF JInv, WrittenSoFar
  <1>3. flash[Part[j]] \in Contents /\ saved \in [Jobs -> Contents \cup {None}]
    BY <1>1 DEF JInv, PTypeOK
  <1>4. mishap \in BOOLEAN
    BY FlagsAreBoolean DEF JInv
  <1>5. CASE Kind[j].saves /\ saved' = [saved EXCEPT ![j] = flash[Part[j]]] /\ mishap' = mishap
    <2>1. saved'[j] = flash[Part[j]] /\ \A k \in 1..i : k # i => saved'[jobs[k]] = saved[jobs[k]]
      BY <1>1, <1>3, <1>5
    <2>2. ASSUME ~mishap', NEW k \in 1..i, Kind[jobs[k]].saves
          PROVE  Holds(saved'[jobs[k]], Part[jobs[k]], k - 1, jobs, start)
      <3>1. CASE k = i
        BY <3>1, <2>1, <1>2
      <3>2. CASE k # i
        <4>1. k \in 1..(i - 1)
          BY <3>2, <1>1
        <4> QED BY <1>5, <2>1, <2>2, <3>2, <4>1 DEF JInv, SavedIsBefore
      <3> QED BY <3>1, <3>2
    <2>3. saved' \in [Jobs -> Contents \cup {None}] /\ mishap' \in BOOLEAN
      BY <1>3, <1>4, <1>5
    <2> QED BY <2>2, <2>3
  <1>6. CASE mishap' = (mishap \/ Kind[j].saves) /\ saved' = saved
    <2>1. ASSUME ~mishap', NEW k \in 1..i, Kind[jobs[k]].saves
          PROVE  Holds(saved'[jobs[k]], Part[jobs[k]], k - 1, jobs, start)
      <3>1. k # i /\ ~mishap
        BY <1>6, <2>1
      <3>2. k \in 1..(i - 1)
        BY <3>1, <1>1
      <3> QED BY <1>6, <2>1, <3>1, <3>2 DEF JInv, SavedIsBefore
    <2>2. mishap' \in BOOLEAN
      BY <1>6, Zenon
    <2> QED BY <1>3, <1>6, <2>1, <2>2
  <1> QED BY <1>5, <1>6 DEF save

\* The device operation of a job.
LEMMA IoStep ==
  ASSUME JInv, io
  PROVE  JInv'
  <1> DEFINE j == jobs[i]
             p == Part[j]
  <1>1. /\ ppc = "io" /\ i \in 1..Len(jobs) /\ Len(jobs) \in Nat /\ j \in Jobs /\ p \in Parts
        /\ UNCHANGED <<jobs, flags, start, stopped>> /\ failed = 0 /\ excused' = {}
        /\ flash \in [Parts -> Contents] /\ start \in [Parts -> Contents]
    BY JobAssumption DEF io, atWork, JInv, Control, PTypeOK, JobList
  <1>2. /\ saved' \in [Jobs -> Contents \cup {None}]
        /\ mishap' \in BOOLEAN
        /\ ~mishap' => \A k \in 1..i : Kind[jobs[k]].saves =>
                         Holds(saved'[jobs[k]], Part[jobs[k]], k - 1, jobs, start)
    BY <1>1, SaveStep DEF io
  <1>3. {running, paused, cancelled, mishap, late}' \subseteq BOOLEAN
        /\ JobList'
    <2>1. running' \in BOOLEAN
      BY FlagsAreBoolean DEF io, jobFailed, jobCancelled, endRun, JInv
    <2>3. late' \in BOOLEAN
      BY FlagsAreBoolean DEF io, atWork, JInv
    <2>2. {running, paused, cancelled, mishap, late}' \subseteq BOOLEAN
      BY <1>1, <1>2, <2>1, <2>3, Zenon DEF JInv, PTypeOK, flags
    <2> QED BY <1>1, <2>2 DEF JInv, JobList
  <1>4. Data[j] \in Contents /\ Torn \in Contents
    BY <1>1 DEF Contents
  <1>5. CASE /\ flash' = IF Kind[j].writes THEN [flash EXCEPT ![p] = Data[j]] ELSE flash
             /\ jobDone
             /\ UNCHANGED <<rb, running, failed, result>>
    <2>1. flash' \in [Parts -> Contents]
      BY <1>1, <1>4, <1>5
    <2>2. PTypeOK' /\ Control'
      BY <1>1, <1>2, <1>3, <1>5, <2>1 DEF JInv, PTypeOK, Control, Loaded, flags, jobDone
    <2>3. ASSUME NEW q \in Parts
          PROVE  Holds(flash'[q], q, i, jobs, start)
      <3>1. CASE q = p /\ Kind[j].writes
        <4>1. flash'[q] = Data[jobs[i]]
          BY <1>1, <1>5, <3>1
        <4>2. i \in Nat \ {0} /\ Part[jobs[i]] = q /\ Kind[jobs[i]].writes
          BY <1>1, <3>1
        <4> QED BY <4>1, <4>2, HoldsWritten
      <3>2. CASE ~(q = p /\ Kind[j].writes)
        <4>1. flash'[q] = flash[q]
          BY <1>1, <1>5, <3>2
        <4>2. Holds(flash[q], q, i - 1, jobs, start)
          BY <1>1 DEF JInv, WrittenSoFar
        <4>3. i \in Nat \ {0} /\ ~(Part[jobs[i]] = q /\ Kind[jobs[i]].writes)
          BY <1>1, <3>2
        <4>4. Holds(flash[q], q, i, jobs, start) <=> Holds(flash[q], q, i - 1, jobs, start)
          BY <4>3, HoldsSkip
        <4> QED BY <4>1, <4>2, <4>4
      <3> QED BY <3>1, <3>2
    <2>4. i' - 1 = i /\ ppc' = "loop" /\ jobs' = jobs /\ start' = start
      BY <1>1, <1>5 DEF jobDone
    <2> HIDE DEF j, p
    <2>5. WrittenSoFar' /\ SavedIsBefore' /\ UndoneSoFar'
      BY <1>2, <2>3, <2>4 DEF WrittenSoFar, SavedIsBefore, UndoneSoFar
    <2> QED BY <1>3, <2>2, <2>5 DEF JInv
  <1>6. CASE /\ flash' \in IF Kind[j].writes THEN damaged(p) ELSE {flash}
             /\ jobFailed(j) \/ jobCancelled
             /\ UNCHANGED <<i, completed>>
    <2>1. flash' \in [Parts -> Contents]
      BY <1>1, <1>4, <1>6 DEF damaged
    <2>2. \/ ppc' = "rollback" /\ rb' = i - 1 /\ UNCHANGED <<running, failed, result>>
          \/ ppc' = "idle" /\ running' = FALSE /\ result' \in {"failed", "Cancelled"}
             /\ failed' = failed + 1 /\ UNCHANGED rb
      BY <1>6 DEF jobFailed, jobCancelled, endRun
    <2>3. PTypeOK' /\ Control'
      <3>1. running /\ failed = 0
        BY <1>1 DEF JInv, Control
      <3>2. Control'
        <4>1. running' <=> ppc' # "idle"
          BY <2>2, <3>1
        <4>2. ppc' # "idle" => failed' = 0
          BY <2>2, <3>1
        <4>3. i' <= Len(jobs')
          BY <1>1, <1>6
        <4> QED BY <4>1, <4>2, <4>3 DEF Control
      <3>3. /\ ppc' \in {"idle", "rollback"} /\ rb' \in Nat /\ (ppc' = "rollback" => rb' < i')
            /\ failed' \in 0..1 /\ result' \in {None, "ok", "failed", "Cancelled"}
        BY <1>1, <1>6, <2>2 DEF JInv, PTypeOK
      <3>4. PTypeOK'
        BY <1>1, <1>2, <1>3, <1>6, <2>1, <3>3 DEF JInv, PTypeOK, Loaded, flags
      <3> QED BY <3>2, <3>4
    <2>4. WrittenSoFar' /\ SavedIsBefore'
      BY <1>1, <1>2, <1>6, <2>2 DEF WrittenSoFar, SavedIsBefore
    <2>5. ASSUME ppc' = "rollback", NEW q \in Parts, undoable(q)'
          PROVE  \/ Holds(flash'[q], q, rb', jobs', start')
                 \/ i' \in writersOf(q, i)' /\ writersOf(q, rb)' # {}
      <3>1. rb' = i - 1 /\ i' = i /\ jobs' = jobs /\ start' = start
        BY <1>1, <1>6, <2>2, <2>5
      <3>2. CASE q = p /\ Kind[j].writes
        <4>1. i \in writersOf(q, i)
          BY <1>1, <3>2 DEF writersOf
        <4> QED BY <2>5, <3>1, <4>1 DEF undoable, writersOf
      <3>3. CASE ~(q = p /\ Kind[j].writes)
        <4>1. flash'[q] = flash[q]
          BY <1>1, <1>6, <3>3 DEF damaged
        <4>2. Holds(flash[q], q, i - 1, jobs, start)
          BY <1>1 DEF JInv, WrittenSoFar
        <4> QED BY <3>1, <4>1, <4>2
      <3> QED BY <3>2, <3>3
    <2>6. UndoneSoFar'
      BY <2>5 DEF UndoneSoFar
    <2> QED BY <1>3, <2>3, <2>4, <2>6 DEF JInv
  <1> QED BY <1>5, <1>6 DEF io

\* rollbackAll() undoes one job: what that job had kept is what its
\* partition held before it.
LEMMA RollbackStep ==
  ASSUME JInv, rollbackAll
  PROVE  JInv'
  <1>1. /\ ppc = "rollback" /\ i \in 1..Len(jobs) /\ Len(jobs) \in Nat
        /\ rb \in Nat /\ rb < i /\ failed = 0 /\ running
        /\ UNCHANGED <<i, completed, saved, jobs, flags, history>>
        /\ flash \in [Parts -> Contents] /\ start \in [Parts -> Contents]
        /\ saved \in [Jobs -> Contents \cup {None}] /\ mishap \in BOOLEAN
        /\ jobs \in Seq(Jobs)
    BY FlagsAreBoolean DEF rollbackAll, JInv, Control, PTypeOK, JobList
  <1>2. CASE rb = 0
    <2>1. /\ ppc' = "idle" /\ running' = FALSE /\ result' = "failed" /\ failed' = 1
          /\ UNCHANGED <<rb, flash, mishap>>
      BY <1>1, <1>2 DEF rollbackAll, endRun
    <2>2. {running, paused, cancelled, mishap, late}' \subseteq BOOLEAN
      <3>1. UNCHANGED <<paused, cancelled, mishap, late>> /\ running' = FALSE
        BY <1>1, <2>1 DEF flags, history
      <3> QED BY <3>1, Zenon DEF JInv, PTypeOK
    <2>3. PTypeOK' /\ JobList' /\ Control'
      BY <1>1, <2>1, <2>2 DEF JInv, PTypeOK, JobList, Control, Loaded, flags, history
    <2>4. WrittenSoFar' /\ SavedIsBefore' /\ UndoneSoFar'
      BY <2>1 DEF WrittenSoFar, SavedIsBefore, UndoneSoFar
    <2> QED BY <2>3, <2>4 DEF JInv
  <1>3. CASE rb # 0
    <2> DEFINE j == jobs[rb]
    <2>1. /\ undo(j) /\ rb' = rb - 1
          /\ UNCHANGED <<ppc, running, failed, result>>
          /\ rb \in 1..(i - 1) /\ j \in Jobs /\ Part[j] \in Parts
      <3>1. rb > 0 /\ rb \in 1..(i - 1) /\ rb \in 1..Len(jobs)
        BY <1>1, <1>3
      <3>2. j \in Jobs
        BY <1>1, <3>1
      <3>3. Part[j] \in Parts
        BY <3>2, JobAssumption
      <3> QED BY <3>1, <3>2, <3>3 DEF rollbackAll
    <2>2. /\ mishap' \in BOOLEAN /\ flash' \in [Parts -> Contents]
          /\ mishap' = mishap \/ mishap' = TRUE
          /\ \A q \in Parts : q # Part[j] => flash'[q] = flash[q]
      <3>1. CASE /\ Rollback[j] /\ Kind[j].saves /\ saved[j] # None
                 /\ flash' = [flash EXCEPT ![Part[j]] = saved[j]] /\ mishap' = mishap
        <4>1. saved[j] \in Contents
          BY <1>1, <2>1, <3>1
        <4> QED BY <1>1, <2>1, <3>1, <4>1
      <3>2. CASE flash' \in damaged(Part[j]) /\ mishap' = TRUE
        <4>1. Torn \in Contents
          BY DEF Contents
        <4> QED BY <1>1, <2>1, <3>2, <4>1 DEF damaged
      <3>3. CASE flash' = flash /\ mishap' = mishap
        BY <1>1, <3>3
      <3> QED BY <2>1, <3>1, <3>2, <3>3 DEF undo
    <2>3. {running, paused, cancelled, mishap, late}' \subseteq BOOLEAN
      <3>1. UNCHANGED <<running, paused, cancelled, late>> /\ mishap' \in BOOLEAN
        BY <1>1, <2>1, <2>2 DEF flags, history
      <3> QED BY <3>1, Zenon DEF JInv, PTypeOK
    <2>4. PTypeOK' /\ JobList'
      BY <1>1, <2>1, <2>2, <2>3 DEF JInv, PTypeOK, JobList, Loaded, flags, history
    <2>5. Control'
      <3>1. running' <=> ppc' # "idle"
        BY <1>1, <2>1
      <3>2. failed' = 0 /\ i' <= Len(jobs')
        BY <1>1, <2>1
      <3> QED BY <3>1, <3>2 DEF Control
    <2>6. ppc' = "rollback" /\ start' = start
      BY <1>1, <2>1 DEF history
    <2>7. WrittenSoFar'
      BY <2>6 DEF WrittenSoFar
    <2>8. ~mishap' => ~mishap
      BY <2>2
    <2>9. SavedIsBefore'
      BY <1>1, <2>6, <2>8 DEF JInv, SavedIsBefore
    <2>10. ASSUME ~mishap', NEW q \in Parts, undoable(q)
           PROVE  \/ Holds(flash'[q], q, rb - 1, jobs, start)
                  \/ i \in writersOf(q, i) /\ writersOf(q, rb - 1) # {}
      <3>1. \/ Holds(flash[q], q, rb, jobs, start)
            \/ i \in writersOf(q, i) /\ writersOf(q, rb) # {}
        BY <1>1, <2>8, <2>10 DEF JInv, UndoneSoFar
      <3>2. Kind[j].saves => Holds(saved[j], Part[j], rb - 1, jobs, start)
        BY <1>1, <2>1, <2>8, <2>10 DEF JInv, SavedIsBefore
      <3>3. Kind[j].saves => saved[j] # None
        <4>1. rb - 1 \in Nat /\ rb - 1 <= Len(jobs)
          BY <1>1, <2>1
        <4> QED BY <1>1, <2>1, <3>2, <4>1, HoldsContents
      <3>4. CASE Part[j] = q /\ Kind[j].writes
        <4>1. rb \in writersOf(q, i - 1)
          BY <1>1, <2>1, <3>4 DEF writersOf
        <4>2. Kind[j].saves /\ Rollback[j]
          BY <2>10, <4>1 DEF undoable
        <4>3. flash'[q] = saved[j]
          <5>1. flash' = [flash EXCEPT ![Part[j]] = saved[j]]
            BY <2>1, <2>10, <3>3, <4>2 DEF undo
          <5> QED BY <1>1, <2>1, <3>4, <5>1
        <4> QED BY <3>2, <3>4, <4>2, <4>3
      <3>5. CASE Part[j] = q /\ ~Kind[j].writes /\ Kind[j].saves /\ Rollback[j]
        <4>1. flash' = [flash EXCEPT ![Part[j]] = saved[j]]
          BY <2>1, <2>10, <3>3, <3>5 DEF undo
        <4>2. flash'[q] = saved[j]
          BY <1>1, <2>1, <3>5, <4>1
        <4> QED BY <3>2, <3>5, <4>2
      <3>6. CASE ~(Part[j] = q /\ Kind[j].writes) /\ ~(Part[j] = q /\ Kind[j].saves /\ Rollback[j])
        <4>1. flash'[q] = flash[q]
          BY <2>1, <2>2, <3>6 DEF undo
        <4>2. rb \in Nat \ {0} /\ ~(Part[jobs[rb]] = q /\ Kind[jobs[rb]].writes)
          BY <2>1, <3>6
        <4>3. /\ Writers(jobs, q, rb) = Writers(jobs, q, rb - 1)
              /\ Holds(flash[q], q, rb, jobs, start) <=> Holds(flash[q], q, rb - 1, jobs, start)
          BY <4>2, HoldsSkip
        <4>4. writersOf(q, rb) = writersOf(q, rb - 1)
          BY <4>3 DEF writersOf, Writers
        <4> QED BY <3>1, <4>1, <4>3, <4>4
      <3> QED BY <3>4, <3>5, <3>6
    <2>11. UndoneSoFar'
      BY <1>1, <2>1, <2>6, <2>10 DEF UndoneSoFar, undoable, writersOf
    <2> QED BY <2>4, <2>5, <2>7, <2>9, <2>11 DEF JInv
  <1> QED BY <1>2, <1>3

\* Every step of the pipeline keeps the invariant.
LEMMA NextJInv == JInv /\ [PNext]_pvars => JInv'
  <1> SUFFICES ASSUME JInv, [PNext]_pvars PROVE JInv'
    OBVIOUS
  <1>1. CASE PNext
    <2>1. CASE \E j \in Jobs : addJob(j) \/ removeJob(j) \/ \E k \in 0..Len(jobs) : insertJob(k, j)
      BY <2>1, ListStep
    <2>2. CASE clearJobs
      BY <2>2, ListStep
    <2>3. CASE run
      BY <2>3, BeginStep DEF run
    <2>4. CASE Runner
      BY <2>4, LoopStep, ExecStep, IoStep, RollbackStep DEF Runner
    <2>5. CASE cancel \/ tellJob \/ cancelReturns \/ pause \/ resume
      BY <2>5, CallStep DEF pause, resume
    <2> QED BY <1>1, <2>1, <2>2, <2>3, <2>4, <2>5 DEF PNext
  <1>2. CASE UNCHANGED pvars
    BY <1>2 DEF pvars, run_, flags, device, history, JInv, PTypeOK, Loaded, JobList, Control,
       WrittenSoFar, SavedIsBefore, UndoneSoFar, undoable, writersOf
  <1> QED BY <1>1, <1>2

\* The inductive invariant holds throughout.
THEOREM JobInvariant == PSpec => []JInv
  <1> QED BY InitJInv, NextJInv, PTL DEF PSpec

\* Every variable of the pipeline keeps its type.
THEOREM JobTypes == PSpec => []PTypeOK
  <1>1. JInv => PTypeOK
    BY DEF JInv
  <1> QED BY <1>1, JobInvariant, PTL

\* JobPipeline::rollbackAll() undoes last to first: what the jobs before the
\* failed one changed and may undo is as it was before the run, whatever jobs
\* share a partition.
THEOREM RollbackExact == PSpec => []RollbackIsExact
  <1>1. JInv => RollbackIsExact
    <2> SUFFICES ASSUME JInv, ppc = "rollback", rb = 0, ~mishap, NEW p \in Parts, undoable(p)
                 PROVE  flash[p] = start[p]
      BY DEF RollbackIsExact
    <2>1. writersOf(p, 0) = {}
      BY DEF writersOf
    <2>2. Holds(flash[p], p, 0, jobs, start)
      BY <2>1 DEF JInv, UndoneSoFar
    <2> QED BY <2>2, HoldsNothing
  <1> QED BY <1>1, JobInvariant, PTL

\* JobPipeline::run() that came through the whole list hides no failed write:
\* every partition holds what the last job that wrote it wrote.
THEOREM WrittenOnSuccess == PSpec => []SuccessMeansWritten
  <1>1. JInv => SuccessMeansWritten
    <2> SUFFICES ASSUME JInv, ppc = "loop", i = Len(jobs) + 1, NEW p \in Parts,
                        writersOf(p, Len(jobs)) # {}
                 PROVE  LET last == CHOOSE k \in writersOf(p, Len(jobs)) :
                                      \A m \in writersOf(p, Len(jobs)) : m <= k
                        IN  flash[p] = Data[jobs[last]]
      BY DEF SuccessMeansWritten
    <2> DEFINE W == writersOf(p, Len(jobs))
               last == CHOOSE k \in W : \A m \in W : m <= k
    <2>1. Len(jobs) \in Nat /\ W = Writers(jobs, p, Len(jobs)) /\ W \subseteq Nat
      BY DEF JInv, JobList, writersOf, Writers
    <2>2. Holds(flash[p], p, Len(jobs), jobs, start)
      BY <2>1 DEF JInv, WrittenSoFar
    <2>3. PICK k \in W : (\A m \in W : m <= k) /\ flash[p] = Data[jobs[k]]
      BY <2>1, <2>2 DEF Holds
    <2>4. last \in W /\ \A m \in W : m <= last
      BY <2>3
    <2>5. last = k
      <3> HIDE DEF W, last
      <3> QED BY <2>1, <2>3, <2>4
    <2> QED BY <2>3, <2>5
  <1> QED BY <1>1, JobInvariant, PTL

\* Every step keeps it: while cancel() walks the list nobody changes it, and a
\* job comes to its device operation only with its flag unset.
LEMMA CancelStep ==
  ASSUME JInv, CancelInv, [PNext]_pvars
  PROVE  CancelInv'
  <1>1. jobs \in Seq(Jobs) /\ Len(jobs) \in Nat /\ telling \in Nat
    BY DEF JInv, JobList, PTypeOK
  <1>2. CASE /\ UNCHANGED <<jobs, jcancel, telling, stopped, excused, late>>
             /\ ppc' # "io" \/ (ppc' = ppc /\ i' = i)
    BY <1>2 DEF CancelInv
  <1>3. CASE exec
    <2>1. UNCHANGED <<jobs, i, flags, history>>
      BY <1>3 DEF exec
    <2>2. ppc' = "io" => jobs[i] \notin jcancel
      BY <1>3 DEF exec, jobFailed, jobCancelled, endRun
    <2> QED BY <2>1, <2>2 DEF CancelInv, flags, history
  <1>4. CASE io
    <2>1. ppc = "io" /\ UNCHANGED <<jobs, flags, stopped>> /\ late' = (late \/ jobs[i] \in stopped \ excused)
      BY <1>4 DEF io, atWork
    <2>2. ppc' # "io"
      BY <1>4 DEF io, jobFailed, jobCancelled, jobDone, endRun
    <2> QED BY <2>1, <2>2 DEF CancelInv, flags
  <1>5. CASE tellJob
    <2>1. /\ telling \in 1..Len(jobs) /\ telling' = telling + 1
          /\ jcancel' = jcancel \cup {jobs[telling]}
          /\ UNCHANGED <<jobs, ppc, i, stopped, excused, late>>
      BY <1>1, <1>5 DEF tellJob, run_, history
    <2>2. \A k \in 1..Len(jobs) : k < telling + 1 => k < telling \/ k = telling
      BY <1>1
    <2> QED BY <2>1, <2>2 DEF CancelInv
  <1>6. CASE cancelReturns
    <2>1. /\ telling > Len(jobs) /\ telling' = 0
          /\ stopped' = stopped \cup Loaded
          /\ excused' = IF ppc = "io" THEN {jobs[i]} ELSE {}
          /\ UNCHANGED <<jobs, ppc, i, jcancel, late>>
      BY <1>6 DEF cancelReturns, run_
    <2>2. Loaded \subseteq jcancel
      BY <1>1, <2>1 DEF CancelInv, Loaded, ToSet
    <2> QED BY <1>1, <2>1, <2>2 DEF CancelInv
  <1>7. CASE cancel
    BY <1>1, <1>7 DEF cancel, run_, history, CancelInv
  <1>8. CASE \/ \E j \in Jobs : addJob(j) \/ removeJob(j) \/ \E k \in 0..Len(jobs) : insertJob(k, j)
             \/ clearJobs
    <2>1. /\ ppc' = "idle" /\ telling' = 0
          /\ UNCHANGED <<jcancel, stopped, late>>
      BY <1>8 DEF addJob, removeJob, insertJob, clearJobs, quiet, run_, flags, history
    <2>2. JInv'
      BY <1>8, ListStep
    <2>3. Len(jobs') \in Nat
      BY <2>2 DEF JInv, JobList
    <2> QED BY <2>1, <2>3 DEF CancelInv
  <1>9. CASE run \/ loop \/ rollbackAll \/ pause \/ resume \/ UNCHANGED pvars
    BY <1>2, <1>9 DEF run, beginRun, loop, endRun, rollbackAll, pause, resume, setPaused, pvars, run_,
       flags, history
  <1> QED BY <1>3, <1>4, <1>5, <1>6, <1>7, <1>8, <1>9 DEF PNext, Runner

\* JobPipeline::cancel() sets a flag in each job, one after the other, while
\* run() goes on: once it has returned, no job of the list calls the device
\* but one that was already between its check and that call, and that one
\* once; not even after a later run() has cleared m_cancelled.
THEOREM NoWorkAfter == PSpec => []NoWorkAfterCancel
  <1>1. PInit => CancelInv
    BY DEF PInit, CancelInv
  <1>2. CancelInv => NoWorkAfterCancel
    BY DEF CancelInv, NoWorkAfterCancel
  <1> QED BY <1>1, <1>2, CancelStep, JobInvariant, PTL DEF PSpec
------------------------------------------------------------------------------
(* The scheduler: the order of the queue.                                  *)

\* The place of job j in the sequence o.
placeIn(o, j) == CHOOSE k \in DOMAIN o : o[k] = j

\* The worker has a job in its hands that it has not begun.
pending == wpc \in {"held", "wait", "recheck", "load", "run"}

\* Every job is enqueued once.
OrderIsList ==
    /\ order \in Seq(Jobs)
    /\ \A a, b \in 1..Len(order) : order[a] = order[b] => a = b

Enqueued == {order[k] : k \in 1..Len(order)}

\* What has run, what the worker holds and what waits follow each other in
\* the order of the calls.
Ordered ==
    /\ ran \in Seq(Enqueued) /\ queue \in Seq(Enqueued)
    /\ pending => held \in Enqueued
    /\ \A a, b \in 1..Len(ran) : a < b => placeIn(order, ran[a]) < placeIn(order, ran[b])
    /\ \A a, b \in 1..Len(queue) : a < b => placeIn(order, queue[a]) < placeIn(order, queue[b])
    /\ \A a \in 1..Len(ran), b \in 1..Len(queue) :
          placeIn(order, ran[a]) < placeIn(order, queue[b])
    /\ pending => /\ \A a \in 1..Len(ran) : placeIn(order, ran[a]) < placeIn(order, held)
                  /\ \A b \in 1..Len(queue) : placeIn(order, held) < placeIn(order, queue[b])

QInv == OrderIsList /\ Ordered

\* A job that was enqueued has one place.
LEMMA PlaceIsUnique ==
  ASSUME NEW o \in Seq(Jobs), \A a, b \in 1..Len(o) : o[a] = o[b] => a = b,
         NEW k \in 1..Len(o)
  PROVE  placeIn(o, o[k]) = k
  BY DEF placeIn

\* Enqueueing a new job moves none of the others, and puts it behind them.
LEMMA PlacesStay ==
  ASSUME OrderIsList, NEW j \in Jobs, \A k \in 1..Len(order) : order[k] # j,
         order' = Append(order, j)
  PROVE  /\ OrderIsList' /\ Enqueued' = Enqueued \cup {j}
         /\ \A x \in Enqueued : /\ placeIn(order', x) = placeIn(order, x)
                                /\ placeIn(order, x) < placeIn(order', j)
  <1>1. /\ order' \in Seq(Jobs) /\ Len(order') = Len(order) + 1 /\ Len(order) \in Nat
        /\ \A k \in 1..Len(order) : order'[k] = order[k]
        /\ order'[Len(order) + 1] = j
    BY DEF OrderIsList
  <1>2. OrderIsList'
    BY <1>1 DEF OrderIsList
  <1>3. Enqueued' = Enqueued \cup {j}
    <2>1. \A k : k \in 1..Len(order') <=> k \in 1..Len(order) \/ k = Len(order) + 1
      BY <1>1
    <2> QED BY <1>1, <2>1 DEF Enqueued
  <1>4. placeIn(order', j) = Len(order) + 1
    <2>1. Len(order) + 1 \in 1..Len(order')
      BY <1>1
    <2> QED BY <1>1, <1>2, <2>1, PlaceIsUnique DEF OrderIsList
  <1>5. ASSUME NEW x \in Enqueued
        PROVE  placeIn(order', x) = placeIn(order, x) /\ placeIn(order, x) < placeIn(order', j)
    <2>1. PICK k \in 1..Len(order) : x = order[k]
      BY DEF Enqueued
    <2>2. k \in 1..Len(order') /\ x = order'[k]
      BY <1>1, <2>1
    <2>3. placeIn(order, x) = k
      BY <2>1, PlaceIsUnique DEF OrderIsList
    <2>4. placeIn(order', x) = k
      BY <1>1, <1>2, <2>2, PlaceIsUnique DEF OrderIsList
    <2> QED BY <1>1, <1>4, <2>3, <2>4
  <1> QED BY <1>2, <1>3, <1>5

\* The initial state: nothing enqueued, nothing run.
LEMMA InitQInv == Init => QInv
  BY DEF Init, QInv, OrderIsList, Ordered, pending, None

\* enqueue() puts a new job behind all the others.
LEMMA EnqueueStep ==
  ASSUME QInv, NEW c \in Clients, NEW j \in Jobs, enqueue(c, j)
  PROVE  QInv'
  <1>1. /\ \A k \in 1..Len(order) : order[k] # j
        /\ queue' = Append(queue, j) /\ order' = Append(order, j)
        /\ UNCHANGED <<wpc, held, ran>>
    BY DEF enqueue, ToSet, QInv, OrderIsList
  <1>2. /\ OrderIsList' /\ Enqueued' = Enqueued \cup {j}
        /\ \A x \in Enqueued : /\ placeIn(order', x) = placeIn(order, x)
                               /\ placeIn(order, x) < placeIn(order', j)
    BY <1>1, PlacesStay DEF QInv
  <1>3. /\ queue \in Seq(Enqueued) /\ ran \in Seq(Enqueued)
        /\ Len(queue) \in Nat /\ Len(ran) \in Nat
        /\ \A b \in 1..Len(queue) : queue[b] \in Enqueued
        /\ \A a \in 1..Len(ran) : ran[a] \in Enqueued
    BY DEF QInv, Ordered
  <1>4. /\ Len(queue') = Len(queue) + 1
        /\ \A b \in 1..Len(queue) : queue'[b] = queue[b]
        /\ queue'[Len(queue) + 1] = j
    BY <1>1, <1>3
  <1>5. queue' \in Seq(Enqueued') /\ ran' \in Seq(Enqueued')
    BY <1>1, <1>2, <1>3
  <1>6. pending' = pending /\ (pending' => held' \in Enqueued /\ held' \in Enqueued')
    BY <1>1, <1>2 DEF pending, QInv, Ordered
  <1>7. \A b \in 1..Len(queue') : b \in 1..Len(queue) \/ b = Len(queue) + 1
    BY <1>3, <1>4
  <1>8. \A a, b \in 1..Len(ran') : a < b => placeIn(order', ran'[a]) < placeIn(order', ran'[b])
    BY <1>1, <1>2, <1>3 DEF QInv, Ordered
  <1>9. ASSUME NEW a \in 1..Len(queue'), NEW b \in 1..Len(queue'), a < b
        PROVE  placeIn(order', queue'[a]) < placeIn(order', queue'[b])
    <2>1. a \in 1..Len(queue)
      BY <1>3, <1>7, <1>9
    <2>2. placeIn(order', queue'[a]) = placeIn(order, queue[a])
          /\ placeIn(order, queue[a]) < placeIn(order', j)
      BY <1>2, <1>3, <1>4, <2>1
    <2>3. CASE b \in 1..Len(queue)
      <3>1. placeIn(order', queue'[b]) = placeIn(order, queue[b])
        BY <1>2, <1>3, <1>4, <2>3
      <3> QED BY <1>9, <2>1, <2>2, <2>3, <3>1 DEF QInv, Ordered
    <2>4. CASE b = Len(queue) + 1
      BY <1>4, <2>2, <2>4
    <2> QED BY <1>7, <2>3, <2>4
  <1>10. ASSUME NEW x \in Enqueued,
                \A b \in 1..Len(queue) : placeIn(order, x) < placeIn(order, queue[b])
         PROVE  \A b \in 1..Len(queue') : placeIn(order', x) < placeIn(order', queue'[b])
    <2> SUFFICES ASSUME NEW b \in 1..Len(queue')
                 PROVE  placeIn(order', x) < placeIn(order', queue'[b])
      OBVIOUS
    <2>1. placeIn(order', x) = placeIn(order, x) /\ placeIn(order, x) < placeIn(order', j)
      BY <1>2
    <2>2. CASE b \in 1..Len(queue)
      <3>1. placeIn(order', queue'[b]) = placeIn(order, queue[b])
        BY <1>2, <1>3, <1>4, <2>2
      <3> QED BY <1>10, <2>1, <2>2, <3>1
    <2>3. CASE b = Len(queue) + 1
      BY <1>4, <2>1, <2>3
    <2> QED BY <1>7, <2>2, <2>3
  <1>11. \A a \in 1..Len(ran'), b \in 1..Len(queue') :
            placeIn(order', ran'[a]) < placeIn(order', queue'[b])
    BY <1>1, <1>3, <1>10 DEF QInv, Ordered
  <1>12. pending' => /\ \A a \in 1..Len(ran') : placeIn(order', ran'[a]) < placeIn(order', held')
                     /\ \A b \in 1..Len(queue') : placeIn(order', held') < placeIn(order', queue'[b])
    <2> SUFFICES ASSUME pending' 
                 PROVE  /\ \A a \in 1..Len(ran') : placeIn(order', ran'[a]) < placeIn(order', held')
                        /\ \A b \in 1..Len(queue') : placeIn(order', held') < placeIn(order', queue'[b])
      OBVIOUS
    <2>1. pending /\ held \in Enqueued /\ held' = held
      BY <1>1, <1>6
    <2>2. \A b \in 1..Len(queue') : placeIn(order', held) < placeIn(order', queue'[b])
      BY <1>10, <2>1 DEF QInv, Ordered
    <2>3. \A a \in 1..Len(ran) : placeIn(order', ran[a]) < placeIn(order', held)
      BY <1>2, <1>3, <2>1 DEF QInv, Ordered
    <2> QED BY <1>1, <2>1, <2>2, <2>3
  <1>13. Ordered'
    BY <1>5, <1>6, <1>8, <1>9, <1>11, <1>12 DEF Ordered
  <1> QED BY <1>2, <1>13 DEF QInv

\* The worker takes the head of the queue.
LEMMA PopStep ==
  ASSUME QInv, wPop
  PROVE  QInv'
  <1>1. queue # <<>> /\ UNCHANGED <<order, ran>>
    BY DEF wPop
  <1>2. /\ Len(queue) \in Nat /\ Len(queue) > 0 /\ Len(ran) \in Nat
        /\ queue \in Seq(Enqueued) /\ Head(queue) = queue[1] /\ 1 \in 1..Len(queue)
    BY <1>1 DEF QInv, Ordered
  <1>3. OrderIsList' /\ Enqueued' = Enqueued
    BY <1>1 DEF QInv, OrderIsList, Enqueued
  <1>4. CASE wpc' = "exit" /\ UNCHANGED <<queue, held>>
    BY <1>1, <1>3, <1>4 DEF QInv, Ordered, pending
  <1>5. CASE wpc' = "held" /\ held' = Head(queue) /\ queue' = Tail(queue)
    <2>1. /\ queue' \in Seq(Enqueued) /\ Len(queue') = Len(queue) - 1
          /\ \A b \in 1..Len(queue') : queue'[b] = queue[b + 1] /\ b + 1 \in 1..Len(queue)
      BY <1>2, <1>5
    <2>2. held' = queue[1] /\ held' \in Enqueued
      BY <1>2, <1>5
    <2>3. \A a, b \in 1..Len(queue') : a < b => a + 1 < b + 1
      BY <2>1
    <2>4. \A a, b \in 1..Len(queue') :
             a < b => placeIn(order, queue'[a]) < placeIn(order, queue'[b])
      BY <2>1, <2>3 DEF QInv, Ordered
    <2>5. \A b \in 1..Len(queue') : placeIn(order, held') < placeIn(order, queue'[b])
      <3>1. \A b \in 1..Len(queue') : 1 < b + 1
        BY <2>1
      <3> QED BY <1>2, <2>1, <2>2, <3>1 DEF QInv, Ordered
    <2>6. \A a \in 1..Len(ran) : placeIn(order, ran[a]) < placeIn(order, held')
      BY <1>2, <2>2 DEF QInv, Ordered
    <2>7. \A a \in 1..Len(ran), b \in 1..Len(queue') :
             placeIn(order, ran[a]) < placeIn(order, queue'[b])
      BY <2>1 DEF QInv, Ordered
    <2> QED BY <1>1, <1>3, <2>1, <2>2, <2>4, <2>5, <2>6, <2>7 DEF QInv, Ordered
  <1> QED BY <1>4, <1>5 DEF wPop, Work

\* The worker begins the job it holds.
LEMMA RunStep ==
  ASSUME QInv, wRun
  PROVE  QInv'
  <1>1. /\ wpc = "run" /\ wpc' = "pipeline" /\ ran' = Append(ran, held)
        /\ UNCHANGED <<order, queue, held>>
    BY DEF wRun, Work
  <1>2. /\ pending /\ ~pending' /\ held \in Enqueued
        /\ ran \in Seq(Enqueued) /\ Len(ran) \in Nat
    BY <1>1 DEF QInv, Ordered, pending
  <1>3. OrderIsList' /\ Enqueued' = Enqueued
    BY <1>1 DEF QInv, OrderIsList, Enqueued
  <1>4. /\ ran' \in Seq(Enqueued) /\ Len(ran') = Len(ran) + 1
        /\ \A a \in 1..Len(ran) : ran'[a] = ran[a]
        /\ ran'[Len(ran) + 1] = held
        /\ \A a \in 1..Len(ran') : a \in 1..Len(ran) \/ a = Len(ran) + 1
    BY <1>1, <1>2
  <1>5. ASSUME NEW a \in 1..Len(ran'), NEW b \in 1..Len(ran'), a < b
        PROVE  placeIn(order, ran'[a]) < placeIn(order, ran'[b])
    <2>1. a \in 1..Len(ran)
      BY <1>2, <1>4, <1>5
    <2> QED BY <1>2, <1>4, <1>5, <2>1 DEF QInv, Ordered
  <1>6. \A a \in 1..Len(ran'), b \in 1..Len(queue) :
           placeIn(order, ran'[a]) < placeIn(order, queue[b])
    BY <1>2, <1>4 DEF QInv, Ordered
  <1> QED BY <1>1, <1>2, <1>3, <1>4, <1>5, <1>6 DEF QInv, Ordered

\* Every other step leaves the order alone, drops what it holds or empties
\* the queue.
LEMMA NextQInv == QInv /\ [Next]_vars => QInv'
  <1> SUFFICES ASSUME QInv, [Next]_vars PROVE QInv'
    OBVIOUS
  <1>1. CASE /\ UNCHANGED <<order, ran, held>>
             /\ pending' => pending
             /\ queue' = queue \/ queue' = <<>>
    <2>1. OrderIsList' /\ Enqueued' = Enqueued
      BY <1>1 DEF QInv, OrderIsList, Enqueued
    <2>2. CASE queue' = queue
      BY <1>1, <2>1, <2>2 DEF QInv, Ordered
    <2>3. CASE queue' = <<>>
      <3>1. queue' \in Seq(Enqueued) /\ 1..Len(queue') = {}
        BY <2>3
      <3> QED BY <1>1, <2>1, <3>1 DEF QInv, Ordered
    <2> QED BY <1>1, <2>2, <2>3
  <1>2. ASSUME NEW c \in Clients, start_(c) \/ stop(c) \/ pause_(c) \/ resume_(c) \/ cancel_(c)
        PROVE  QInv'
    BY <1>1, <1>2 DEF start_, stop, pause_, resume_, cancel_, pending
  <1>3. ASSUME NEW c \in Clients, Step(c)
        PROVE  QInv'
    BY <1>1, <1>3 DEF Step, spawn, stopQueue, joinWorker, setPipelinePaused, cancelFlag, cancelJobs,
       pending
  <1>4. CASE wTop \/ wEmpty \/ wHeld \/ wLoad \/ wPipeline \/ wCount \/ wExit
    BY <1>1, <1>4 DEF wTop, wEmpty, wHeld, wLoad, wPipeline, wCount, wExit, Work, svars, pending
  <1>5. CASE UNCHANGED vars
    BY <1>1, <1>5 DEF vars, svars, pending
  <1> QED BY <1>2, <1>3, <1>4, <1>5, EnqueueStep, PopStep, RunStep DEF Next, Worker, Client

\* JobScheduler: the worker runs the jobs in the order they were enqueued and
\* none twice, with any number of client threads that start, stop, pause,
\* resume and cancel it.
THEOREM RunsInOrderAlways == Spec => []RunsInOrder
  <1>1. QInv => RunsInOrder
    BY DEF QInv, Ordered, RunsInOrder, place, placeIn
  <1> QED BY <1>1, InitQInv, NextQInv, PTL DEF Spec

------------------------------------------------------------------------------
(* The scheduler: stop().                                                  *)

OneClient == \A c, d \in Clients : c = d

Stopping == \E c \in Clients : cpc[c] \in {"stopPipeline", "stopIterate", "stopQueue", "join"}

CallsAreFun == cpc = [c \in Clients |-> cpc[c]]

\* A thread that is not joinable has ended; a client that is about to start
\* one has asked for it; and after stop() no thread is left.
StopInv ==
    /\ CallsAreFun
    /\ worker # "joinable" => wpc \in {"none", "done"}
    /\ \A c \in Clients : cpc[c] = "spawn" => asked = "run"
    /\ asked = "stop" => (wpc \in {"none", "done"} \/ Stopping \/ crash # None)

\* Every step keeps it, if one thread makes all the calls.
LEMMA NextStopInv ==
  ASSUME OneClient, StopInv, [Next]_vars
  PROVE  StopInv'
  <1>1. CASE /\ UNCHANGED <<worker, cpc, asked>>
             /\ wpc' \in {"none", "done"} <=> wpc \in {"none", "done"}
             /\ crash' = crash \/ crash' # None
    BY <1>1 DEF StopInv, Stopping, CallsAreFun
  <1>2. CASE Worker
    <2>1. CASE wExit
      BY <2>1 DEF wExit, Work, StopInv, Stopping, CallsAreFun
    <2> QED BY <1>1, <1>2, <2>1 DEF Worker, wTop, wEmpty, wPop, wHeld, wLoad, wRun, wPipeline,
                wCount, Work, svars, None
  <1>3. ASSUME NEW c \in Clients, Client(c)
        PROVE  StopInv'
    <2> DEFINE Local(cp, w, wp, as, cr) ==
                 /\ w # "joinable" => wp \in {"none", "done"}
                 /\ cp = "spawn" => as = "run"
                 /\ as = "stop" => \/ wp \in {"none", "done"} \/ cr # None
                                   \/ cp \in {"stopPipeline", "stopIterate", "stopQueue", "join"}
    <2>1. /\ CallsAreFun /\ Local(cpc[c], worker, wpc, asked, crash)
          /\ CallsAreFun' /\ Local(cpc'[c], worker', wpc', asked', crash') => StopInv'
      <3>1. \A d \in Clients : d = c
        BY DEF OneClient
      <3> QED BY <3>1 DEF StopInv, Stopping
    <2>2. ASSUME NEW s, cpc' = [cpc EXCEPT ![c] = s]
          PROVE  CallsAreFun' /\ cpc'[c] = s
      BY <2>1, <2>2 DEF CallsAreFun
    <2>3. ASSUME NEW j \in Jobs, enqueue(c, j) PROVE StopInv'
      BY <1>1, <2>3 DEF enqueue
    <2>4. CASE start_(c)
      <3>1. CASE UNCHANGED <<state, cpc, asked>>
        BY <1>1, <2>4, <3>1 DEF start_
      <3>2. CASE Goto(c, "spawn") /\ asked' = "run"
        <4>1. CallsAreFun' /\ cpc'[c] = "spawn"
          BY <2>2, <3>2 DEF Goto
        <4> QED BY <2>1, <2>4, <3>2, <4>1 DEF start_
      <3> QED BY <2>4, <3>1, <3>2 DEF start_
    <2>5. CASE stop(c)
      <3>1. CallsAreFun' /\ cpc'[c] = "stopPipeline"
        BY <2>2, <2>5 DEF stop, Goto
      <3> QED BY <2>1, <2>5, <3>1 DEF stop
    <2>6. CASE pause_(c) \/ resume_(c) \/ cancel_(c)
      <3>1. \/ cpc' = cpc
            \/ CallsAreFun' /\ cpc'[c] \in {"pausePipeline", "resumePipeline", "cancelPipeline"}
        <4>1. \/ cpc' = cpc
              \/ \E to \in {"pausePipeline", "resumePipeline", "cancelPipeline"} : Goto(c, to)
          BY <2>6 DEF pause_, resume_, cancel_
        <4> QED BY <2>2, <4>1 DEF Goto
      <3>2. cpc[c] = "idle" /\ UNCHANGED <<wpc, worker, crash>>
            /\ (asked' = "stop" => asked = "stop")
        BY <2>6 DEF pause_, resume_, cancel_, Begin
      <3>3. cpc' = cpc => CallsAreFun' /\ cpc'[c] = "idle"
        BY <2>1, <3>2 DEF CallsAreFun
      <3> QED BY <2>1, <3>1, <3>2, <3>3
    <2>7. CASE spawn(c)
      <3>1. CallsAreFun' /\ cpc'[c] = "idle" /\ cpc[c] = "spawn"
        BY <2>2, <2>7 DEF spawn, At
      <3>2. /\ asked' = "run"
            /\ \/ crash' # None /\ UNCHANGED <<worker, wpc>>
               \/ worker' = "joinable"
        BY <2>1, <2>7, <3>1 DEF spawn, None
      <3> QED BY <2>1, <3>1, <3>2
    <2>8. CASE joinWorker(c)
      <3>1. CallsAreFun' /\ cpc'[c] = "idle"
        BY <2>2, <2>8 DEF joinWorker, At
      <3>2. wpc' \in {"none", "done"} /\ asked' = asked
        BY <2>1, <2>8 DEF joinWorker
      <3> QED BY <2>1, <3>1, <3>2
    <2>9. CASE stopQueue(c) \/ cancelFlag(c, "stopPipeline", "stopIterate")
               \/ cancelJobs(c, "stopIterate", "stopQueue")
      <3>1. CallsAreFun' /\ cpc'[c] \in {"stopIterate", "stopQueue", "join"}
        BY <2>2, <2>9 DEF stopQueue, cancelFlag, cancelJobs, At
      <3>2. UNCHANGED <<wpc, worker, asked, crash>>
        BY <2>9 DEF stopQueue, cancelFlag, cancelJobs
      <3> QED BY <2>1, <3>1, <3>2
    <2>10. CASE setPipelinePaused(c) \/ cancelFlag(c, "cancelPipeline", "iterate")
                \/ cancelJobs(c, "iterate", "idle")
      <3>1. /\ CallsAreFun' /\ cpc'[c] \in {"idle", "iterate"}
            /\ cpc[c] \in {"pausePipeline", "resumePipeline", "cancelPipeline", "iterate"}
        BY <2>2, <2>10 DEF setPipelinePaused, cancelFlag, cancelJobs, At
      <3>2. UNCHANGED <<wpc, worker, asked, crash>>
        BY <2>10 DEF setPipelinePaused, cancelFlag, cancelJobs
      <3> QED BY <2>1, <3>1, <3>2
    <2> QED BY <1>3, <2>3, <2>4, <2>5, <2>6, <2>7, <2>8, <2>9, <2>10 DEF Client, Step
  <1>4. CASE UNCHANGED vars
    BY <1>1, <1>4 DEF vars, svars
  <1> QED BY <1>2, <1>3, <1>4 DEF Next

\* JobScheduler: the queue is worked off in order, and when stop() has
\* returned the worker has ended, if one client thread makes all the calls: a
\* stop() between another thread's start() and the creation of its worker
\* joins nothing.
THEOREM QueueHonoured == OneClient => (Spec => []QueueIsHonoured)
  <1> SUFFICES ASSUME OneClient PROVE Spec => []QueueIsHonoured
    OBVIOUS
  <1>1. Init => StopInv
    BY DEF Init, StopInv, CallsAreFun
  <1>2. StopInv /\ [Next]_vars => StopInv'
    BY NextStopInv
  <1>3. StopInv => StopIsFinal
    BY DEF StopInv, Stopping, StopIsFinal
  <1>4. RunsInOrder /\ StopIsFinal => QueueIsHonoured
    BY DEF QueueIsHonoured
  <1> QED BY <1>1, <1>2, <1>3, <1>4, RunsInOrderAlways, PTL DEF Spec
==============================================================================
