---------------------------- MODULE DaemonProofs ----------------------------
(***************************************************************************)
(* Proofs about Daemon and the two modules it composes, for every list of  *)
(* children, restart strategy, limit, window and clock, every set of       *)
(* migration files and openers and every number of lives.                  *)
(***************************************************************************)
EXTENDS Daemon, FiniteSetTheorems, TLAPS

ChildExit == [child : Child, err : BOOLEAN]

\* Before Run, and after a process is gone, the tree is empty.
Resting == run = "off" => running = Nobody /\ leaving = Nobody /\ exits = <<>> /\ ~done

\* Under OneForOne a child is in one place at most: it runs, or leaves, or its exit is
\* in the channel.
OnePlace ==
  strategy = "OneForOne" =>
    /\ \A k \in DOMAIN exits : running[exits[k].child] = 0 /\ leaving[exits[k].child] = 0
    /\ \A j, k \in DOMAIN exits : exits[j].child = exits[k].child => j = k

\* What allowRestart has forgotten lies before the window that ends now.
Pruned == \A k \in DOMAIN granted : k \notin restartsAt => granted[k] <= now - Window

\* Time moves on between restarts.
InOrder ==
  /\ \A k \in DOMAIN granted : granted[k] <= now
  /\ \A j, k \in DOMAIN granted : j <= k => granted[j] <= granted[k]

SupervisorInv ==
  /\ SupervisorTypeOK /\ Resting /\ OnePlace /\ OneIncarnation
  /\ NobodyLeftRunning /\ NoneForgotten
  /\ Pruned /\ InOrder /\ RestartIntensity

----------------------------------------------------------------------------
(* The supervisor *)

\* A channel that a message enters, or leaves.
LEMMA Sent ==
  ASSUME NEW S, NEW s \in Seq(S), NEW e \in S
  PROVE  /\ Append(s, e) \in Seq(S) /\ Len(Append(s, e)) = Len(s) + 1
         /\ DOMAIN Append(s, e) = DOMAIN s \cup {Len(s) + 1}
         /\ \A k \in DOMAIN s : k # Len(s) + 1 /\ Append(s, e)[k] = s[k]
         /\ Append(s, e)[Len(s) + 1] = e
  OBVIOUS

LEMMA Received ==
  ASSUME NEW S, NEW s \in Seq(S), s # <<>>
  PROVE  /\ Head(s) = s[1] /\ 1 \in DOMAIN s /\ s[1] \in S
         /\ Tail(s) \in Seq(S) /\ Len(Tail(s)) = Len(s) - 1
         /\ \A k \in DOMAIN Tail(s) : k + 1 \in DOMAIN s /\ Tail(s)[k] = s[k + 1]
         /\ \A k \in DOMAIN s : k # 1 => k - 1 \in DOMAIN Tail(s) /\ Tail(s)[k - 1] = s[k]
  OBVIOUS

LEMMA AffectedOf ==
  ASSUME strategy \in Strategy, NEW i \in Child
  PROVE  /\ i \in Affected(i) /\ Affected(i) \subseteq Child
         /\ strategy = "OneForOne" => Affected(i) = {i}
  BY SupervisorAssumption DEF Affected, Strategy, Child

\* What start does to the children it is called for, and to no other.
LEMMA StartEffect ==
  ASSUME SupervisorTypeOK, NEW C \in SUBSET Child, CancelAndStart(C)
  PROVE  /\ running' \in [Child -> Nat] /\ leaving' \in [Child -> Nat]
         /\ \A i \in Child \ C : running'[i] = running[i] /\ leaving'[i] = leaving[i]
         /\ \A i \in C : /\ running'[i] = (IF done THEN 0 ELSE 1)
                         /\ leaving'[i] = leaving[i] + running[i] + (IF done THEN 1 ELSE 0)
  BY DEF SupervisorTypeOK, CancelAndStart, Plus, Only, Nobody

LEMMA CancelEffect ==
  ASSUME SupervisorTypeOK, CancelAll
  PROVE  /\ running' = Nobody /\ running' \in [Child -> Nat] /\ leaving' \in [Child -> Nat]
         /\ \A i \in Child : running'[i] = 0 /\ leaving'[i] = leaving[i] + running[i]
  BY DEF SupervisorTypeOK, CancelAll, Plus, Nobody

LEMMA CancelLatestEffect ==
  ASSUME SupervisorTypeOK, OneIncarnation, CancelLatest
  PROVE  /\ running' = Nobody /\ running' \in [Child -> Nat] /\ leaving' \in [Child -> Nat]
         /\ \A i \in Child : running'[i] = 0 /\ leaving'[i] = leaving[i] + running[i]
<1>1. \A i \in Child : /\ running'[i] = 0
                       /\ leaving'[i] = leaving[i] + running[i]
  BY DEF SupervisorTypeOK, OneIncarnation, CancelLatest, Plus
<1>2. running' = [i \in Child |-> running'[i]] /\ leaving' = [i \in Child |-> leaving'[i]]
  BY DEF CancelLatest, Plus
<1>3. running' = Nobody
  BY <1>1, <1>2 DEF Nobody
<1>4. QED
  BY <1>1, <1>2, <1>3 DEF SupervisorTypeOK

\* The loop takes the head of the channel.
LEMMA TookEffect ==
  ASSUME SupervisorTypeOK, Took
  PROVE  /\ exits # <<>> /\ Head(exits) = exits[1] /\ 1 \in DOMAIN exits /\ exits[1] \in ChildExit
         /\ exits' \in Seq(ChildExit) /\ Len(exits') <= Children
         /\ \A k \in DOMAIN exits' : k + 1 \in DOMAIN exits /\ exits'[k] = exits[k + 1]
         /\ \A k \in DOMAIN exits : k # 1 => k - 1 \in DOMAIN exits' /\ exits'[k - 1] = exits[k]
<1>1. exits \in Seq(ChildExit) /\ exits # <<>> /\ exits' = Tail(exits)
      /\ Len(exits) <= Children
  BY DEF SupervisorTypeOK, Took, ChildExit
<1>2. Len(Tail(exits)) = Len(exits) - 1 /\ Len(exits) \in Nat /\ Children \in Nat
  BY <1>1, Received, SupervisorAssumption
<1>3. QED
  BY <1>1, <1>2, Received

\* The restarts and the clock stand still.
LEMMA HistoryFrame ==
  ASSUME SupervisorInv, UNCHANGED <<restartsAt, now, granted>>
  PROVE  Pruned' /\ InOrder' /\ RestartIntensity'
  BY DEF SupervisorInv, Pruned, InOrder, RestartIntensity

LEMMA RunKeeps ==
  ASSUME SupervisorInv, Run
  PROVE  SupervisorInv'
<1> USE DEF SupervisorInv
<1>1. /\ \A i \in Child : running'[i] = 1 /\ leaving'[i] = 0
      /\ running' \in [Child -> Nat]
      /\ exits' = <<>> /\ exits = <<>> /\ run' = "on"
  BY DEF Run, Resting, Nobody
<1>2. SupervisorTypeOK'
  BY <1>1 DEF Run, SupervisorTypeOK
<1>3. Resting' /\ OnePlace' /\ OneIncarnation' /\ NobodyLeftRunning' /\ NoneForgotten'
  BY <1>1 DEF Resting, OnePlace, OneIncarnation, NobodyLeftRunning, NoneForgotten
<1>4. Pruned' /\ InOrder' /\ RestartIntensity'
  BY HistoryFrame DEF Run
<1>5. QED
  BY <1>2, <1>3, <1>4

\* An exit under a live context is an error, whatever the child runs.
LEMMA LiveExitsAreErrors ==
  ASSUME NEW i \in Child, NEW err \in BOOLEAN, Returns(i, TRUE, err)
  PROVE  err
<1>1. Kind[i] \in {"server", "scheduler", "worker"}
  BY SupervisorAssumption DEF Child
<1>2. QED
  BY <1>1 DEF Returns, ServerRun, SchedulerRun, WorkerRun

LEMMA ExitedKeeps ==
  ASSUME SupervisorInv, NEW i \in Child, NEW err \in BOOLEAN, Exited(i, err), run # "off"
  PROVE  SupervisorInv'
<1> USE DEF SupervisorInv
<1>1. /\ strategy' = strategy /\ restartsAt' = restartsAt /\ run' = run /\ done' = done
      /\ now' = now /\ granted' = granted
  BY DEF Exited
<1>2. /\ running' \in [Child -> Nat] /\ leaving' \in [Child -> Nat]
      /\ \A j \in Child \ {i} : running'[j] = running[j] /\ leaving'[j] = leaving[j]
      /\ \/ running[i] > 0 /\ running'[i] = running[i] - 1 /\ leaving'[i] = leaving[i] /\ err
         \/ leaving[i] > 0 /\ leaving'[i] = leaving[i] - 1 /\ running'[i] = running[i]
  <2>1. running \in [Child -> Nat] /\ leaving \in [Child -> Nat]
    BY DEF SupervisorTypeOK
  <2>2. CASE running[i] > 0 /\ Returns(i, TRUE, err) /\ running' = [running EXCEPT ![i] = @ - 1]
             /\ leaving' = leaving
    <3>1. err
      BY <2>2, LiveExitsAreErrors
    <3>2. QED
      BY <2>1, <2>2, <3>1
  <2>3. CASE leaving[i] > 0 /\ leaving' = [leaving EXCEPT ![i] = @ - 1] /\ running' = running
    BY <2>1, <2>3
  <2>4. QED
    BY <2>2, <2>3 DEF Exited
<1> DEFINE n == Len(exits) + 1
           e == [child |-> i, err |-> err]
<1>4. exits \in Seq(ChildExit) /\ Len(exits) \in Nat /\ Len(exits) <= Children /\ e \in ChildExit
  BY DEF SupervisorTypeOK, ChildExit
<1>3. \/ /\ exits' \in Seq(ChildExit) /\ Len(exits') <= Children
         /\ DOMAIN exits' = DOMAIN exits \cup {n}
         /\ exits'[n] = e /\ exits'[n].child = i
         /\ \A k \in DOMAIN exits : k # n /\ exits'[k] = exits[k]
      \/ exits' = exits /\ done
  <2>1. CASE Len(exits) < Children /\ exits' = Append(exits, e)
    <3>1. Len(exits') <= Children
      BY <1>4, <2>1, Sent, SupervisorAssumption
    <3>2. QED
      BY <1>4, <2>1, <3>1, Sent
  <2>2. QED
    BY <2>1 DEF Exited
<1> HIDE DEF n, e
<1>5. SupervisorTypeOK'
  BY <1>1, <1>2, <1>3 DEF SupervisorTypeOK, ChildExit
<1>6. Resting' /\ OneIncarnation' /\ NobodyLeftRunning'
  <2>1. \A j \in Child : /\ running[j] \in Nat /\ leaving[j] \in Nat
                         /\ running'[j] \in Nat /\ leaving'[j] \in Nat
                         /\ running'[j] <= running[j]
                         /\ running'[j] + leaving'[j] <= running[j] + leaving[j]
    <3>1. ASSUME NEW j \in Child
          PROVE  running[j] \in Nat /\ leaving[j] \in Nat /\ running'[j] \in Nat /\ leaving'[j] \in Nat
      BY <1>2 DEF SupervisorTypeOK
    <3>2. QED
      BY <1>2, <3>1
  <2>2. OneIncarnation'
    BY <1>1, <2>1 DEF OneIncarnation
  <2>3. running = Nobody => running' = Nobody
    BY <1>2, <2>1 DEF Nobody
  <2>4. QED
    BY <1>1, <2>2, <2>3 DEF Resting, NobodyLeftRunning
<1>7. OnePlace'
  <2>1. SUFFICES ASSUME strategy = "OneForOne"
                 PROVE  /\ \A k \in DOMAIN exits' : /\ running'[exits'[k].child] = 0
                                                    /\ leaving'[exits'[k].child] = 0
                        /\ \A j, k \in DOMAIN exits' : exits'[j].child = exits'[k].child => j = k
    BY <1>1 DEF OnePlace
  <2>2. \A k \in DOMAIN exits : exits[k].child \in Child \ {i}
    <3>1. \A k \in DOMAIN exits : exits[k] \in ChildExit
      BY <1>4
    <3>2. running[i] # 0 \/ leaving[i] # 0
      BY <1>2
    <3>3. QED
      BY <2>1, <3>1, <3>2 DEF OnePlace, ChildExit
  <2>3. running'[i] = 0 /\ leaving'[i] = 0
    BY <1>2, <2>1 DEF OneIncarnation, SupervisorTypeOK
  <2>4. CASE exits' = exits
    BY <1>2, <2>1, <2>2, <2>4 DEF OnePlace
  <2>5. CASE /\ DOMAIN exits' = DOMAIN exits \cup {n}
             /\ exits'[n].child = i
             /\ \A k \in DOMAIN exits : k # n /\ exits'[k] = exits[k]
    BY <1>2, <2>1, <2>2, <2>3, <2>5 DEF OnePlace
  <2>6. QED
    BY <1>3, <2>4, <2>5
<1>8. NoneForgotten'
  <2>1. SUFFICES ASSUME run = "on", ~done, NEW j \in Child, running'[j] = 0
                 PROVE  [child |-> j, err |-> TRUE] \in ToSet(exits')
    <3>1. \A j \in Child : running'[j] \in Nat
      BY <1>2
    <3>2. QED
      BY <1>1, <3>1 DEF NoneForgotten, ToSet
  <2>2. CASE running[j] = 0
    <3>1. PICK k \in DOMAIN exits : exits[k] = [child |-> j, err |-> TRUE]
      BY <2>1, <2>2 DEF NoneForgotten, ToSet
    <3>2. k \in DOMAIN exits' /\ exits'[k] = exits[k]
      BY <1>3, <1>4, <2>1
    <3>3. QED
      BY <3>1, <3>2 DEF ToSet
  <2>3. CASE running[j] # 0
    <3>1. j = i /\ err
      BY <1>2, <2>1, <2>3 DEF SupervisorTypeOK
    <3>2. exits'[n] = [child |-> j, err |-> TRUE] /\ n \in DOMAIN exits'
      BY <1>3, <2>1, <3>1 DEF e
    <3>3. QED
      BY <3>2 DEF ToSet
  <2>4. QED
    BY <2>2, <2>3
<1>9. Pruned' /\ InOrder' /\ RestartIntensity'
  BY <1>1, HistoryFrame
<1>10. QED
  BY <1>5, <1>6, <1>7, <1>8, <1>9

\* What is left in the channel when the loop has taken its head.
LEMMA TookLeaves ==
  ASSUME SupervisorInv, Took
  PROVE  /\ \A i \in Child : [child |-> i, err |-> TRUE] \in ToSet(exits)
                               /\ exits[1] # [child |-> i, err |-> TRUE] =>
                             [child |-> i, err |-> TRUE] \in ToSet(exits')
         /\ strategy = "OneForOne" =>
              /\ \A k \in DOMAIN exits' : exits'[k].child \in Child \ {exits[1].child}
              /\ \A k \in DOMAIN exits' : running[exits'[k].child] = 0 /\ leaving[exits'[k].child] = 0
              /\ \A j, k \in DOMAIN exits' : exits'[j].child = exits'[k].child => j = k
              /\ running[exits[1].child] = 0 /\ leaving[exits[1].child] = 0
<1> USE DEF SupervisorInv
<1>1. ASSUME NEW i \in Child, [child |-> i, err |-> TRUE] \in ToSet(exits),
             exits[1] # [child |-> i, err |-> TRUE]
      PROVE  [child |-> i, err |-> TRUE] \in ToSet(exits')
  <2>1. PICK k \in DOMAIN exits : exits[k] = [child |-> i, err |-> TRUE]
    BY <1>1 DEF ToSet
  <2>2. k - 1 \in DOMAIN exits' /\ exits'[k - 1] = exits[k]
    BY <1>1, <2>1, TookEffect
  <2>3. QED
    BY <2>1, <2>2 DEF ToSet
<1>2. ASSUME strategy = "OneForOne"
      PROVE  /\ \A k \in DOMAIN exits' : exits'[k].child \in Child \ {exits[1].child}
             /\ \A k \in DOMAIN exits' : running[exits'[k].child] = 0 /\ leaving[exits'[k].child] = 0
             /\ \A j, k \in DOMAIN exits' : exits'[j].child = exits'[k].child => j = k
             /\ running[exits[1].child] = 0 /\ leaving[exits[1].child] = 0
  <2>1. /\ exits' \in Seq(ChildExit) /\ 1 \in DOMAIN exits
        /\ \A k \in DOMAIN exits' : k \in Nat /\ k >= 1
        /\ \A k \in DOMAIN exits' : exits'[k] \in ChildExit
        /\ \A k \in DOMAIN exits' : k + 1 \in DOMAIN exits /\ exits'[k] = exits[k + 1]
    BY TookEffect
  <2>2. \A k \in DOMAIN exits' : exits'[k].child \in Child /\ exits'[k].child # exits[1].child
    BY <1>2, <2>1 DEF OnePlace, ChildExit
  <2>3. \A k \in DOMAIN exits' : running[exits'[k].child] = 0 /\ leaving[exits'[k].child] = 0
    BY <1>2, <2>1 DEF OnePlace
  <2>4. \A j, k \in DOMAIN exits' : exits'[j].child = exits'[k].child => j = k
    BY <1>2, <2>1 DEF OnePlace
  <2>5. running[exits[1].child] = 0 /\ leaving[exits[1].child] = 0
    BY <1>2, <2>1 DEF OnePlace
  <2>6. QED
    BY <2>2, <2>3, <2>4, <2>5
<1>3. QED
  BY <1>1, <1>2

LEMMA CleanExitKeeps ==
  ASSUME SupervisorInv, CleanExit
  PROVE  SupervisorInv'
<1> USE DEF SupervisorInv
<1>1. /\ strategy' = strategy /\ running' = running /\ leaving' = leaving
      /\ restartsAt' = restartsAt /\ run' = run /\ run = "on" /\ done' = done /\ now' = now
      /\ granted' = granted /\ Took /\ ~exits[1].err
  BY TookEffect DEF CleanExit, Took
<1>2. SupervisorTypeOK'
  BY <1>1, TookEffect DEF SupervisorTypeOK, ChildExit
<1>3. Resting' /\ OneIncarnation' /\ NobodyLeftRunning'
  BY <1>1 DEF Resting, OneIncarnation, NobodyLeftRunning
<1>4. OnePlace'
  BY <1>1, TookLeaves DEF OnePlace
<1>5. NoneForgotten'
  <2>1. \A i \in Child : exits[1] # [child |-> i, err |-> TRUE]
    BY <1>1
  <2>2. QED
    BY <1>1, <2>1, TookLeaves DEF NoneForgotten, ToSet
<1>6. Pruned' /\ InOrder' /\ RestartIntensity'
  BY <1>1, HistoryFrame
<1>7. QED
  BY <1>2, <1>3, <1>4, <1>5, <1>6

\* The restarts allowRestart remembers, all of them inside the window.
LEMMA KeptBounds ==
  ASSUME SupervisorTypeOK
  PROVE  /\ Kept \subseteq restartsAt /\ Kept \subseteq 1..Len(granted)
         /\ IsFiniteSet(Kept) /\ Cardinality(Kept) \in Nat
         /\ Cardinality(Kept) <= MaxRestarts
<1>1. /\ restartsAt \subseteq 1..Len(granted) /\ Len(granted) \in Nat
      /\ Cardinality(restartsAt) <= MaxRestarts
  BY DEF SupervisorTypeOK
<1>2. IsFiniteSet(1..Len(granted))
  BY <1>1, FS_Interval
<1>3. IsFiniteSet(restartsAt)
  BY <1>1, <1>2, FS_Subset
<1>4. Kept \subseteq restartsAt
  BY DEF Kept
<1>5. /\ IsFiniteSet(Kept) /\ Cardinality(Kept) <= Cardinality(restartsAt)
  BY <1>3, <1>4, FS_Subset
<1>6. Cardinality(Kept) \in Nat /\ Cardinality(restartsAt) \in Nat
  BY <1>3, <1>5, FS_CardinalityType
<1>7. QED
  BY <1>1, <1>4, <1>5, <1>6, SupervisorAssumption

LEMMA ForgottenAreOld ==
  ASSUME SupervisorTypeOK, Pruned, NEW k \in DOMAIN granted, k \notin Kept
  PROVE  granted[k] <= now - Window
<1>1. granted[k] \in Nat /\ now - Window \in Int
  <2>1. granted \in Seq(0..Horizon) /\ now \in 0..Horizon /\ Window \in Nat /\ Horizon \in Nat
    BY SupervisorAssumption DEF SupervisorTypeOK
  <2>2. QED
    BY <2>1
<1>2. CASE k \in restartsAt
  BY <1>1, <1>2 DEF Kept
<1>3. CASE k \notin restartsAt
  BY <1>3 DEF Pruned
<1>4. QED
  BY <1>2, <1>3

\* The heart of the limit: when MaxRestarts restarts or more were granted and another
\* is allowed, the one MaxRestarts back has left the window.
LEMMA OldRestartIsOut ==
  ASSUME SupervisorTypeOK, Pruned, InOrder, AllowRestart, Len(granted) >= MaxRestarts, MaxRestarts > 0
  PROVE  granted[Len(granted) + 1 - MaxRestarts] <= now - Window
<1> DEFINE n == Len(granted)
           m == n + 1 - MaxRestarts
<1>1. n \in Nat /\ MaxRestarts \in Nat /\ m \in 1..n /\ Window \in Nat /\ now \in Nat
      /\ DOMAIN granted = 1..n
  BY SupervisorAssumption DEF SupervisorTypeOK
<1>2. \A k \in 1..n : granted[k] \in Nat
  <2>1. granted \in Seq(0..Horizon) /\ Horizon \in Nat
    BY SupervisorAssumption DEF SupervisorTypeOK
  <2>2. QED
    BY <1>1, <2>1
<1>3. SUFFICES ASSUME ~(granted[m] <= now - Window)
               PROVE  FALSE
  OBVIOUS
<1>4. m..n \subseteq Kept
  <2>1. SUFFICES ASSUME NEW k \in m..n
                 PROVE  k \in Kept
    OBVIOUS
  <2>2. k \in 1..n /\ m <= k
    BY <1>1, <2>1
  <2>3. granted[k] >= granted[m]
    BY <1>1, <1>2, <2>2 DEF InOrder
  <2>4. granted[k] > now - Window
    BY <1>1, <1>2, <1>3, <2>2, <2>3
  <2>5. k \in restartsAt
    BY <1>1, <1>2, <2>2, <2>4 DEF Pruned
  <2>6. QED
    BY <2>4, <2>5 DEF Kept
<1>5. Cardinality(m..n) = MaxRestarts
  BY <1>1, FS_Interval
<1>6. Cardinality(m..n) <= Cardinality(Kept)
  BY <1>4, KeptBounds, FS_Subset
<1>7. QED
  BY <1>1, <1>5, <1>6, KeptBounds DEF AllowRestart

LEMMA RestartHistory ==
  ASSUME SupervisorInv, Restart
  PROVE  /\ granted' \in Seq(0..Horizon)
         /\ restartsAt' \subseteq DOMAIN granted' /\ Cardinality(restartsAt') <= MaxRestarts
         /\ Pruned' /\ InOrder' /\ RestartIntensity'
<1> DEFINE n == Len(granted)
<1> USE DEF SupervisorInv
<1>1. /\ granted \in Seq(0..Horizon) /\ n \in Nat /\ now \in 0..Horizon /\ now' = now
      /\ Window \in Nat \ {0} /\ MaxRestarts \in Nat /\ Horizon \in Nat
  BY SupervisorAssumption DEF SupervisorTypeOK, Restart
<1>2. /\ granted' = Append(granted, now) /\ AllowRestart
      /\ restartsAt' = Kept \cup {Len(granted')}
  BY DEF Restart
<1>3. /\ granted' \in Seq(0..Horizon) /\ Len(granted') = n + 1
      /\ granted'[n + 1] = now
      /\ \A k \in 1..n : granted'[k] = granted[k]
      /\ DOMAIN granted' = 1..(n + 1) /\ DOMAIN granted = 1..n
  BY <1>1, <1>2
<1>4. \A k \in 1..n : granted[k] \in Nat
  BY <1>1
<1>5. restartsAt' \subseteq DOMAIN granted' /\ Cardinality(restartsAt') <= MaxRestarts
  <2>1. n + 1 \notin Kept
    BY <1>1, KeptBounds
  <2>2. Cardinality(Kept \cup {n + 1}) = Cardinality(Kept) + 1
    BY <2>1, KeptBounds, FS_AddElement
  <2>3. Cardinality(Kept) + 1 <= MaxRestarts
    BY <1>1, <1>2, KeptBounds DEF AllowRestart
  <2>4. Kept \cup {n + 1} \subseteq 1..(n + 1)
    BY <1>1, KeptBounds
  <2>5. QED
    BY <1>2, <1>3, <2>2, <2>3, <2>4
<1>6. Pruned'
  BY <1>1, <1>2, <1>3, ForgottenAreOld DEF Pruned
<1>7. InOrder'
  <2>1. \A k \in 1..(n + 1) : granted'[k] <= now
    <3>1. \A k \in 1..n : granted[k] <= now
      BY <1>3 DEF InOrder
    <3>2. \A k \in 1..(n + 1) : k \in 1..n \/ k = n + 1
      BY <1>1
    <3>3. QED
      BY <1>1, <1>3, <3>1, <3>2
  <2>2. ASSUME NEW j \in 1..(n + 1), NEW k \in 1..(n + 1), j <= k
        PROVE  granted'[j] <= granted'[k]
    <3>1. CASE k = n + 1
      BY <1>3, <2>1, <3>1
    <3>2. CASE k # n + 1
      <4>1. j \in 1..n /\ k \in 1..n
        BY <1>1, <2>2, <3>2
      <4>2. QED
        BY <1>3, <2>2, <4>1 DEF InOrder
    <3>3. QED
      BY <3>1, <3>2
  <2>3. QED
    BY <1>1, <1>3, <2>1, <2>2 DEF InOrder
<1>8. RestartIntensity'
  <2>1. ASSUME NEW k \in 1..(n + 1), k > MaxRestarts
        PROVE  granted'[k] - granted'[k - MaxRestarts] >= Window
    <3>0. k - MaxRestarts \in 1..n \/ MaxRestarts = 0
      BY <1>1, <2>1
    <3>1. CASE k \in 1..n
      <4>1. k - MaxRestarts \in 1..n
        BY <1>1, <2>1, <3>1
      <4>2. QED
        BY <1>3, <2>1, <3>1, <4>1 DEF RestartIntensity
    <3>2. CASE k = n + 1
      <4>1. MaxRestarts > 0
        BY <1>1, <1>2, KeptBounds DEF AllowRestart
      <4>2. k - MaxRestarts \in 1..n /\ granted'[k - MaxRestarts] = granted[k - MaxRestarts]
        <5>1. k - MaxRestarts \in 1..n
          BY <1>1, <2>1, <3>2, <4>1
        <5>2. QED
          BY <1>3, <5>1
      <4>3. granted[n + 1 - MaxRestarts] <= now - Window
        BY <1>1, <1>2, <2>1, <3>2, <4>1, OldRestartIsOut
      <4>4. QED
        BY <1>1, <1>3, <1>4, <3>2, <4>2, <4>3
    <3>3. QED
      BY <1>1, <2>1, <3>1, <3>2
  <2>2. QED
    BY <1>1, <1>3, <2>1 DEF RestartIntensity
<1>9. QED
  BY <1>3, <1>5, <1>6, <1>7, <1>8

LEMMA RestartKeeps ==
  ASSUME SupervisorInv, Restart
  PROVE  SupervisorInv'
<1> DEFINE h == exits[1].child
           C == Affected(h)
<1> USE DEF SupervisorInv
<1>1. /\ strategy' = strategy /\ run' = run /\ run = "on" /\ done' = done /\ now' = now
      /\ Took /\ h \in Child /\ CancelAndStart(C)
  <2>1. Took /\ Head(exits) = exits[1] /\ exits[1] \in ChildExit
    BY TookEffect DEF Restart
  <2>2. QED
    BY <2>1 DEF Restart, Took, ChildExit
<1>2. /\ h \in C /\ C \subseteq Child
      /\ strategy = "OneForOne" => C = {h}
  BY <1>1, AffectedOf DEF SupervisorTypeOK
<1> HIDE DEF C
<1>3. /\ running' \in [Child -> Nat] /\ leaving' \in [Child -> Nat]
      /\ \A i \in Child \ C : running'[i] = running[i] /\ leaving'[i] = leaving[i]
      /\ \A i \in C : /\ running'[i] = (IF done THEN 0 ELSE 1)
                      /\ leaving'[i] = leaving[i] + running[i] + (IF done THEN 1 ELSE 0)
  BY <1>1, <1>2, StartEffect
<1>4. SupervisorTypeOK'
  BY <1>1, <1>3, TookEffect, RestartHistory DEF SupervisorTypeOK, ChildExit
<1>5. Resting' /\ NobodyLeftRunning'
  BY <1>1 DEF Resting, NobodyLeftRunning
<1>6. OneIncarnation'
  <2>1. SUFFICES ASSUME NEW i \in Child
                 PROVE  /\ running'[i] <= 1
                        /\ strategy = "OneForOne" => running'[i] + leaving'[i] <= 1
    BY <1>1 DEF OneIncarnation
  <2>2. CASE i \in C
    <3>1. strategy = "OneForOne" => running[i] = 0 /\ leaving[i] = 0
      BY <1>1, <1>2, <2>2, TookLeaves
    <3>2. QED
      BY <1>3, <2>2, <3>1
  <2>3. CASE i \notin C
    BY <1>3, <2>1, <2>3 DEF OneIncarnation
  <2>4. QED
    BY <2>2, <2>3
<1>7. OnePlace'
  <2>1. SUFFICES ASSUME strategy = "OneForOne"
                 PROVE  /\ \A k \in DOMAIN exits' : /\ running'[exits'[k].child] = 0
                                                    /\ leaving'[exits'[k].child] = 0
                        /\ \A j, k \in DOMAIN exits' : exits'[j].child = exits'[k].child => j = k
    BY <1>1 DEF OnePlace
  <2>2. \A k \in DOMAIN exits' : exits'[k].child \in Child \ C
    BY <1>1, <1>2, <2>1, TookLeaves
  <2>3. QED
    BY <1>1, <1>3, <2>1, <2>2, TookLeaves
<1>8. NoneForgotten'
  <2>1. SUFFICES ASSUME ~done, NEW i \in Child
                 PROVE  running'[i] > 0 \/ [child |-> i, err |-> TRUE] \in ToSet(exits')
    BY <1>1 DEF NoneForgotten, ToSet
  <2>2. CASE i \in C
    BY <1>3, <2>1, <2>2
  <2>3. CASE i \notin C
    <3>1. exits[1] # [child |-> i, err |-> TRUE]
      BY <1>2, <2>3
    <3>2. running'[i] = running[i]
      BY <1>3, <2>3
    <3>3. QED
      BY <1>1, <2>1, <3>1, <3>2, TookLeaves DEF NoneForgotten
  <2>4. QED
    BY <2>2, <2>3
<1>9. QED
  BY <1>4, <1>5, <1>6, <1>7, <1>8, RestartHistory

\* Run returns, or its context ends: every incarnation is told to leave.
LEMMA LeavingKeeps ==
  ASSUME SupervisorInv, running' = Nobody,
         running' \in [Child -> Nat], leaving' \in [Child -> Nat],
         \A i \in Child : running'[i] = 0 /\ leaving'[i] = leaving[i] + running[i],
         run = "on", strategy' = strategy,
         exits' \in Seq(ChildExit), Len(exits') <= Children,
         strategy = "OneForOne" =>
           /\ \A k \in DOMAIN exits' : /\ exits'[k].child \in Child
                                       /\ running[exits'[k].child] = 0
                                       /\ leaving[exits'[k].child] = 0
           /\ \A j, k \in DOMAIN exits' : exits'[j].child = exits'[k].child => j = k,
         run' # "on" \/ done',
         run' \in {"on", "stopped", "gaveUp"}, done' \in BOOLEAN,
         restartsAt' \in {restartsAt, Kept}, now' = now, granted' = granted
  PROVE  SupervisorInv'
<1> USE DEF SupervisorInv
<1>1. /\ \A i \in Child : running[i] \in Nat /\ leaving[i] \in Nat
  BY DEF SupervisorTypeOK
<1>2. /\ restartsAt' \subseteq DOMAIN granted' /\ Cardinality(restartsAt') <= MaxRestarts
      /\ Pruned'
  <2>1. CASE restartsAt' = restartsAt
    BY <2>1 DEF SupervisorTypeOK, Pruned
  <2>2. CASE restartsAt' = Kept
    <3>1. restartsAt' \subseteq DOMAIN granted'
      BY <2>2, KeptBounds DEF SupervisorTypeOK
    <3>2. Cardinality(restartsAt') <= MaxRestarts
      BY <2>2, KeptBounds
    <3>3. Pruned'
      BY <2>2, ForgottenAreOld DEF Pruned
    <3>4. QED
      BY <3>1, <3>2, <3>3
  <2>3. QED
    BY <2>1, <2>2
<1>3. SupervisorTypeOK'
  BY <1>2 DEF SupervisorTypeOK, ChildExit
<1>4. Resting' /\ NobodyLeftRunning' /\ NoneForgotten'
  BY DEF Resting, NobodyLeftRunning, NoneForgotten
<1>5. OneIncarnation'
  BY <1>1 DEF OneIncarnation
<1>6. OnePlace'
  BY DEF OnePlace
<1>7. InOrder' /\ RestartIntensity'
  BY DEF InOrder, RestartIntensity
<1>8. QED
  BY <1>2, <1>3, <1>4, <1>5, <1>6, <1>7

LEMMA GiveUpKeeps ==
  ASSUME SupervisorInv, GiveUp
  PROVE  SupervisorInv'
<1> USE DEF SupervisorInv
<1>1. Took /\ CancelLatest /\ run = "on"
  BY DEF GiveUp, Took
<1>2. /\ running' = Nobody /\ running' \in [Child -> Nat] /\ leaving' \in [Child -> Nat]
      /\ \A i \in Child : running'[i] = 0 /\ leaving'[i] = leaving[i] + running[i]
  BY <1>1, CancelLatestEffect
<1>3. exits' \in Seq(ChildExit) /\ Len(exits') <= Children
  BY <1>1, TookEffect
<1>4. strategy = "OneForOne" =>
        /\ \A k \in DOMAIN exits' : /\ exits'[k].child \in Child
                                    /\ running[exits'[k].child] = 0
                                    /\ leaving[exits'[k].child] = 0
        /\ \A j, k \in DOMAIN exits' : exits'[j].child = exits'[k].child => j = k
  BY <1>1, TookLeaves
<1>5. /\ restartsAt' = Kept /\ run' = "gaveUp" /\ strategy' = strategy /\ done' = done
      /\ now' = now /\ granted' = granted /\ done' \in BOOLEAN
  BY DEF GiveUp, SupervisorTypeOK
<1>6. QED
  BY <1>1, <1>2, <1>3, <1>4, <1>5, LeavingKeeps

LEMMA StopKeeps ==
  ASSUME SupervisorInv, Stop \/ Terminate
  PROVE  SupervisorInv'
<1> USE DEF SupervisorInv
<1>1. CancelAll /\ run = "on" /\ exits' = exits
  BY DEF Stop, Terminate
<1>2. /\ running' = Nobody /\ running' \in [Child -> Nat] /\ leaving' \in [Child -> Nat]
      /\ \A i \in Child : running'[i] = 0 /\ leaving'[i] = leaving[i] + running[i]
  BY <1>1, CancelEffect
<1>3. exits' \in Seq(ChildExit) /\ Len(exits') <= Children
  BY <1>1 DEF SupervisorTypeOK, ChildExit
<1>4. strategy = "OneForOne" =>
        /\ \A k \in DOMAIN exits' : /\ exits'[k].child \in Child
                                    /\ running[exits'[k].child] = 0
                                    /\ leaving[exits'[k].child] = 0
        /\ \A j, k \in DOMAIN exits' : exits'[j].child = exits'[k].child => j = k
  <2>1. \A k \in DOMAIN exits' : exits'[k] \in ChildExit
    BY <1>3
  <2>2. QED
    BY <1>1, <2>1 DEF OnePlace, ChildExit
<1>5. /\ restartsAt' = restartsAt /\ run' \in {"on", "stopped"} /\ (run' = "stopped" \/ done')
      /\ strategy' = strategy /\ now' = now /\ granted' = granted /\ done' \in BOOLEAN
  BY DEF Stop, Terminate, SupervisorTypeOK
<1>6. QED
  BY <1>1, <1>2, <1>3, <1>4, <1>5, LeavingKeeps

LEMMA TickKeeps ==
  ASSUME SupervisorInv, Tick
  PROVE  SupervisorInv'
<1> USE DEF SupervisorInv
<1>1. /\ strategy' = strategy /\ running' = running /\ leaving' = leaving /\ exits' = exits
      /\ restartsAt' = restartsAt /\ run' = run /\ done' = done /\ granted' = granted
      /\ now' = now + 1 /\ now \in Nat /\ now' \in 0..Horizon /\ Window \in Nat
  BY SupervisorAssumption DEF Tick, SupervisorTypeOK
<1>2. SupervisorTypeOK'
  BY <1>1 DEF SupervisorTypeOK
<1>3. Resting' /\ OnePlace' /\ OneIncarnation' /\ NobodyLeftRunning' /\ RestartIntensity'
  BY <1>1 DEF Resting, OnePlace, OneIncarnation, NobodyLeftRunning, RestartIntensity
<1>4. NoneForgotten'
  BY <1>1 DEF NoneForgotten, ToSet
<1>5. \A k \in DOMAIN granted : granted[k] \in Nat
  <2>1. granted \in Seq(0..Horizon) /\ Horizon \in Nat
    BY SupervisorAssumption DEF SupervisorTypeOK
  <2>2. QED
    BY <2>1
<1>6. Pruned' /\ InOrder'
  BY <1>1, <1>5 DEF Pruned, InOrder
<1>7. QED
  BY <1>2, <1>3, <1>4, <1>6

LEMMA SupervisorStepKeeps ==
  ASSUME SupervisorInv, run # "off" \/ Run, SupervisorStep
  PROVE  SupervisorInv'
<1>1. CASE Run
  BY <1>1, RunKeeps
<1>2. CASE run # "off"
  BY <1>2, RunKeeps, ExitedKeeps, CleanExitKeeps, RestartKeeps, GiveUpKeeps, StopKeeps, TickKeeps
  DEF SupervisorStep, Loop
<1>3. QED
  BY <1>1, <1>2

LEMMA SupervisorFrame ==
  ASSUME SupervisorInv, UNCHANGED supervisorVars
  PROVE  SupervisorInv'
  BY DEF supervisorVars, SupervisorInv, SupervisorTypeOK, Resting, OnePlace, OneIncarnation,
         NobodyLeftRunning, NoneForgotten, Pruned, InOrder, RestartIntensity, ToSet

\* A new process starts with an empty tree, as the first one did.
Empty ==
  /\ strategy \in Strategy
  /\ running = Nobody /\ leaving = Nobody /\ exits = <<>>
  /\ restartsAt = {} /\ run = "off" /\ done = FALSE
  /\ now = 0 /\ granted = <<>>

LEMMA EmptyTree == Empty => SupervisorInv
<1> SUFFICES ASSUME Empty
             PROVE  SupervisorInv
  OBVIOUS
<1> USE DEF Empty
<1>1. Cardinality({}) = 0 /\ MaxRestarts \in Nat /\ Children \in Nat /\ Horizon \in Nat
  BY FS_EmptySet, SupervisorAssumption
<1>2. /\ exits \in Seq([child : Child, err : BOOLEAN]) /\ Len(exits) = 0
      /\ granted \in Seq(0..Horizon) /\ DOMAIN granted = {} /\ DOMAIN exits = {}
  OBVIOUS
<1>3. running \in [Child -> Nat] /\ leaving \in [Child -> Nat] /\ \A i \in Child : running[i] = 0 /\ leaving[i] = 0
  BY DEF Nobody
<1>4. SupervisorTypeOK
  <2>1. restartsAt \subseteq DOMAIN granted /\ Cardinality(restartsAt) <= MaxRestarts
    BY <1>1
  <2>2. Len(exits) <= Children /\ now \in 0..Horizon
    BY <1>1, <1>2
  <2>3. QED
    BY <1>2, <1>3, <2>1, <2>2 DEF SupervisorTypeOK
<1>5. Resting /\ OnePlace /\ OneIncarnation /\ NobodyLeftRunning /\ NoneForgotten
  BY <1>2, <1>3 DEF Resting, OnePlace, OneIncarnation, NobodyLeftRunning, NoneForgotten
<1>6. Pruned /\ InOrder /\ RestartIntensity
  BY <1>2 DEF Pruned, InOrder, RestartIntensity
<1>7. QED
  BY <1>4, <1>5, <1>6 DEF SupervisorInv

LEMMA ProcessGoneKeeps == SupervisorInv /\ ProcessGone => SupervisorInv'
<1>1. SupervisorInv /\ ProcessGone => Empty'
  BY DEF ProcessGone, SupervisorInv, SupervisorTypeOK, Empty, Nobody
<1>2. QED
  BY <1>1, EmptyTree, PTL


----------------------------------------------------------------------------
(* The migrations *)

AheadState == [at : {"migrate", "applying"}, todo : SUBSET File, read : SUBSET File]
OpenState == [at : {"open"}, read : SUBSET File]
UndoState == [at : {"undo", "undoing"}, file : File]

\* One opener at most holds the tables of a file.
Excluded ==
  \A o, q \in Opener, f \in File : Touching(o, f) /\ Touching(q, f) => o = q

\* A transaction that holds a file's tables found them as its statements need them.
Prepared ==
  \A o \in Opener, f \in File :
    /\ opener[o].at = "applying" /\ Upcoming(o, f) => f \notin schema
    /\ opener[o].at = "undoing" /\ opener[o].file = f => f \in schema

\* Nobody rolls back while the daemon is up or on its way up.
NoneUndone == opener[Main] # Off => ~RollingBack

\* What the daemon has read and passed is in effect.
Passed ==
  /\ opener[Main].at \in {"migrate", "applying"} => opener[Main].read \ opener[Main].todo \subseteq schema
  /\ opener[Main].at = "open" => opener[Main].read \subseteq schema

\* The order of main: migrated, then swept, then the tree.
MainOrder == /\ swept => opener[Main].at = "open"
             /\ run # "off" => swept

MigrationsInv ==
  /\ MigrationsTypeOK /\ RecordTrue /\ Excluded /\ Prepared
  /\ NoneUndone /\ Passed /\ MainOrder

LEMMA OpenerFields ==
  ASSUME MigrationsTypeOK, NEW o \in Opener
  PROVE  /\ opener[o].at \in {"off", "migrate", "applying", "open", "undo", "undoing"}
         /\ opener[o].at = "off" <=> opener[o] = Off
         /\ opener[o].at \in {"migrate", "applying"} => opener[o] \in AheadState
         /\ opener[o].at = "open" => opener[o] \in OpenState
         /\ opener[o].at \in {"undo", "undoing"} => opener[o] \in UndoState
<1>1. opener[o] \in OpenerState
  BY DEF MigrationsTypeOK
<1>2. QED
  BY <1>1 DEF OpenerState, Off, AheadState, OpenState, UndoState

LEMMA OneUpcoming ==
  ASSUME MigrationsTypeOK, NEW o \in Opener, NEW f \in File, NEW g \in File,
         Upcoming(o, f), Upcoming(o, g)
  PROVE  f = g
  BY MigrationsAssumption DEF Upcoming

\* A step of one opener that leaves the schema alone, keeps what the others hold and
\* takes hold of a file only as its statements need it.
LEMMA OpenerMoves ==
  ASSUME MigrationsInv, NEW o \in Opener, NEW s \in OpenerState,
         opener' = [opener EXCEPT ![o] = s],
         UNCHANGED <<dir, recorded, schema, swept, run>>,
         \A f \in File : Touching(o, f)' => Touching(o, f) \/ Unlocked(o, f),
         \A f \in File : /\ s.at = "applying" /\ f \in s.todo /\ (\A g \in s.todo : f <= g) => f \notin schema
                         /\ s.at = "undoing" /\ s.file = f => f \in schema,
         s.at \in {"undo", "undoing"} =>
           opener[o].at \in {"undo", "undoing"} \/ (opener[Main] = Off /\ o # Main),
         o = Main => /\ opener[Main] = Off => ~RollingBack
                     /\ s.at \notin {"undo", "undoing"}
                     /\ s.at \in {"migrate", "applying"} => s.read \ s.todo \subseteq schema
                     /\ s.at = "open" => s.read \subseteq schema
                     /\ swept => s.at = "open"
  PROVE  MigrationsInv'
<1> USE DEF MigrationsInv
<1>1. /\ opener'[o] = s /\ \A q \in Opener \ {o} : opener'[q] = opener[q]
      /\ schema' = schema /\ recorded' = recorded /\ dir' = dir /\ swept' = swept /\ run' = run
  BY DEF MigrationsTypeOK
<1>2. MigrationsTypeOK' /\ RecordTrue'
  BY <1>1 DEF MigrationsTypeOK, RecordTrue
<1>3. \A q \in Opener \ {o}, f \in File : Touching(q, f)' <=> Touching(q, f)
  BY <1>1 DEF Touching, Upcoming
<1>4. Excluded'
  BY <1>3 DEF Excluded, Unlocked
<1>5. Prepared'
  BY <1>1 DEF Prepared, Upcoming
<1>6. NoneUndone'
  BY <1>1, DaemonAssumption DEF NoneUndone, RollingBack, Off
<1>7. Passed' /\ MainOrder'
  BY <1>1, DaemonAssumption DEF Passed, MainOrder
<1>8. QED
  BY <1>2, <1>4, <1>5, <1>6, <1>7

\* An opener that lets go: it ends, or moves on without a file's tables.
LEMMA EndsKeeps ==
  ASSUME MigrationsInv, NEW o \in Opener, Ends(o), UNCHANGED <<dir, recorded, schema, swept, run>>,
         o = Main => ~swept
  PROVE  MigrationsInv'
<1>1. Off \in OpenerState /\ Off.at = "off"
  BY DEF OpenerState, Off
<1>2. opener'[o] = Off
  BY DEF Ends, MigrationsInv, MigrationsTypeOK
<1>3. o = Main => ~RollingBack \/ opener[Main] = Off
  BY DEF MigrationsInv, NoneUndone
<1>4. \A f \in File : ~Touching(o, f)'
  BY <1>1, <1>2 DEF Touching
<1>5. CASE o = Main /\ opener[Main] = Off
  <2>1. opener' = opener
    BY <1>5 DEF Ends, MigrationsInv, MigrationsTypeOK
  <2>2. QED
    BY <2>1 DEF MigrationsInv, MigrationsTypeOK, RecordTrue, Excluded, Touching, Upcoming, Prepared,
                NoneUndone, RollingBack, Passed, MainOrder
<1>6. CASE o # Main \/ opener[Main] # Off
  BY <1>1, <1>3, <1>4, <1>6, OpenerMoves DEF Ends
<1>7. QED
  BY <1>5, <1>6

LEMMA OpenKeeps ==
  ASSUME MigrationsInv, NEW o \in Opener, Open(o), UNCHANGED <<swept, run>>,
         o = Main => ~RollingBack
  PROVE  MigrationsInv'
<1> DEFINE s == [at |-> "migrate", todo |-> dir, read |-> dir]
<1>1. s \in OpenerState /\ s.at = "migrate" /\ s.read \ s.todo = {}
  BY DEF MigrationsInv, MigrationsTypeOK, OpenerState
<1>2. opener' = [opener EXCEPT ![o] = s] /\ UNCHANGED <<dir, recorded, schema, swept, run>>
      /\ opener[o] = Off
  BY DEF Open
<1> HIDE DEF s
<1>3. opener'[o] = s
  BY <1>2 DEF MigrationsInv, MigrationsTypeOK
<1>4. \A f \in File : ~Touching(o, f)'
  BY <1>1, <1>3 DEF Touching
<1>5. o = Main => ~swept
  BY <1>2 DEF MigrationsInv, MainOrder, Off
<1>6. QED
  BY <1>1, <1>2, <1>4, <1>5, OpenerMoves

LEMMA SkipKeeps ==
  ASSUME MigrationsInv, NEW o \in Opener, NEW f \in File, SkipApplied(o, f), UNCHANGED <<swept, run>>
  PROVE  MigrationsInv'
<1> DEFINE s == [opener[o] EXCEPT !.todo = @ \ {f}]
<1> USE DEF MigrationsInv
<1>1. opener[o] \in AheadState /\ opener[o].at = "migrate" /\ f \in recorded /\ f \in schema
  BY OpenerFields DEF SkipApplied, Migrating, Pending, RecordTrue
<1>2. /\ s \in AheadState /\ s.at = "migrate" /\ s.todo = opener[o].todo \ {f}
      /\ s.read = opener[o].read
  BY <1>1 DEF AheadState
<1>3. AheadState \subseteq OpenerState
  BY DEF AheadState, OpenerState
<1>4. opener' = [opener EXCEPT ![o] = s] /\ UNCHANGED <<dir, recorded, schema, swept, run>>
  BY DEF SkipApplied, MigrationsTypeOK
<1> HIDE DEF s
<1>5. \A g \in File : ~Touching(o, g)'
  <2>1. opener'[o] = s
    BY <1>4 DEF MigrationsTypeOK
  <2>2. QED
    BY <1>2, <2>1 DEF Touching
<1>6. o = Main => /\ opener[Main] # Off
                  /\ s.read \ s.todo \subseteq schema
                  /\ ~swept
  BY <1>1, <1>2 DEF Passed, MainOrder, Off
<1>7. QED
  BY <1>2, <1>3, <1>4, <1>5, <1>6, OpenerMoves

LEMMA ApplyKeeps ==
  ASSUME MigrationsInv, NEW o \in Opener, NEW f \in File, Apply(o, f), UNCHANGED <<swept, run>>
  PROVE  MigrationsInv'
<1> DEFINE s == [opener[o] EXCEPT !.at = "applying"]
<1> USE DEF MigrationsInv
<1>1. opener[o] \in AheadState /\ opener[o].at = "migrate" /\ f \notin schema
      /\ Unlocked(o, f) /\ Upcoming(o, f)
  BY OpenerFields DEF Apply, Migrating
<1>2. /\ s \in AheadState /\ s.at = "applying" /\ s.todo = opener[o].todo
      /\ s.read = opener[o].read
  BY <1>1 DEF AheadState
<1>3. AheadState \subseteq OpenerState
  BY DEF AheadState, OpenerState
<1>4. opener' = [opener EXCEPT ![o] = s] /\ UNCHANGED <<dir, recorded, schema, swept, run>>
  BY DEF Apply, MigrationsTypeOK
<1> HIDE DEF s
<1>5. \A g \in File : g \in s.todo /\ (\A h \in s.todo : g <= h) => g = f
  BY <1>1, <1>2, OneUpcoming DEF Upcoming
<1>6. \A g \in File : Touching(o, g)' => Unlocked(o, g)
  <2>1. opener'[o] = s
    BY <1>4 DEF MigrationsTypeOK
  <2>2. QED
    BY <1>1, <1>2, <1>5, <2>1 DEF Touching, Upcoming
<1>7. o = Main => /\ opener[Main] # Off
                  /\ s.read \ s.todo \subseteq schema
                  /\ ~swept
  BY <1>1, <1>2 DEF Passed, MainOrder, Off
<1>8. QED
  BY <1>1, <1>2, <1>3, <1>4, <1>5, <1>6, <1>7, OpenerMoves

LEMMA OpenedKeeps ==
  ASSUME MigrationsInv, NEW o \in Opener, Opened(o), UNCHANGED <<swept, run>>
  PROVE  MigrationsInv'
<1> DEFINE s == [at |-> "open", read |-> opener[o].read]
<1> USE DEF MigrationsInv
<1>1. opener[o] \in AheadState /\ opener[o].at = "migrate" /\ opener[o].todo = {}
  BY OpenerFields DEF Opened
<1>2. s \in OpenerState /\ s.at = "open" /\ s.read = opener[o].read
  BY <1>1 DEF AheadState, OpenerState
<1>3. opener' = [opener EXCEPT ![o] = s] /\ UNCHANGED <<dir, recorded, schema, swept, run>>
  BY DEF Opened
<1> HIDE DEF s
<1>4. \A g \in File : ~Touching(o, g)'
  <2>1. opener'[o] = s
    BY <1>3 DEF MigrationsTypeOK
  <2>2. QED
    BY <1>2, <2>1 DEF Touching
<1>5. o = Main => opener[Main] # Off /\ s.read \subseteq schema
  BY <1>1, <1>2 DEF Passed, Off
<1>6. QED
  BY <1>2, <1>3, <1>4, <1>5, OpenerMoves

LEMMA RollbackKeeps ==
  ASSUME MigrationsInv, NEW o \in Opener \ {Main}, Stopped, NEW f \in File, Rollback(o, f),
         UNCHANGED <<swept, run>>
  PROVE  MigrationsInv'
<1> DEFINE s == [at |-> "undo", file |-> f]
<1> USE DEF MigrationsInv
<1>1. s \in OpenerState /\ s.at = "undo"
  BY DEF OpenerState
<1>2. opener' = [opener EXCEPT ![o] = s] /\ UNCHANGED <<dir, recorded, schema, swept, run>>
  BY DEF Rollback
<1> HIDE DEF s
<1>3. \A g \in File : ~Touching(o, g)'
  <2>1. opener'[o] = s
    BY <1>2 DEF MigrationsTypeOK
  <2>2. QED
    BY <1>1, <2>1 DEF Touching
<1>4. QED
  BY <1>1, <1>2, <1>3, OpenerMoves DEF Stopped

LEMMA UndoKeeps ==
  ASSUME MigrationsInv, NEW o \in Opener \ {Main}, Undo(o), UNCHANGED <<swept, run>>
  PROVE  MigrationsInv'
<1> DEFINE s == [opener[o] EXCEPT !.at = "undoing"]
<1> USE DEF MigrationsInv
<1>1. opener[o] \in UndoState /\ opener[o].at = "undo" /\ opener[o].file \in schema
      /\ Unlocked(o, opener[o].file)
  BY OpenerFields DEF Undo
<1>2. s \in OpenerState /\ s.at = "undoing" /\ s.file = opener[o].file
  BY <1>1 DEF UndoState, OpenerState
<1>3. opener' = [opener EXCEPT ![o] = s] /\ UNCHANGED <<dir, recorded, schema, swept, run>>
  BY DEF Undo, MigrationsTypeOK
<1> HIDE DEF s
<1>4. \A g \in File : Touching(o, g)' => Unlocked(o, g)
  <2>1. opener'[o] = s
    BY <1>3 DEF MigrationsTypeOK
  <2>2. QED
    BY <1>1, <1>2, <2>1 DEF Touching
<1>5. QED
  BY <1>1, <1>2, <1>3, <1>4, OpenerMoves

\* Statements and record take effect together, and no other transaction holds the file.
LEMMA CommitAppliedKeeps ==
  ASSUME MigrationsInv, NEW o \in Opener, NEW f \in File, CommitApplied(o, f), UNCHANGED <<swept, run>>
  PROVE  MigrationsInv'
<1> DEFINE s == [opener[o] EXCEPT !.at = "migrate", !.todo = @ \ {f}]
<1> USE DEF MigrationsInv
<1>1. opener[o] \in AheadState /\ opener[o].at = "applying" /\ Touching(o, f)
  BY OpenerFields DEF CommitApplied, Touching
<1>2. s \in AheadState /\ s.at = "migrate" /\ s.read = opener[o].read /\ s.todo = opener[o].todo \ {f}
  BY <1>1 DEF AheadState
<1>3. /\ opener' = [opener EXCEPT ![o] = s]
      /\ dir' = dir /\ recorded' = recorded \cup {f} /\ schema' = schema \cup {f}
      /\ swept' = swept /\ run' = run
  BY DEF CommitApplied, MigrationsTypeOK
<1> HIDE DEF s
<1>4. opener'[o] = s /\ \A q \in Opener \ {o} : opener'[q] = opener[q]
  BY <1>3 DEF MigrationsTypeOK
<1>5. MigrationsTypeOK' /\ RecordTrue'
  <2>1. AheadState \subseteq OpenerState
    BY DEF AheadState, OpenerState
  <2>2. QED
    BY <1>2, <1>3, <2>1 DEF MigrationsTypeOK, RecordTrue
<1>6. /\ \A g \in File : ~Touching(o, g)'
      /\ \A q \in Opener \ {o}, g \in File : Touching(q, g)' <=> Touching(q, g)
      /\ \A q \in Opener \ {o} : ~Touching(q, f)
  BY <1>1, <1>2, <1>4 DEF Touching, Upcoming, Excluded
<1>7. Excluded'
  BY <1>6 DEF Excluded
<1>8. Prepared'
  <2>1. ASSUME NEW q \in Opener, NEW g \in File, opener'[q].at = "applying", Upcoming(q, g)'
        PROVE  g \notin schema'
    <3>1. q # o
      BY <1>2, <1>4, <2>1
    <3>2. opener[q].at = "applying" /\ Upcoming(q, g) /\ Touching(q, g)
      BY <1>4, <2>1, <3>1 DEF Upcoming, Touching
    <3>3. QED
      BY <1>3, <1>6, <3>1, <3>2 DEF Prepared
  <2>2. ASSUME NEW q \in Opener, NEW g \in File, opener'[q].at = "undoing", opener'[q].file = g
        PROVE  g \in schema'
    <3>1. q # o
      BY <1>2, <1>4, <2>2
    <3>2. QED
      BY <1>3, <1>4, <2>2, <3>1 DEF Prepared
  <2>3. QED
    BY <2>1, <2>2 DEF Prepared
<1>9. NoneUndone'
  <2>1. opener[o] # Off /\ opener'[o] # Off /\ opener'[o].at \notin {"undo", "undoing"}
    BY <1>1, <1>2, <1>4 DEF Off
  <2>2. QED
    BY <1>4, <2>1, DaemonAssumption DEF NoneUndone, RollingBack
<1>10. Passed' /\ MainOrder'
  BY <1>1, <1>2, <1>3, <1>4, DaemonAssumption DEF Passed, MainOrder
<1>11. QED
  BY <1>5, <1>7, <1>8, <1>9, <1>10

LEMMA CommitUndoneKeeps ==
  ASSUME MigrationsInv, NEW o \in Opener \ {Main}, CommitUndone(o), UNCHANGED <<swept, run>>
  PROVE  MigrationsInv'
<1> DEFINE f == opener[o].file
<1> USE DEF MigrationsInv
<1>1. opener[o] \in UndoState /\ opener[o].at = "undoing" /\ f \in File /\ Touching(o, f)
  BY OpenerFields DEF CommitUndone, Touching, UndoState
<1>2. /\ opener'[o] = Off /\ \A q \in Opener \ {o} : opener'[q] = opener[q]
      /\ opener' \in [Opener -> OpenerState]
      /\ dir' = dir /\ recorded' = recorded \ {f} /\ schema' = schema \ {f}
      /\ swept' = swept /\ run' = run
  BY DEF CommitUndone, Ends, MigrationsTypeOK, OpenerState
<1>3. MigrationsTypeOK' /\ RecordTrue'
  BY <1>2 DEF MigrationsTypeOK, RecordTrue
<1>4. /\ \A g \in File : ~Touching(o, g)'
      /\ \A q \in Opener \ {o}, g \in File : Touching(q, g)' <=> Touching(q, g)
      /\ \A q \in Opener \ {o} : ~Touching(q, f)
  BY <1>1, <1>2 DEF Touching, Upcoming, Excluded, Off
<1> HIDE DEF f
<1>5. Excluded'
  BY <1>4 DEF Excluded
<1>6. Prepared'
  <2>1. ASSUME NEW q \in Opener, NEW g \in File, opener'[q].at = "applying", Upcoming(q, g)'
        PROVE  g \notin schema'
    BY <1>2, <2>1 DEF Prepared, Upcoming, Off
  <2>2. ASSUME NEW q \in Opener, NEW g \in File, opener'[q].at = "undoing", opener'[q].file = g
        PROVE  g \in schema'
    <3>1. q # o
      BY <1>2, <2>2 DEF Off
    <3>2. opener[q].at = "undoing" /\ opener[q].file = g /\ Touching(q, g)
      BY <1>2, <2>2, <3>1 DEF Touching
    <3>3. QED
      BY <1>2, <1>4, <3>1, <3>2 DEF Prepared
  <2>3. QED
    BY <2>1, <2>2 DEF Prepared
<1>7. opener[Main] = Off
  BY <1>1 DEF NoneUndone, RollingBack
<1>8. NoneUndone' /\ Passed' /\ MainOrder'
  BY <1>2, <1>7, DaemonAssumption DEF NoneUndone, Passed, MainOrder, Off
<1>9. QED
  BY <1>3, <1>5, <1>6, <1>8

LEMMA MigrateKeeps ==
  ASSUME MigrationsInv, Migrate
  PROVE  MigrationsInv'
<1>1. UNCHANGED <<swept, run>>
  BY DEF Migrate, supervisorVars, mainVars
<1>2. ASSUME NEW o \in Opener, NEW f \in File, ApplyFails(o, f)
      PROVE  MigrationsInv'
  BY <1>1, <1>2, EndsKeeps DEF ApplyFails, Migrating, MigrationsInv, MainOrder
<1>3. ASSUME NEW o \in Opener \ {Main}, UndoFails(o) \/ OpenerDies(o)
      PROVE  MigrationsInv'
  BY <1>1, <1>3, EndsKeeps DEF UndoFails, OpenerDies
<1>4. ASSUME NEW f \in File, Deploy(f)
      PROVE  MigrationsInv'
  BY <1>1, <1>4 DEF Deploy, MigrationsInv, MigrationsTypeOK, RecordTrue, Excluded, Touching, Upcoming,
                    Prepared, NoneUndone, RollingBack, Passed, MainOrder
<1>5. QED
  BY <1>1, <1>2, <1>3, <1>4, SkipKeeps, ApplyKeeps, CommitAppliedKeeps, OpenedKeeps, OpenKeeps,
     RollbackKeeps, UndoKeeps, CommitUndoneKeeps
  DEF Migrate, Elsewhere

LEMMA MigrationsStep ==
  ASSUME MigrationsInv, [Next]_vars
  PROVE  MigrationsInv'
<1> USE DEF MigrationsInv
<1>1. CASE UNCHANGED <<dir, recorded, schema, opener>> /\ (swept' => opener[Main].at = "open")
           /\ (run' # "off" => swept')
  BY <1>1 DEF MigrationsTypeOK, RecordTrue, Excluded, Touching, Upcoming,
              Prepared, NoneUndone, RollingBack, Passed, MainOrder
<1>2. CASE UNCHANGED vars \/ ReconcileInterrupted \/ RunTree \/ Supervise
  BY <1>1, <1>2 DEF vars, supervisorVars, migrationVars, mainVars, ReconcileInterrupted, RunTree,
                    Supervise, MainOrder
<1>3. CASE Start
  BY <1>3, OpenKeeps, DaemonAssumption DEF Start, supervisorVars
<1>4. CASE ProcessGone
  <2>1. /\ opener'[Main] = Off /\ \A q \in Opener \ {Main} : opener'[q] = opener[q]
        /\ opener' \in [Opener -> OpenerState]
        /\ dir' = dir /\ recorded' = recorded /\ schema' = schema /\ ~swept' /\ run' = "off"
    BY <1>4, DaemonAssumption DEF ProcessGone, Ends, MigrationsTypeOK, OpenerState
  <2>2. MigrationsTypeOK' /\ RecordTrue'
    BY <2>1 DEF MigrationsTypeOK, RecordTrue
  <2>3. \A q \in Opener, g \in File : Touching(q, g)' => Touching(q, g)
    BY <2>1 DEF Touching, Upcoming, Off
  <2>4. Excluded'
    BY <2>3 DEF Excluded
  <2>5. Prepared'
    BY <2>1 DEF Prepared, Upcoming, Off
  <2>6. NoneUndone' /\ Passed' /\ MainOrder'
    BY <2>1 DEF NoneUndone, Passed, MainOrder, Off
  <2>7. QED
    BY <2>2, <2>4, <2>5, <2>6
<1>5. QED
  BY <1>2, <1>3, <1>4, MigrateKeeps DEF Next, Exit, Die

----------------------------------------------------------------------------
(* The daemon *)

IInv == SupervisorInv /\ MigrationsInv /\ TypeOK

LEMMA InvStep ==
  ASSUME IInv, [Next]_vars
  PROVE  IInv'
<1> USE DEF IInv
<1>1. MigrationsInv'
  BY MigrationsStep
<1>2. SupervisorInv'
  <2>1. CASE UNCHANGED supervisorVars
    BY <2>1, SupervisorFrame
  <2>2. CASE RunTree \/ Supervise
    BY <2>2, SupervisorStepKeeps DEF RunTree, Supervise, SupervisorStep
  <2>3. CASE ProcessGone
    BY <2>3, ProcessGoneKeeps
  <2>4. QED
    BY <2>1, <2>2, <2>3 DEF Next, vars, Start, ReconcileInterrupted, Exit, Die, Migrate
<1>3. swept' \in BOOLEAN /\ lives' \in 0..MaxLives
  <2>1. /\ swept \in BOOLEAN /\ lives \in 0..MaxLives /\ MaxLives \in Nat
    BY DaemonAssumption DEF TypeOK
  <2>2. swept' \in {swept, TRUE, FALSE} /\ (lives' = lives \/ Start)
    BY DEF Next, vars, mainVars, Start, ReconcileInterrupted, RunTree, Supervise, Exit, Die,
           ProcessGone, Migrate
  <2>3. swept' \in BOOLEAN
    BY <2>1, <2>2
  <2>4. lives' \in 0..MaxLives
    BY <2>1, <2>2 DEF Start
  <2>5. QED
    BY <2>3, <2>4
<1>4. QED
  BY <1>1, <1>2, <1>3 DEF TypeOK, SupervisorInv, MigrationsInv

LEMMA InitInv == Init => IInv
<1>1. Init => SupervisorInv
  BY EmptyTree DEF Init, SupervisorInit, Empty
<1>2. Init => MigrationsInv
  BY DaemonAssumption DEF Init, MigrationsInit, SupervisorInit, MigrationsInv, MigrationsTypeOK,
     RecordTrue, Excluded, Touching, Prepared, NoneUndone, Passed, MainOrder, OpenerState, Off
<1>3. Init => TypeOK
  <2>1. Init => swept \in BOOLEAN
    BY DEF Init
  <2>2. Init => lives \in 0..MaxLives
    BY DaemonAssumption DEF Init
  <2>3. QED
    BY <1>1, <1>2, <2>1, <2>2 DEF TypeOK, SupervisorInv, MigrationsInv
<1>4. QED
  BY <1>1, <1>2, <1>3 DEF IInv

\* The invariant that the properties below rest on.
THEOREM Invariant == Spec => []IInv
<1>1. Init => IInv
  BY InitInv
<1>2. IInv /\ [Next]_vars => IInv'
  BY InvStep
<1>3. QED
  BY <1>1, <1>2, PTL DEF Spec

\* The tree, the store and main keep their types.
THEOREM TypeCorrect == Spec => []TypeOK
<1>1. IInv => TypeOK
  BY DEF IInv
<1>2. QED
  BY <1>1, Invariant, PTL

\* One incarnation of a child at a time under OneForOne, the daemon's strategy, and under
\* every strategy at most one that is not on its way out.
THEOREM OneIncarnationRuns == Spec => []OneIncarnation
<1>1. IInv => OneIncarnation
  BY DEF IInv, SupervisorInv
<1>2. QED
  BY <1>1, Invariant, PTL

\* The limit on restarts holds in every window, though allowRestart forgets.
THEOREM RestartsAreLimited == Spec => []RestartIntensity
<1>1. IInv => RestartIntensity
  BY DEF IInv, SupervisorInv
<1>2. QED
  BY <1>1, Invariant, PTL

\* Run leaves no incarnation behind that was not told to end.
THEOREM NobodyIsLeft == Spec => []NobodyLeftRunning
<1>1. IInv => NobodyLeftRunning
  BY DEF IInv, SupervisorInv
<1>2. QED
  BY <1>1, Invariant, PTL

\* While the daemon runs, a child that is not running has its crash on the way to the loop.
THEOREM NoneIsForgotten == Spec => []NoneForgotten
<1>1. IInv => NoneForgotten
  BY DEF IInv, SupervisorInv
<1>2. QED
  BY <1>1, Invariant, PTL

\* The supervisor gives up only when MaxRestarts restarts lie in the window that ends now.
THEOREM GivingUpIsEarned == Spec => GiveUpEarned
<1>1. ASSUME IInv, [Next]_vars, run = "on", run' = "gaveUp"
      PROVE  Cardinality({k \in DOMAIN granted : granted[k] > now - Window}) >= MaxRestarts
  <2> DEFINE W == {k \in DOMAIN granted : granted[k] > now - Window}
  <2> USE DEF IInv, SupervisorInv
  <2>1. GiveUp
    BY <1>1 DEF Next, vars, supervisorVars, mainVars, Start, ReconcileInterrupted, RunTree, Supervise,
                SupervisorStep, Run, Loop, CleanExit, Restart, Stop, Terminate, Tick, Exited, Exit, Die,
                ProcessGone, Migrate
  <2>2. ~AllowRestart
    BY <2>1 DEF GiveUp
  <2>3. Kept \subseteq W /\ IsFiniteSet(W)
    <3>1. W \subseteq 1..Len(granted) /\ Len(granted) \in Nat
      BY <1>1 DEF SupervisorTypeOK
    <3>2. IsFiniteSet(1..Len(granted))
      BY <3>1, FS_Interval
    <3>3. IsFiniteSet(W)
      BY <3>1, <3>2, FS_Subset
    <3>4. Kept \subseteq W
      BY <1>1 DEF SupervisorTypeOK, Kept
    <3>5. QED
      BY <3>3, <3>4
  <2> HIDE DEF W
  <2>4. Cardinality(Kept) <= Cardinality(W) /\ Cardinality(W) \in Nat
    BY <2>3, FS_Subset, FS_CardinalityType
  <2>5. Cardinality(Kept) \in Nat /\ MaxRestarts \in Nat
    BY <1>1, KeptBounds, SupervisorAssumption
  <2>6. Cardinality(W) >= MaxRestarts
    BY <2>2, <2>4, <2>5 DEF AllowRestart
  <2>7. QED
    BY <2>6 DEF W
<1>2. QED
  BY <1>1, Invariant, PTL DEF Spec, GiveUpEarned

\* schema_migrations lists exactly the files whose statements are in effect.
THEOREM RecordIsTrue == Spec => []RecordTrue
<1>1. IInv => RecordTrue
  BY DEF IInv, MigrationsInv
<1>2. QED
  BY <1>1, Invariant, PTL

\* The tree runs only over a schema with every file of its release, and after the sweep.
THEOREM ServesWhatItNeeds == Spec => []ServesMigrated
<1>1. IInv => ServesMigrated
  BY DEF IInv, MigrationsInv, MainOrder, Passed, ServesMigrated
<1>2. QED
  BY <1>1, Invariant, PTL
=============================================================================
