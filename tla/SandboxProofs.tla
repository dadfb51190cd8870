--------------------------- MODULE SandboxProofs ---------------------------
(***************************************************************************)
(* Proofs about Sandbox, for every set of requests, computers and process  *)
(* groups.                                                                 *)
(***************************************************************************)
EXTENDS Sandbox, TLAPS

CreateStep == {"launch", "failed", "ready", "unwind"}
DestroyStep == {"teardown", "remove", "destroyed"}

Names(handle, isolation) ==
  IF handle = "container" THEN isolation = "container" ELSE handle \in Pid /\ isolation = "process"

\* A row has a handle once it was ready, and the handle is of the row's kind.
RowShape ==
  \A x \in Computer :
    LET row == computer[x] IN
    /\ row.status # "absent" => row.isolation \in Isolation
    /\ row.status \in {"absent", "provisioning", "failed"} => row.handle = None
    /\ row.status = "ready" => row.handle # None
    /\ row.handle # None => Names(row.handle, row.isolation)

\* What a call relies on: while Create has not written its UPDATE the row is its own;
\* after it, and in Destroy, the handle it holds is the row's.
CallShape ==
  \A c \in Call : call[c] # NoCall =>
    LET row == computer[call[c].id] IN
    /\ call[c].step \in {"launch", "failed", "ready"} => row.status = "provisioning"
    /\ call[c].step \in {"ready", "unwind"} => Names(call[c].handle, row.isolation)
    /\ call[c].step = "unwind" =>
         row.status = "provisioning" \/ row.handle = call[c].handle
    /\ call[c].step \in DestroyStep =>
         row.status \in {"ready", "failed", "destroyed"} /\ row.handle = call[c].handle
    /\ call[c].step = "teardown" => call[c].handle # None
    /\ call[c].step = "remove" => call[c].handle = "container"
    /\ row.status # "absent"

\* One Create to a computer, and no Destroy beside it before its UPDATE.
Sole ==
  \A c, d \in Call :
    /\ call[c] # NoCall
    /\ call[d] # NoCall
    /\ call[c].id = call[d].id
    /\ call[c].step \in CreateStep
    /\ c # d
    => call[c].step = "unwind" /\ call[d].step \in DestroyStep

\* Somebody knows the instance: the row names it, or a Create in flight does.
Known(x, handle) ==
  \/ computer[x].handle = handle
  \/ \E c \in Call : /\ call[c] # NoCall
                     /\ call[c].id = x
                     /\ call[c].step \in {"ready", "unwind"}
                     /\ call[c].handle = handle

ProcessKnown ==
  \A x \in Computer, p \in Pid :
    process[p] = x /\ x \notin stranded => computer[x].isolation = "process" /\ Known(x, p)

ContainerKnown ==
  \A x \in Computer :
    container[x] # "none" /\ x \notin stranded =>
      computer[x].isolation = "container" /\ Known(x, "container")

\* A Destroy writes 'destroyed' only after the instance is gone.
TornDown ==
  \A c \in Call : call[c] # NoCall /\ call[c].step = "destroyed" =>
    ~Running(call[c].id) \/ call[c].id \in stranded

IInv ==
  /\ TypeOK /\ RowShape /\ CallShape /\ Sole
  /\ ProcessKnown /\ ContainerKnown /\ TornDown /\ DestroyedGone


----------------------------------------------------------------------------
Placed ==
  [step : CreateStep \cup DestroyStep, id : Computer, handle : Handle, live : BOOLEAN]

\* The fields of a row and of a call.
LEMMA Fields ==
  ASSUME TypeOK
  PROVE  /\ \A x \in Computer : computer[x] \in ComputerRow
         /\ \A c \in Call : call[c] # NoCall => call[c] \in Placed
  BY DEF TypeOK, CallState, Placed, CreateStep, DestroyStep

\* What Goto and Return do to the call, and that no other call moves.
LEMMA GotoEffect ==
  ASSUME TypeOK, NEW c \in Call, call[c] # NoCall, NEW s \in CreateStep \cup DestroyStep, Goto(c, s)
  PROVE  /\ call'[c] # NoCall /\ call'[c].step = s
         /\ call'[c].id = call[c].id /\ call'[c].handle = call[c].handle
         /\ \A d \in Call \ {c} : call'[d] = call[d]
         /\ call' \in [Call -> CallState]
<1>1. call[c] \in Placed
  BY Fields
<1>2. call'[c] = [call[c] EXCEPT !.step = s] /\ \A d \in Call \ {c} : call'[d] = call[d]
  BY DEF Goto, TypeOK
<1>3. [call[c] EXCEPT !.step = s] \in Placed
  BY <1>1 DEF Placed
<1>4. s # "idle"
  BY DEF CreateStep, DestroyStep
<1>5. Placed \subseteq CallState
  BY DEF Placed, CallState, CreateStep, DestroyStep
<1>6. call' \in [Call -> CallState]
  BY <1>2, <1>3, <1>5 DEF Goto, TypeOK
<1>7. QED
  BY <1>1, <1>2, <1>4, <1>6 DEF Placed, NoCall

LEMMA ReturnEffect ==
  ASSUME TypeOK, NEW c \in Call, Return(c)
  PROVE  /\ call'[c] = NoCall
         /\ \A d \in Call \ {c} : call'[d] = call[d]
         /\ call' \in [Call -> CallState]
  BY DEF Return, TypeOK, CallState

\* A call that Create or Destroy opens, or that a launch moves on.
LEMMA PlaceEffect ==
  ASSUME TypeOK, NEW c \in Call, NEW t \in Placed, call' = [call EXCEPT ![c] = t]
  PROVE  /\ call'[c] # NoCall /\ call'[c].step = t.step
         /\ call'[c].id = t.id /\ call'[c].handle = t.handle
         /\ \A d \in Call \ {c} : call'[d] = call[d]
         /\ call' \in [Call -> CallState]
<1>1. t \in CallState /\ t # NoCall
  BY DEF Placed, CallState, CreateStep, DestroyStep, NoCall
<1>2. QED
  BY <1>1 DEF TypeOK

\* Until its UPDATE, no other call is on the computer of a Create.
LEMMA Alone ==
  ASSUME Sole, NEW c \in Call, call[c] # NoCall, call[c].step \in {"launch", "failed", "ready"},
         NEW d \in Call \ {c}, call[d] # NoCall
  PROVE  call[d].id # call[c].id
  BY DEF Sole, CreateStep

LEMMA LaunchProcessStep ==
  ASSUME IInv, NEW c \in Call, NEW p \in Pid, LaunchProcess(c, p)
  PROVE  IInv'
<1> DEFINE x == call[c].id
           t == [call[c] EXCEPT !.step = "ready", !.handle = p]
<1> USE DEF IInv
<1>1. /\ call[c] # NoCall /\ call[c] \in Placed /\ x \in Computer
      /\ call[c].step = "launch" /\ process[p] = None
      /\ computer[x].status = "provisioning" /\ computer[x].isolation = "process"
  BY Fields DEF LaunchProcess, At, Isolated, CallShape, Placed
<1>2. t \in Placed /\ t.step = "ready" /\ t.id = x /\ t.handle = p
  BY <1>1 DEF Placed, CreateStep, Handle
<1>3. call' = [call EXCEPT ![c] = t]
  BY DEF LaunchProcess, TypeOK
<1> HIDE DEF t
<1>4. /\ call'[c] # NoCall /\ call'[c].step = "ready" /\ call'[c].id = x /\ call'[c].handle = p
      /\ \A d \in Call \ {c} : call'[d] = call[d]
      /\ call' \in [Call -> CallState]
  BY <1>2, <1>3, PlaceEffect
<1>5. /\ process'[p] = x /\ \A q \in Pid \ {p} : process'[q] = process[q]
      /\ process' \in [Pid -> Computer \cup {None}]
      /\ computer' = computer /\ container' = container /\ stranded' = stranded
  BY <1>1 DEF LaunchProcess, TypeOK
<1>0. \A d \in Call \ {c} : call[d] # NoCall => call[d].id # x
  BY <1>1, Alone
<1> HIDE DEF x
<1>6. TypeOK' /\ RowShape'
  BY <1>4, <1>5 DEF TypeOK, RowShape
<1>7. CallShape'
  BY <1>1, <1>4, <1>5, SandboxAssumption DEF CallShape, Names, DestroyStep
<1>8. Sole'
  BY <1>0, <1>4 DEF Sole
<1>9. ProcessKnown' /\ ContainerKnown'
  BY <1>1, <1>4, <1>5 DEF ProcessKnown, ContainerKnown, Known
<1>10. TornDown' /\ DestroyedGone'
  BY <1>1, <1>4, <1>5 DEF TornDown, DestroyedGone, Running, CallShape, DestroyStep
<1>11. QED
  BY <1>6, <1>7, <1>8, <1>9, <1>10

LEMMA LaunchContainerStep ==
  ASSUME IInv, NEW c \in Call, LaunchContainer(c)
  PROVE  IInv'
<1> DEFINE x == call[c].id
           t == [call[c] EXCEPT !.step = "ready", !.handle = "container"]
<1> USE DEF IInv
<1>1. /\ call[c] # NoCall /\ call[c] \in Placed /\ x \in Computer
      /\ call[c].step = "launch"
      /\ computer[x].status = "provisioning" /\ computer[x].isolation = "container"
  BY Fields DEF LaunchContainer, At, Isolated, CallShape, Placed
<1>2. t \in Placed /\ t.step = "ready" /\ t.id = x /\ t.handle = "container"
  BY <1>1 DEF Placed, CreateStep, Handle
<1>3. call' = [call EXCEPT ![c] = t]
  BY DEF LaunchContainer, TypeOK
<1> HIDE DEF t
<1>4. /\ call'[c] # NoCall /\ call'[c].step = "ready" /\ call'[c].id = x
      /\ call'[c].handle = "container"
      /\ \A d \in Call \ {c} : call'[d] = call[d]
      /\ call' \in [Call -> CallState]
  BY <1>2, <1>3, PlaceEffect
<1>5. /\ container'[x] = "running" /\ \A y \in Computer \ {x} : container'[y] = container[y]
      /\ container' \in [Computer -> {"none", "running", "stopped"}]
      /\ computer' = computer /\ process' = process /\ stranded' = stranded
  BY <1>1 DEF LaunchContainer, TypeOK
<1>6. \A d \in Call \ {c} : call[d] # NoCall => call[d].id # x
  BY <1>1, Alone
<1> HIDE DEF x
<1>7. TypeOK' /\ RowShape'
  BY <1>4, <1>5 DEF TypeOK, RowShape
<1>8. CallShape'
  BY <1>1, <1>4, <1>5, SandboxAssumption DEF CallShape, Names, DestroyStep
<1>9. Sole'
  BY <1>4, <1>6 DEF Sole
<1>10. ProcessKnown' /\ ContainerKnown'
  BY <1>1, <1>4, <1>5 DEF ProcessKnown, ContainerKnown, Known
<1>11. TornDown' /\ DestroyedGone'
  <2>1. \A d \in Call : call'[d] # NoCall /\ call'[d].step = "destroyed" =>
          call'[d] = call[d] /\ call[d].id \in Computer \ {x}
    BY <1>4, <1>6, Fields DEF Placed
  <2>2. TornDown'
    BY <2>1, <1>5 DEF TornDown, Running
  <2>3. DestroyedGone'
    BY <1>1, <1>5 DEF DestroyedGone, Running
  <2>4. QED
    BY <2>2, <2>3
<1>12. QED
  BY <1>7, <1>8, <1>9, <1>10, <1>11

LEMMA LaunchFailsStep ==
  ASSUME IInv, NEW c \in Call, LaunchFails(c)
  PROVE  IInv'
<1> DEFINE x == call[c].id
<1> USE DEF IInv
<1>1. /\ call[c] # NoCall /\ call[c] \in Placed /\ x \in Computer
      /\ call[c].step = "launch"
      /\ computer[x].status = "provisioning" /\ computer[x].handle = None
  BY Fields DEF LaunchFails, At, CallShape, Placed, RowShape
<1>2. /\ call'[c] # NoCall /\ call'[c].step = "failed" /\ call'[c].id = x
      /\ \A d \in Call \ {c} : call'[d] = call[d]
      /\ call' \in [Call -> CallState]
  BY <1>1, GotoEffect DEF LaunchFails, CreateStep
<1>3. /\ computer' = computer /\ process' = process
      /\ \A y \in Computer \ {x} : container'[y] = container[y]
      /\ stranded \subseteq stranded' /\ stranded' \subseteq Computer
      /\ x \in stranded' \/ container'[x] = container[x]
      /\ container' \in [Computer -> {"none", "running", "stopped"}]
  BY <1>1 DEF LaunchFails, TypeOK
<1>4. \A d \in Call \ {c} : call[d] # NoCall => call[d].id # x
  BY <1>1, Alone
<1> HIDE DEF x
<1>5. TypeOK' /\ RowShape'
  BY <1>2, <1>3 DEF TypeOK, RowShape
<1>6. CallShape'
  BY <1>1, <1>2, <1>3 DEF CallShape, DestroyStep
<1>7. Sole'
  BY <1>2, <1>4 DEF Sole
<1>8. ProcessKnown' /\ ContainerKnown'
  BY <1>1, <1>2, <1>3 DEF ProcessKnown, ContainerKnown, Known
<1>9. TornDown' /\ DestroyedGone'
  <2>1. \A d \in Call : call'[d] # NoCall /\ call'[d].step = "destroyed" =>
          call'[d] = call[d] /\ call[d].id \in Computer \ {x}
    BY <1>2, <1>4, Fields DEF Placed
  <2>2. TornDown'
    BY <2>1, <1>3 DEF TornDown, Running
  <2>3. DestroyedGone'
    BY <1>1, <1>3 DEF DestroyedGone, Running
  <2>4. QED
    BY <2>2, <2>3
<1>10. QED
  BY <1>5, <1>6, <1>7, <1>8, <1>9

LEMMA MarkFailedStep ==
  ASSUME IInv, NEW c \in Call, MarkFailed(c)
  PROVE  IInv'
<1> DEFINE x == call[c].id
<1> USE DEF IInv
<1>1. /\ call[c] # NoCall /\ call[c] \in Placed /\ x \in Computer
      /\ call[c].step = "failed"
      /\ computer[x].status = "provisioning" /\ computer[x].handle = None
      /\ computer[x] \in ComputerRow
  BY Fields DEF MarkFailed, At, CallShape, Placed, RowShape
<1>2. /\ call'[c] = NoCall
      /\ \A d \in Call \ {c} : call'[d] = call[d]
      /\ call' \in [Call -> CallState]
  BY ReturnEffect DEF MarkFailed
<1>3. /\ process' = process /\ container' = container /\ stranded' = stranded
      /\ \A y \in Computer \ {x} : computer'[y] = computer[y]
      /\ computer'[x] = computer[x] \/ computer'[x] = [computer[x] EXCEPT !.status = "failed"]
      /\ DOMAIN computer' = Computer /\ computer' = [y \in Computer |-> computer'[y]]
  BY <1>1 DEF MarkFailed, TypeOK
<1>4. /\ computer'[x].status \in {"provisioning", "failed"}
      /\ computer'[x].handle = None /\ computer'[x].isolation = computer[x].isolation
      /\ computer'[x] \in ComputerRow
  BY <1>1, <1>3 DEF ComputerRow, Status
<1>5. \A d \in Call \ {c} : call[d] # NoCall => call[d].id # x
  BY <1>1, Alone
<1> HIDE DEF x
<1>6. TypeOK'
  BY <1>2, <1>3, <1>4 DEF TypeOK
<1>7. RowShape'
  BY <1>1, <1>3, <1>4 DEF RowShape
<1>8. CallShape'
  <2>1. \A d \in Call : call'[d] # NoCall => d # c /\ call[d] \in Placed /\ call[d].id \in Computer \ {x}
    BY <1>2, <1>5, Fields DEF Placed
  <2>2. QED
    BY <2>1, <1>2, <1>3 DEF CallShape
<1>9. Sole'
  BY <1>2 DEF Sole
<1>10. ProcessKnown' /\ ContainerKnown'
  BY <1>1, <1>2, <1>3, <1>4 DEF ProcessKnown, ContainerKnown, Known
<1>11. TornDown' /\ DestroyedGone'
  BY <1>1, <1>2, <1>3, <1>4, <1>5 DEF TornDown, DestroyedGone, Running
<1>12. QED
  BY <1>6, <1>7, <1>8, <1>9, <1>10, <1>11

\* The UPDATE to 'ready', whether its call returns or goes on to unwind.
LEMMA HandledEffect ==
  ASSUME IInv, NEW c \in Call, call[c] # NoCall, call[c].step = "ready"
  PROVE  /\ Handled(c) \in ComputerRow
         /\ Handled(c).status = "ready" /\ Handled(c).handle = call[c].handle
         /\ Handled(c).isolation = computer[call[c].id].isolation
<1>1. call[c].id \in Computer /\ call[c].handle \in Handle /\ computer[call[c].id] \in ComputerRow
  BY Fields DEF IInv, Placed
<1>2. QED
  BY <1>1 DEF Handled, ComputerRow, Status

LEMMA MarkReadyStep ==
  ASSUME IInv, NEW c \in Call, MarkReady(c)
  PROVE  IInv'
<1> DEFINE x == call[c].id
           h == call[c].handle
<1> USE DEF IInv
<1>1. /\ call[c] # NoCall /\ call[c] \in Placed /\ x \in Computer
      /\ call[c].step = "ready"
      /\ computer[x].status = "provisioning" /\ computer[x].handle = None
      /\ Names(h, computer[x].isolation) /\ computer[x].isolation \in Isolation
  BY Fields DEF MarkReady, At, CallShape, Placed, RowShape
<1>2. /\ call'[c] = NoCall
      /\ \A d \in Call \ {c} : call'[d] = call[d]
      /\ call' \in [Call -> CallState]
  BY ReturnEffect DEF MarkReady
<1>3. /\ process' = process /\ container' = container /\ stranded' = stranded
      /\ \A y \in Computer \ {x} : computer'[y] = computer[y]
      /\ computer'[x] = Handled(c)
      /\ computer' = [y \in Computer |-> computer'[y]]
  BY <1>1 DEF MarkReady, TypeOK
<1>4. /\ computer'[x].status = "ready" /\ computer'[x].handle = h
      /\ computer'[x].isolation = computer[x].isolation
      /\ computer'[x] \in ComputerRow
  BY <1>1, <1>3, HandledEffect
<1>5. \A d \in Call \ {c} : call[d] # NoCall => call[d].id # x
  BY <1>1, Alone
<1>6. h # None
  BY <1>1, SandboxAssumption DEF Names
<1> HIDE DEF x, h
<1>7. TypeOK'
  BY <1>2, <1>3, <1>4 DEF TypeOK
<1>8. RowShape'
  BY <1>1, <1>3, <1>4, <1>6 DEF RowShape
<1>9. CallShape'
  <2>1. \A d \in Call : call'[d] # NoCall => d # c /\ call[d] \in Placed /\ call[d].id \in Computer \ {x}
    BY <1>2, <1>5, Fields DEF Placed
  <2>2. QED
    BY <2>1, <1>2, <1>3 DEF CallShape
<1>10. Sole'
  BY <1>2 DEF Sole
<1>11. ASSUME NEW y \in Computer, NEW g \in Pid \cup {"container"}, Known(y, g)
       PROVE  Known(y, g)'
  <2>1. g # None
    BY SandboxAssumption
  <2>2. CASE y = x
    BY <1>1, <1>4, <1>5, <1>11, <2>1, <2>2 DEF Known, h
  <2>3. CASE y # x
    BY <1>2, <1>3, <1>11, <2>3 DEF Known, x
  <2>4. QED
    BY <2>2, <2>3
<1>12. ProcessKnown' /\ ContainerKnown'
  BY <1>3, <1>4, <1>11 DEF ProcessKnown, ContainerKnown
<1>13. TornDown' /\ DestroyedGone'
  BY <1>1, <1>2, <1>3, <1>4, <1>5 DEF TornDown, DestroyedGone, Running
<1>14. QED
  BY <1>7, <1>8, <1>9, <1>10, <1>12, <1>13

LEMMA MarkReadyFailsStep ==
  ASSUME IInv, NEW c \in Call, MarkReadyFails(c)
  PROVE  IInv'
<1> DEFINE x == call[c].id
           h == call[c].handle
<1> USE DEF IInv
<1>1. /\ call[c] # NoCall /\ call[c] \in Placed /\ x \in Computer
      /\ call[c].step = "ready"
      /\ computer[x].status = "provisioning" /\ computer[x].handle = None
      /\ Names(h, computer[x].isolation) /\ computer[x].isolation \in Isolation
  BY Fields DEF MarkReadyFails, At, CallShape, Placed, RowShape
<1>2. /\ call'[c] # NoCall /\ call'[c].step = "unwind"
      /\ call'[c].id = x /\ call'[c].handle = h
      /\ \A d \in Call \ {c} : call'[d] = call[d]
      /\ call' \in [Call -> CallState]
  BY <1>1, GotoEffect DEF MarkReadyFails, CreateStep
<1>3. /\ process' = process /\ container' = container /\ stranded' = stranded
      /\ \A y \in Computer \ {x} : computer'[y] = computer[y]
      /\ computer'[x] = computer[x] \/ computer'[x] = Handled(c)
      /\ computer' = [y \in Computer |-> computer'[y]]
  BY <1>1 DEF MarkReadyFails, TypeOK
<1>4. h # None
  BY <1>1, SandboxAssumption DEF Names
<1>5. /\ \/ computer'[x].status = "provisioning" /\ computer'[x].handle = None
         \/ computer'[x].status = "ready" /\ computer'[x].handle = h
      /\ computer'[x].isolation = computer[x].isolation
      /\ computer'[x] \in ComputerRow
  BY <1>1, <1>3, HandledEffect, Fields
<1>6. \A d \in Call \ {c} : call[d] # NoCall => call[d].id # x
  BY <1>1, Alone
<1> HIDE DEF x, h
<1>7. TypeOK'
  BY <1>2, <1>3, <1>5 DEF TypeOK
<1>8. RowShape'
  BY <1>1, <1>3, <1>4, <1>5 DEF RowShape
<1>9. CallShape'
  <2>1. \A d \in Call \ {c} : call'[d] # NoCall => call[d] \in Placed /\ call[d].id \in Computer \ {x}
    BY <1>2, <1>6, Fields DEF Placed
  <2>2. \A d \in Call \ {c} : call'[d] # NoCall => computer'[call'[d].id] = computer[call[d].id]
    BY <2>1, <1>2, <1>3
  <2>3. QED
    BY <2>2, <1>1, <1>2, <1>5 DEF CallShape, DestroyStep
<1>10. Sole'
  BY <1>2, <1>6 DEF Sole
<1>11. ProcessKnown' /\ ContainerKnown'
  <2>1. ASSUME NEW y \in Computer, NEW g \in Pid \cup {"container"}, Known(y, g)
        PROVE  Known(y, g)'
    <3>1. g # None
      BY SandboxAssumption
    <3>2. CASE y = x
      BY <1>1, <1>2, <1>6, <2>1, <3>1, <3>2 DEF Known, h
    <3>3. CASE y # x
      BY <1>2, <1>3, <2>1, <3>3 DEF Known, x
    <3>4. QED
      BY <3>2, <3>3
  <2>2. QED
    BY <1>3, <1>5, <2>1 DEF ProcessKnown, ContainerKnown
<1>12. TornDown' /\ DestroyedGone'
  BY <1>1, <1>2, <1>3, <1>5, <1>6 DEF TornDown, DestroyedGone, Running
<1>13. QED
  BY <1>7, <1>8, <1>9, <1>10, <1>11, <1>12

LEMMA UnwindStep ==
  ASSUME IInv, NEW c \in Call, Unwind(c)
  PROVE  IInv'
<1> DEFINE x == call[c].id
           h == call[c].handle
<1> USE DEF IInv
<1>1. /\ call[c] # NoCall /\ call[c] \in Placed /\ x \in Computer
      /\ call[c].step = "unwind" /\ Names(h, computer[x].isolation)
  BY Fields DEF Unwind, At, CallShape, Placed
<1>2. /\ call'[c] = NoCall
      /\ \A d \in Call \ {c} : call'[d] = call[d]
      /\ call' \in [Call -> CallState]
  BY ReturnEffect DEF Unwind, Kill
<1>3. /\ computer' = computer
      /\ process' \in [Pid -> Computer \cup {None}]
      /\ \A p \in Pid : process'[p] = process[p] \/ process'[p] = None
      /\ h \in Pid => process'[h] = None
      /\ \A y \in Computer \ {x} : container'[y] = container[y]
      /\ container'[x] \in {"none", container[x]}
      /\ h = "container" => container'[x] = "none" \/ x \in stranded'
      /\ container' \in [Computer -> {"none", "running", "stopped"}]
      /\ stranded \subseteq stranded' /\ stranded' \subseteq Computer
  BY <1>1, SandboxAssumption DEF Unwind, Kill, TypeOK
<1> HIDE DEF x, h
<1>4. TypeOK' /\ RowShape'
  BY <1>2, <1>3 DEF TypeOK, RowShape
<1>5. CallShape' /\ Sole'
  BY <1>2, <1>3 DEF CallShape, Sole
<1>6. ProcessKnown'
  <2>1. ASSUME NEW y \in Computer, NEW p \in Pid, process'[p] = y, y \notin stranded'
        PROVE  computer[y].isolation = "process" /\ Known(y, p)'
    <3>1. process[p] = y /\ y \notin stranded /\ p # h
      BY <1>3, <2>1, SandboxAssumption
    <3>2. computer[y].isolation = "process" /\ Known(y, p)
      BY <3>1 DEF ProcessKnown
    <3>3. QED
      BY <3>1, <3>2, <1>2, <1>3 DEF Known, h
  <2>2. QED
    BY <2>1, <1>3 DEF ProcessKnown
<1>7. ContainerKnown'
  <2>1. ASSUME NEW y \in Computer, container'[y] # "none", y \notin stranded'
        PROVE  computer[y].isolation = "container" /\ Known(y, "container")'
    <3>1. container[y] # "none" /\ y \notin stranded /\ (y # x \/ h # "container")
      BY <1>3, <2>1
    <3>2. computer[y].isolation = "container" /\ Known(y, "container")
      BY <3>1 DEF ContainerKnown
    <3>3. QED
      BY <3>1, <3>2, <1>2, <1>3 DEF Known, h, x
  <2>2. QED
    BY <2>1, <1>3 DEF ContainerKnown
<1>8. \A y \in Computer : Running(y)' => Running(y)
  BY <1>3, SandboxAssumption DEF Running
<1>9. TornDown' /\ DestroyedGone'
  <2>1. \A d \in Call : call'[d] # NoCall => call'[d] = call[d] /\ call[d].id \in Computer
    BY <1>2, Fields DEF Placed
  <2>2. TornDown'
    BY <2>1, <1>3, <1>8 DEF TornDown
  <2>3. DestroyedGone'
    BY <1>3, <1>8 DEF DestroyedGone
  <2>4. QED
    BY <2>2, <2>3
<1>10. QED
  BY <1>4, <1>5, <1>6, <1>7, <1>9

----------------------------------------------------------------------------
(* Destroy *)

\* The row names the instance: nothing of x runs but what the row's handle says.
LEMMA RowNamesAll ==
  ASSUME IInv, NEW x \in Computer, computer[x].status \in {"ready", "failed", "destroyed"},
         x \notin stranded
  PROVE  /\ \A p \in Pid : process[p] = x => computer[x].handle = p
         /\ container[x] # "none" => computer[x].handle = "container"
<1> USE DEF IInv
<1>1. ASSUME NEW h, Known(x, h)
      PROVE  computer[x].handle = h
  BY <1>1 DEF Known, CallShape
<1>2. QED
  BY <1>1 DEF ProcessKnown, ContainerKnown

LEMMA HandleDestroyStep ==
  ASSUME IInv, NEW c \in Call, NEW x \in Computer, HandleDestroyComputer(c, x)
  PROVE  IInv'
<1> DEFINE h == computer[x].handle
           t == [step |-> IF h = None THEN "destroyed" ELSE "teardown",
                 id |-> x, handle |-> h, live |-> TRUE]
<1> USE DEF IInv
<1>1. /\ call[c] = NoCall /\ computer[x].status \in {"ready", "failed"}
      /\ call' = [call EXCEPT ![c] = t]
      /\ computer' = computer /\ process' = process /\ container' = container
      /\ stranded' = stranded
  BY DEF HandleDestroyComputer, Destroy, Destroyable
<1>2. t \in Placed /\ t.id = x /\ t.handle = h /\ t.step \in {"destroyed", "teardown"}
      /\ (t.step = "destroyed" <=> h = None)
  <2>1. h \in Handle
    BY Fields DEF ComputerRow
  <2>2. QED
    BY <2>1 DEF Placed, DestroyStep
<1> HIDE DEF t
<1>3. /\ call'[c] # NoCall /\ call'[c].step = t.step /\ call'[c].id = x /\ call'[c].handle = h
      /\ \A d \in Call \ {c} : call'[d] = call[d]
      /\ call' \in [Call -> CallState]
  BY <1>1, <1>2, PlaceEffect
<1>4. TypeOK' /\ RowShape'
  BY <1>1, <1>3 DEF TypeOK, RowShape
<1>5. CallShape'
  BY <1>1, <1>2, <1>3 DEF CallShape, DestroyStep
<1>6. Sole'
  <2>1. \A d \in Call : call[d] # NoCall /\ call[d].id = x /\ call[d].step \in CreateStep =>
          call[d].step = "unwind"
    BY <1>1 DEF CallShape, CreateStep
  <2>2. QED
    BY <1>1, <1>2, <1>3, <2>1 DEF Sole, CreateStep, DestroyStep
<1>7. ProcessKnown' /\ ContainerKnown'
  BY <1>1, <1>3 DEF ProcessKnown, ContainerKnown, Known
<1>8. TornDown'
  <2>1. h = None => ~Running(x) \/ x \in stranded
    BY <1>1, RowNamesAll, SandboxAssumption DEF Running
  <2>2. QED
    BY <1>1, <1>2, <1>3, <2>1 DEF TornDown, Running
<1>9. DestroyedGone'
  BY <1>1 DEF DestroyedGone, Running
<1>10. QED
  BY <1>4, <1>5, <1>6, <1>7, <1>8, <1>9

\* A step of Destroy that may stop an instance, and only the one its handle names.
LEMMA DestroyFrame ==
  ASSUME IInv, NEW c \in Call, call[c] # NoCall,
         call[c].step \in DestroyStep,
         NEW x \in Computer, call[c].id = x,
         call' \in [Call -> CallState],
         \A d \in Call \ {c} : call'[d] = call[d],
         call'[c] = NoCall \/
           /\ call'[c] # NoCall
           /\ call'[c].id = x /\ call'[c].handle = call[c].handle
           /\ call'[c].step \in {call[c].step, "remove", "destroyed"}
           /\ call'[c].step = "remove" => call[c].handle = "container"
           /\ call'[c].step = "destroyed" =>
                ~Running(x)' \/ x \in stranded,
         computer' = computer, stranded' = stranded,
         process' \in [Pid -> Computer \cup {None}],
         \A p \in Pid : process'[p] = process[p] \/ process'[p] = None,
         container' \in [Computer -> {"none", "running", "stopped"}],
         \A y \in Computer : \/ container'[y] = container[y]
                             \/ container[y] # "none" /\ container'[y] # "running"
  PROVE  IInv'
<1> USE DEF IInv
<1>1. TypeOK' /\ RowShape'
  BY DEF TypeOK, RowShape
<1>2. CallShape'
  BY DEF CallShape, DestroyStep, CreateStep
<1>3. Sole'
  BY DEF Sole, DestroyStep, CreateStep
<1>4. \A y \in Computer : \A h : Known(y, h) => Known(y, h)'
  BY DEF Known, DestroyStep
<1>5. ProcessKnown'
  BY <1>4, SandboxAssumption DEF ProcessKnown
<1>6. ContainerKnown'
  BY <1>4 DEF ContainerKnown
<1>7. \A y \in Computer : Running(y)' => Running(y)
  BY SandboxAssumption DEF Running
<1>8. TornDown'
  <2>1. \A d \in Call \ {c} : call'[d] # NoCall => call[d].id \in Computer
    BY Fields DEF Placed
  <2>2. QED
    BY <1>7, <2>1 DEF TornDown
<1>9. DestroyedGone'
  BY <1>7 DEF DestroyedGone
<1>10. QED
  BY <1>1, <1>2, <1>3, <1>5, <1>6, <1>8, <1>9

\* After the kill, or docker rm, the instance its row names is gone: so all are.
LEMMA TeardownStep ==
  ASSUME IInv, NEW c \in Call, Teardown(c)
  PROVE  IInv'
<1> DEFINE h == call[c].handle
<1> USE DEF IInv
<1>0. PICK x \in Computer : call[c].id = x
  BY Fields DEF Teardown, DockerStop, DockerRm, At, Placed
<1>1. /\ call[c] # NoCall /\ call[c].step = "teardown" /\ h \in Pid
      /\ computer[x].handle = h
      /\ computer[x].status \in {"ready", "failed", "destroyed"}
  BY <1>0, Fields DEF Teardown, Kill, At, CallShape, DestroyStep
<1>2. /\ call'[c] # NoCall /\ call'[c].step = "destroyed"
      /\ call'[c].id = x /\ call'[c].handle = h
      /\ \A d \in Call \ {c} : call'[d] = call[d]
      /\ call' \in [Call -> CallState]
  BY <1>0, <1>1, GotoEffect DEF Teardown, Kill, DestroyStep
<1>3. /\ computer' = computer /\ container' = container /\ stranded' = stranded
      /\ process' \in [Pid -> Computer \cup {None}]
      /\ process'[h] = None /\ \A p \in Pid \ {h} : process'[p] = process[p]
  BY <1>0, <1>1 DEF Teardown, Kill, TypeOK
<1>4. ~Running(x)' \/ x \in stranded
  <2>1. x \notin stranded => /\ \A p \in Pid : process[p] = x => p = h
                             /\ container[x] = "none"
    BY <1>1, RowNamesAll, SandboxAssumption
  <2>2. QED
    BY <1>1, <1>3, <2>1, SandboxAssumption DEF Running
<1>5. call[c].step \in DestroyStep
  BY <1>0, <1>1 DEF DestroyStep
<1>6. \A y \in Computer : container'[y] = container[y]
  BY <1>3
<1>7. container' \in [Computer -> {"none", "running", "stopped"}]
  BY <1>3 DEF TypeOK
<1>8. QED
  BY <1>0, <1>1, <1>2, <1>3, <1>4, <1>5, <1>6, <1>7, DestroyFrame

LEMMA DockerStep ==
  ASSUME IInv, NEW c \in Call, DockerStop(c) \/ DockerRm(c)
  PROVE  IInv'
<1> DEFINE h == call[c].handle
<1> USE DEF IInv
<1>0. PICK x \in Computer : call[c].id = x
  BY Fields DEF Teardown, DockerStop, DockerRm, At, Placed
<1>1. /\ call[c] # NoCall /\ call[c].step \in {"teardown", "remove"}
      /\ h = "container" /\ computer[x].handle = h
      /\ computer[x].status \in {"ready", "failed", "destroyed"}
      /\ call[c].step \in DestroyStep /\ container[x] # "none"
  BY <1>0, Fields DEF DockerStop, DockerRm, At, CallShape, DestroyStep
<1>2. PICK s \in {"remove", "destroyed"} :
        /\ Goto(c, s)
        /\ s = "destroyed" => DockerRm(c)
  BY DEF DockerStop, DockerRm
<1>3. /\ call'[c] # NoCall /\ call'[c].step = s
      /\ call'[c].id = x /\ call'[c].handle = h
      /\ \A d \in Call \ {c} : call'[d] = call[d]
      /\ call' \in [Call -> CallState]
  BY <1>0, <1>1, <1>2, GotoEffect DEF DestroyStep
<1>4. /\ computer' = computer /\ process' = process /\ stranded' = stranded
      /\ container' \in [Computer -> {"none", "running", "stopped"}]
      /\ container'[x] \in {"stopped", "none"}
      /\ \A y \in Computer \ {x} : container'[y] = container[y]
      /\ process' \in [Pid -> Computer \cup {None}]
  BY <1>0, <1>1 DEF DockerStop, DockerRm, TypeOK
<1>5. s = "destroyed" => ~Running(x)' \/ x \in stranded
  <2>1. x \notin stranded => \A p \in Pid : process[p] # x
    BY <1>1, RowNamesAll, SandboxAssumption
  <2>2. QED
    BY <1>4, <2>1 DEF Running
<1>6. QED
  BY <1>0, <1>1, <1>2, <1>3, <1>4, <1>5, DestroyFrame

LEMMA DestroyReturnStep ==
  ASSUME IInv, NEW c \in Call, DockerFails(c) \/ MarkDestroyedFails(c)
  PROVE  IInv'
<1> USE DEF IInv
<1>1. call[c] # NoCall /\ call[c].step \in DestroyStep /\ call[c].id \in Computer
  BY Fields DEF DockerFails, MarkDestroyedFails, At, DestroyStep, Placed
<1>2. /\ call'[c] = NoCall
      /\ \A d \in Call \ {c} : call'[d] = call[d]
      /\ call' \in [Call -> CallState]
  BY ReturnEffect DEF DockerFails, MarkDestroyedFails
<1>3. /\ computer' = computer /\ process' = process /\ container' = container
      /\ stranded' = stranded
  BY DEF DockerFails, MarkDestroyedFails
<1>4. /\ process' \in [Pid -> Computer \cup {None}]
      /\ container' \in [Computer -> {"none", "running", "stopped"}]
  BY <1>3 DEF TypeOK
<1>5. QED
  BY <1>1, <1>2, <1>3, <1>4, DestroyFrame

LEMMA MarkDestroyedStep ==
  ASSUME IInv, NEW c \in Call, MarkDestroyed(c)
  PROVE  IInv'
<1> DEFINE x == call[c].id
<1> USE DEF IInv
<1>1. /\ call[c] # NoCall /\ call[c].step = "destroyed" /\ x \in Computer
      /\ computer[x].status \in {"ready", "failed", "destroyed"}
      /\ computer[x] \in ComputerRow
      /\ ~Running(x) \/ x \in stranded
  BY Fields DEF MarkDestroyed, At, CallShape, Placed, DestroyStep, TornDown
<1>2. /\ call'[c] = NoCall
      /\ \A d \in Call \ {c} : call'[d] = call[d]
      /\ call' \in [Call -> CallState]
  BY ReturnEffect DEF MarkDestroyed
<1>3. /\ process' = process /\ container' = container /\ stranded' = stranded
      /\ \A y \in Computer \ {x} : computer'[y] = computer[y]
      /\ computer'[x] = [computer[x] EXCEPT !.status = "destroyed"]
      /\ computer' = [y \in Computer |-> computer'[y]]
  BY <1>1 DEF MarkDestroyed, TypeOK
<1>4. /\ computer'[x].status = "destroyed" /\ computer'[x].handle = computer[x].handle
      /\ computer'[x].isolation = computer[x].isolation
      /\ computer'[x] \in ComputerRow
  BY <1>1, <1>3 DEF ComputerRow, Status
<1> HIDE DEF x
<1>5. TypeOK'
  BY <1>2, <1>3, <1>4 DEF TypeOK
<1>6. RowShape'
  BY <1>1, <1>3, <1>4 DEF RowShape
<1>7. CallShape'
  <2>1. ASSUME NEW d \in Call, call'[d] # NoCall
        PROVE  /\ call'[d] = call[d] /\ call[d].id \in Computer
               /\ computer'[call[d].id].handle = computer[call[d].id].handle
               /\ computer'[call[d].id].isolation = computer[call[d].id].isolation
               /\ \/ computer'[call[d].id].status = computer[call[d].id].status
                  \/ /\ computer'[call[d].id].status = "destroyed"
                     /\ computer[call[d].id].status \in {"ready", "failed", "destroyed"}
    <3>1. call'[d] = call[d] /\ call[d].id \in Computer
      BY <1>2, <2>1, Fields DEF Placed
    <3>2. CASE call[d].id = x
      BY <1>1, <1>4, <3>1, <3>2
    <3>3. CASE call[d].id # x
      BY <1>3, <3>1, <3>3
    <3>4. QED
      BY <3>1, <3>2, <3>3
  <2>2. QED
    BY <2>1 DEF CallShape
<1>8. Sole'
  BY <1>2 DEF Sole
<1>9. ProcessKnown' /\ ContainerKnown'
  <2>1. \A y \in Computer : computer'[y].handle = computer[y].handle
                            /\ computer'[y].isolation = computer[y].isolation
    BY <1>3, <1>4
  <2>2. ASSUME NEW y \in Computer, NEW h, Known(y, h)
        PROVE  Known(y, h)'
    <3>1. CASE computer[y].handle = h
      BY <2>1, <3>1 DEF Known
    <3>2. CASE computer[y].handle # h
      <4>1. PICK d \in Call : /\ call[d] # NoCall /\ call[d].id = y
                              /\ call[d].step \in {"ready", "unwind"} /\ call[d].handle = h
        BY <2>2, <3>2 DEF Known
      <4>2. d # c
        BY <1>1, <4>1
      <4>3. QED
        BY <1>2, <4>1, <4>2 DEF Known
    <3>3. QED
      BY <3>1, <3>2
  <2>3. QED
    BY <1>3, <2>1, <2>2 DEF ProcessKnown, ContainerKnown
<1>10. TornDown' /\ DestroyedGone'
  BY <1>1, <1>2, <1>3, <1>4 DEF TornDown, DestroyedGone, Running
<1>11. QED
  BY <1>5, <1>6, <1>7, <1>8, <1>9, <1>10

----------------------------------------------------------------------------
(* The environment *)

LEMMA RequestEndsStep ==
  ASSUME IInv, NEW c \in Call, RequestEnds(c)
  PROVE  IInv'
<1> DEFINE t == [call[c] EXCEPT !.live = FALSE]
<1> USE DEF IInv
<1>1. call[c] # NoCall /\ call[c] \in Placed
  BY Fields DEF RequestEnds
<1>2. t \in Placed /\ t.step = call[c].step /\ t.id = call[c].id /\ t.handle = call[c].handle
  BY <1>1 DEF Placed
<1>3. call' = [call EXCEPT ![c] = t]
  BY DEF RequestEnds, TypeOK
<1> HIDE DEF t
<1>4. /\ call'[c] # NoCall /\ call'[c].step = call[c].step
      /\ call'[c].id = call[c].id /\ call'[c].handle = call[c].handle
      /\ \A d \in Call \ {c} : call'[d] = call[d]
      /\ call' \in [Call -> CallState]
  BY <1>2, <1>3, PlaceEffect
<1>5. /\ computer' = computer /\ process' = process /\ container' = container
      /\ stranded' = stranded
  BY DEF RequestEnds
<1>6. \A d \in Call : /\ call'[d] # NoCall <=> call[d] # NoCall
                      /\ call[d] # NoCall => /\ call'[d].step = call[d].step
                                             /\ call'[d].id = call[d].id
                                             /\ call'[d].handle = call[d].handle
  BY <1>1, <1>4
<1>7. TypeOK' /\ RowShape'
  BY <1>4, <1>5 DEF TypeOK, RowShape
<1>8. CallShape'
  BY <1>5, <1>6 DEF CallShape
<1>9. Sole'
  BY <1>6 DEF Sole
<1>10. ProcessKnown' /\ ContainerKnown'
  BY <1>5, <1>6 DEF ProcessKnown, ContainerKnown, Known
<1>11. TornDown' /\ DestroyedGone'
  BY <1>5, <1>6 DEF TornDown, DestroyedGone, Running
<1>12. QED
  BY <1>7, <1>8, <1>9, <1>10, <1>11

LEMMA CommandExitsStep ==
  ASSUME IInv, CommandExits
  PROVE  IInv'
<1> USE DEF IInv
<1>0. /\ process' \in [Pid -> Computer \cup {None}]
      /\ \A p \in Pid : process'[p] = process[p] \/ process'[p] = None
      /\ container' \in [Computer -> {"none", "running", "stopped"}]
      /\ \A y \in Computer : \/ container'[y] = container[y]
                             \/ container[y] = "running" /\ container'[y] = "stopped"
  <2>1. ASSUME NEW p \in Pid, process' = [process EXCEPT ![p] = None], UNCHANGED container
        PROVE  <1>0!:
    BY <2>1 DEF TypeOK
  <2>2. ASSUME NEW x \in Computer, container[x] = "running",
               container' = [container EXCEPT ![x] = "stopped"], UNCHANGED process
        PROVE  <1>0!:
    BY <2>2 DEF TypeOK
  <2>3. QED
    BY <2>1, <2>2 DEF CommandExits
<1>1. /\ computer' = computer /\ call' = call /\ stranded' = stranded
      /\ \A y \in Computer : \/ container'[y] = container[y]
                             \/ container[y] # "none" /\ container'[y] # "running"
  BY <1>0 DEF CommandExits
<1>2. TypeOK' /\ RowShape' /\ CallShape' /\ Sole'
  BY <1>0, <1>1 DEF TypeOK, RowShape, CallShape, Sole
<1>3. ProcessKnown' /\ ContainerKnown'
  BY <1>0, <1>1, SandboxAssumption DEF ProcessKnown, ContainerKnown, Known
<1>4. \A y \in Computer : Running(y)' => Running(y)
  BY <1>0, <1>1, SandboxAssumption DEF Running
<1>5. TornDown' /\ DestroyedGone'
  <2>1. \A d \in Call : call[d] # NoCall => call[d].id \in Computer
    BY Fields DEF Placed
  <2>2. QED
    BY <1>1, <1>4, <2>1 DEF TornDown, DestroyedGone
<1>6. QED
  BY <1>2, <1>3, <1>5

\* A dead daemon forgets what only its calls knew: those launches are stranded.
LEMMA CrashStep ==
  ASSUME IInv, Crash
  PROVE  IInv'
<1> USE DEF IInv
<1>1. /\ computer' = computer /\ process' = process /\ container' = container
      /\ \A c \in Call : call'[c] = NoCall
      /\ call' \in [Call -> CallState]
      /\ stranded \subseteq stranded'
      /\ \A c \in Call : call[c] # NoCall /\ call[c].step \in {"ready", "unwind"} =>
           call[c].id \in stranded'
  BY DEF Crash, CallState
<1>2. stranded' \subseteq Computer
  <2>1. \A c \in Call : call[c] # NoCall => call[c].id \in Computer
    BY Fields DEF Placed
  <2>2. QED
    BY <2>1 DEF Crash, TypeOK
<1>3. TypeOK' /\ RowShape' /\ CallShape' /\ Sole' /\ TornDown'
  BY <1>1, <1>2 DEF TypeOK, RowShape, CallShape, Sole, TornDown
<1>4. ProcessKnown' /\ ContainerKnown' /\ DestroyedGone'
  BY <1>1 DEF ProcessKnown, ContainerKnown, Known, DestroyedGone, Running
<1>5. QED
  BY <1>3, <1>4

LEMMA CreateStepInv ==
  ASSUME IInv, NEW c \in Call, NEW x \in Computer, NEW iso \in Isolation,
         HandleCreateComputer(c, x, iso)
  PROVE  IInv'
<1> DEFINE t == [step |-> "launch", id |-> x, handle |-> None, live |-> TRUE]
           row == [status |-> "provisioning", isolation |-> iso, handle |-> None]
<1> USE DEF IInv
<1>1. /\ call[c] = NoCall /\ computer[x].status = "absent"
      /\ call' = [call EXCEPT ![c] = t]
      /\ process' = process /\ container' = container /\ stranded' = stranded
      /\ computer'[x] = row
      /\ \A y \in Computer \ {x} : computer'[y] = computer[y]
      /\ computer' = [y \in Computer |-> computer'[y]]
  BY DEF HandleCreateComputer, Create, TypeOK
<1>2. t \in Placed /\ t.id = x /\ t.step = "launch"
  BY DEF Placed, CreateStep, Handle
<1>3. row \in ComputerRow /\ row.status = "provisioning" /\ row.isolation = iso /\ row.handle = None
  BY DEF ComputerRow, Status, Handle
<1>4. computer[x].handle = None
  BY <1>1 DEF RowShape
<1>5. \A d \in Call : call[d] # NoCall => call[d].id \in Computer \ {x}
  BY <1>1, Fields DEF CallShape, Placed
<1> HIDE DEF t, row
<1>6. /\ call'[c] # NoCall /\ call'[c].step = "launch" /\ call'[c].id = x
      /\ \A d \in Call \ {c} : call'[d] = call[d]
      /\ call' \in [Call -> CallState]
  BY <1>1, <1>2, PlaceEffect
<1>7. TypeOK' /\ RowShape'
  BY <1>1, <1>3, <1>6 DEF TypeOK, RowShape
<1>8. CallShape'
  <2>1. \A d \in Call \ {c} : call'[d] # NoCall => computer'[call'[d].id] = computer[call[d].id]
    BY <1>1, <1>5, <1>6
  <2>2. QED
    BY <2>1, <1>1, <1>3, <1>6 DEF CallShape, DestroyStep
<1>9. Sole'
  BY <1>1, <1>5, <1>6 DEF Sole
<1>10. ASSUME NEW y \in Computer, NEW h \in Pid \cup {"container"}, Known(y, h)
       PROVE  y # x /\ Known(y, h)'
  <2>1. h # None
    BY SandboxAssumption
  <2>2. y # x
    BY <1>4, <1>5, <1>10, <2>1 DEF Known
  <2>3. QED
    BY <1>1, <1>6, <1>10, <2>2 DEF Known
<1>11. ProcessKnown' /\ ContainerKnown'
  BY <1>1, <1>10 DEF ProcessKnown, ContainerKnown
<1>12. TornDown' /\ DestroyedGone'
  BY <1>1, <1>3, <1>6 DEF TornDown, DestroyedGone, Running
<1>13. QED
  BY <1>7, <1>8, <1>9, <1>11, <1>12

LEMMA InvStep ==
  ASSUME IInv, [Next]_vars
  PROVE  IInv'
<1>1. CASE UNCHANGED vars
  BY <1>1 DEF vars, IInv, TypeOK, RowShape, CallShape, Sole, ProcessKnown, ContainerKnown, Known,
              TornDown, DestroyedGone, Running
<1>2. ASSUME NEW c \in Call, Creating(c)
      PROVE  IInv'
  BY <1>2, CreateStepInv, LaunchProcessStep, LaunchContainerStep, LaunchFailsStep, MarkFailedStep,
     MarkReadyStep, MarkReadyFailsStep, UnwindStep DEF Creating
<1>3. ASSUME NEW c \in Call, Destroying(c)
      PROVE  IInv'
  BY <1>3, HandleDestroyStep, TeardownStep, DockerStep, DestroyReturnStep, MarkDestroyedStep
  DEF Destroying
<1>4. QED
  BY <1>1, <1>2, <1>3, RequestEndsStep, CommandExitsStep, CrashStep DEF Next

LEMMA InitInv ==
  ASSUME Init
  PROVE  IInv
<1>1. TypeOK
  BY DEF Init, TypeOK, ComputerRow, Status, Handle, CallState
<1>2. RowShape
  BY DEF Init, RowShape
<1>3. CallShape /\ Sole /\ TornDown
  BY DEF Init, CallShape, Sole, TornDown
<1>4. ProcessKnown /\ ContainerKnown /\ DestroyedGone
  BY SandboxAssumption DEF Init, ProcessKnown, ContainerKnown, DestroyedGone
<1>5. QED
  BY <1>1, <1>2, <1>3, <1>4 DEF IInv

\* The invariant that the properties below rest on.
THEOREM Invariant == Spec => []IInv
<1>1. Init => IInv
  BY InitInv
<1>2. IInv /\ [Next]_vars => IInv'
  BY InvStep
<1>3. QED
  BY <1>1, <1>2, PTL DEF Spec

\* Rows, host, containers and calls keep their types.
THEOREM TypeCorrect == Spec => []TypeOK
<1>1. IInv => TypeOK
  BY DEF IInv
<1>2. QED
  BY <1>1, Invariant, PTL

\* Destroyed means gone: nothing runs behind a row Destroy has marked, however Creates,
\* Destroys, lost UPDATEs, ended requests and daemon deaths interleave, unless a launch
\* could not be followed up.
THEOREM DestroyedIsGone == Spec => []DestroyedGone
<1>1. IInv => DestroyedGone
  BY DEF IInv
<1>2. QED
  BY <1>1, Invariant, PTL

\* No other instance leaks: what runs without a request working on it, and was not
\* stranded, is named by a row that Destroy accepts.
THEOREM NothingIsLeaked == Spec => []NothingLeaks
<1>1. IInv => NothingLeaks
  <2>1. SUFFICES ASSUME IInv, NEW x \in Computer, Unattended(x), x \notin stranded
                 PROVE  Reachable(x)
    BY DEF NothingLeaks
  <2> USE DEF IInv
  <2>2. \A h : Known(x, h) => computer[x].handle = h
    BY <2>1 DEF Known, Unattended
  <2>3. /\ \A p \in Pid : process[p] = x => computer[x].isolation = "process" /\ computer[x].handle = p
        /\ container[x] = "running" =>
             computer[x].isolation = "container" /\ computer[x].handle = "container"
    BY <2>1, <2>2 DEF ProcessKnown, ContainerKnown
  <2>4. computer[x].handle # None /\ computer[x].status # "destroyed"
    BY <2>1, <2>3, SandboxAssumption DEF Unattended, Running, DestroyedGone
  <2>5. computer[x].status \in Destroyable
    <3>1. computer[x].status \in Status
      BY <2>1, Fields DEF ComputerRow
    <3>2. computer[x].status \notin {"absent", "provisioning", "failed"}
      BY <2>1, <2>4 DEF RowShape
    <3>3. QED
      BY <2>4, <3>1, <3>2 DEF Status, Destroyable
  <2>6. QED
    BY <2>1, <2>3, <2>5 DEF Reachable, Unattended, Running
<1>2. QED
  BY <1>1, Invariant, PTL
=============================================================================
