-------------------------- MODULE SimulatorProofs --------------------------
(***************************************************************************)
(* Proofs about the service that starts and stops the simulated vehicles   *)
(* (SimulatorService), for any number of vehicles and loops.               *)
(***************************************************************************)
EXTENDS SimulatorService, FiniteSetTheorems, TLAPS

-----------------------------------------------------------------------------
(***************************************************************************)
(* The service: the inductive invariant.  A twin that runs has a loop that *)
(* is not cancelled, and if it still knows of one then of its own; a loop  *)
(* is cancelled only while it exists.                                      *)
(***************************************************************************)
ServiceIInv ==
  /\ TypeOK
  /\ \A u \in Twins :
       /\ running[u] => \E l \in Loops \ cancelled : owner[l] = u
       /\ running[u] /\ task[u] # None => owner[task[u]] = u /\ task[u] \notin cancelled
       /\ ~running[u] /\ task[u] # None => task[u] \in cancelled \/ owner[task[u]] = None
  /\ \A l \in Loops \cap cancelled : owner[l] # None

\* A set of natural numbers that is not empty has a least element: what
\* inductions over a sequence rest on.
LEMMA LeastNatural ==
  ASSUME NEW T, T \subseteq Nat, T # {}
  PROVE  \E x \in T : \A y \in T : x <= y
<1>1. PICK R : R = OpToRel(<, Nat)
  OBVIOUS
<1>2. IsWellFoundedOn(R, Nat)
  BY <1>1, NatLessThanWellFounded
<1>3. PICK x \in T : \A y \in T : ~ (<<y, x>> \in R)
  BY <1>2, WFMin
<1>4. \A y \in Nat : y < x => <<y, x>> \in R
  BY <1>1 DEF OpToRel
<1>5. \A y \in T : x \in Nat /\ y \in Nat /\ ~(y < x)
  BY <1>3, <1>4
<1>6. \A y \in T : x <= y
  BY <1>5
<1> QED  BY <1>6

\* What a stop or a start of the service does to each of its twins.
LEMMA EachIsAProgram ==
  ASSUME NEW what \in {"startTwin", "stopTwin", "check"}, NEW uids
  PROVE  Each(what, uids) \in Seq(Instruction)
<1>n. PICK n \in Nat : n = Len(Uids) /\ DOMAIN Uids = 1..n
  BY ServiceConstants
<1> DEFINE After(g, i) == IF i = 0 THEN <<>>
                          ELSE IF Uids[i] \in uids THEN Append(g[i - 1], Do(what, Uids[i]))
                          ELSE g[i - 1]
           Upto(m) == \E g : g = [i \in 0..m |-> After(g, i)]
<1>1. Upto(0)
  <2>g. PICK g : g = [i \in 0..0 |-> <<>>]
    OBVIOUS
  <2>1. g = [i \in 0..0 |-> After(g, i)]
    BY <2>g
  <2> QED  BY <2>1
<1>2. ASSUME NEW m \in Nat, m # 0, Upto(m - 1) PROVE Upto(m)
  <2>1. PICK g : g = [i \in 0..m - 1 |-> After(g, i)]
    BY <1>2
  <2>h. PICK h : h = [i \in 0..m |-> IF i = m THEN After(g, m) ELSE g[i]]
    OBVIOUS
  <2>2. ASSUME NEW i \in 0..m PROVE h[i] = After(h, i)
    <3>1. CASE i = 0
      <4>1. 0 \in 0..m /\ 0 # m
        BY <1>2
      <4>2. 0 \in 0..m - 1
        BY <1>2
      <4>3. After(g, 0) = <<>> /\ After(h, 0) = <<>>
        OBVIOUS
      <4>4. g[0] = After(g, 0)
        BY ONLY <2>1, <4>2
      <4>5. h[0] = g[0]
        BY ONLY <2>h, <4>1
      <4> QED  BY <3>1, <4>3, <4>4, <4>5
    <3>2. CASE i # 0
      <4>1. i - 1 \in 0..m - 1 /\ i - 1 \in 0..m /\ i - 1 # m
        BY <3>2
      <4>2. h[i - 1] = g[i - 1]
        BY <2>h, <4>1
      <4>3. After(h, i) = After(g, i)
        BY <4>2
      <4>4. h[i] = After(g, i)
        <5>1. CASE i = m
          BY <2>h, <5>1
        <5>2. CASE i # m
          <6>1. i \in 0..m - 1
            BY <5>2
          <6>2. h[i] = g[i]
            BY <2>h, <5>2
          <6> QED  BY <2>1, <6>1, <6>2
        <5> QED  BY <5>1, <5>2
      <4> QED  BY <4>3, <4>4
    <3> QED  BY <3>1, <3>2
  <2>3. h = [i \in 0..m |-> After(h, i)]
    BY <2>h, <2>2
  <2> QED  BY <2>3
<1>3. Upto(n)
  <2> DEFINE Missing == {m \in Nat : ~Upto(m)}
  <2>1. ASSUME Missing # {} PROVE FALSE
    <3>1. PICK m \in Missing : \A j \in Missing : m <= j
      BY <2>1, LeastNatural
    <3> HIDE DEF Upto
    <3>2. m \in Nat /\ ~Upto(m) /\ m # 0
      BY <1>1, <3>1
    <3>3. m - 1 \in Nat /\ m - 1 \notin Missing
      BY <3>1, <3>2
    <3>4. Upto(m - 1)
      BY <3>3
    <3> QED  BY <1>2, <3>2, <3>4
  <2> HIDE DEF Upto
  <2> QED  BY <2>1
<1> DEFINE first == CHOOSE g : g = [i \in 0..n |-> After(g, i)]
<1>4. first = [i \in 0..n |-> After(first, i)]
  BY <1>3
<1>5. Each(what, uids) = first[n]
  BY <1>n DEF Each
<1> HIDE DEF first
<1>6. \A i \in 1..n : Do(what, Uids[i]) \in Instruction
  BY <1>n DEF Do, Instruction, Twins
<1>7. \A i \in 0..n : first[i] \in Seq(Instruction)
  <2> DEFINE Wrong == {i \in 0..n : first[i] \notin Seq(Instruction)}
  <2>1. ASSUME Wrong # {} PROVE FALSE
    <3>1. PICK i \in Wrong : \A j \in Wrong : i <= j
      <4>1. Wrong \subseteq Nat
        OBVIOUS
      <4> QED  BY <2>1, <4>1, LeastNatural
    <3>2. i \in 0..n /\ first[i] = After(first, i) /\ first[i] \notin Seq(Instruction)
      BY <1>4, <3>1
    <3>3. i # 0
      BY <3>2
    <3>4. i - 1 \in 0..n /\ i - 1 \notin Wrong /\ i \in 1..n
      BY <3>1, <3>2, <3>3
    <3>5. first[i - 1] \in Seq(Instruction)
      BY <3>4
    <3>6. Do(what, Uids[i]) \in Instruction
      BY <1>6, <3>4
    <3> QED  BY <3>2, <3>3, <3>5, <3>6
  <2> QED  BY <2>1
<1> QED  BY <1>5, <1>7

(***************************************************************************)
(* Coroutines: what they have to do are instructions.                      *)
(***************************************************************************)
LEMMA Instructions ==
  /\ \A what \in {"startService", "stopService", "bootstrap", "watch", "while", "sleep"} :
       Do(what, None) \in Instruction
  /\ \A u \in Twins : \A what \in {"startTwin", "stopTwin", "status", "check"} :
       Do(what, u) \in Instruction
  /\ \A u \in Twins, l \in Loops : Do("awaitLoop", <<u, l>>) \in Instruction
  /\ \A m \in Monitors : Do("awaitMonitor", m) \in Instruction
BY DEF Do, Instruction

LEMMA AtInstruction ==
  ASSUME TypeOK, NEW k \in Tasks, NEW what, At(k, what)
  PROVE  /\ todo[k] # <<>> /\ Rest(k) \in Seq(Instruction)
         /\ what \in {"startTwin", "stopTwin", "status", "check"} => On(k) \in Twins
         /\ what = "awaitLoop" => On(k) \in Twins \X Loops
         /\ what = "awaitMonitor" => On(k) \in Monitors
<1>1. todo[k] \in Seq(Instruction) /\ todo[k] # <<>> /\ Head(todo[k]).do = what
  BY DEF TypeOK, At
<1>i. PICK i : i = Head(todo[k])
  OBVIOUS
<1>2. i \in Instruction /\ Rest(k) \in Seq(Instruction)
  BY <1>1, <1>i DEF Rest
<1>3. i.do = what /\ On(k) = i.on
  BY <1>1, <1>i DEF On
<1>4. /\ i.do \in {"startTwin", "stopTwin", "status", "check"} => i.on \in Twins
      /\ i.do = "awaitLoop" => i.on \in Twins \X Loops
      /\ i.do = "awaitMonitor" => i.on \in Monitors
  BY <1>2 DEF Instruction
<1> QED  BY <1>1, <1>2, <1>3, <1>4

LEMMA GotoTyped ==
  ASSUME TypeOK, NEW k \in Tasks, NEW s \in Seq(Instruction), Goto(k, s)
  PROVE  /\ todo' \in [Tasks -> Seq(Instruction)] /\ current' \in Tasks \cup {None}
BY DEF TypeOK, Goto

LEMMA Joined ==
  ASSUME NEW s \in Seq(Instruction), NEW t \in Seq(Instruction)
  PROVE  s \o t \in Seq(Instruction)
OBVIOUS

LEMMA Programmed ==
  ASSUME NEW i \in Instruction, NEW j \in Instruction
  PROVE  <<i>> \in Seq(Instruction) /\ <<i, j>> \in Seq(Instruction)
OBVIOUS

LEMMA Single ==
  ASSUME NEW i \in Instruction, NEW t \in Seq(Instruction)
  PROVE  <<i>> \in Seq(Instruction) /\ <<i>> \o t \in Seq(Instruction)
OBVIOUS

LEMMA Double ==
  ASSUME NEW i \in Instruction, NEW j \in Instruction, NEW t \in Seq(Instruction)
  PROVE  <<i, j>> \in Seq(Instruction) /\ <<i, j>> \o t \in Seq(Instruction)
OBVIOUS

(***************************************************************************)
(* A step that touches no twin and no loop.                                *)
(***************************************************************************)
LEMMA QuietStep ==
  ASSUME ServiceIInv, UNCHANGED <<running, task, owner>>,
         cancelled' \subseteq Loops \cup Monitors,
         cancelled' \cap Loops = cancelled \cap Loops,
         active' \in BOOLEAN, created' \subseteq Twins, monitor' \in Monitors \cup {None},
         todo' \in [Tasks -> Seq(Instruction)], current' \in Tasks \cup {None},
         calls' \in 0 .. MaxCalls, stuck' \in 0 .. MaxStuck
  PROVE  ServiceIInv'
<1>1. TypeOK'
  BY DEF ServiceIInv, TypeOK
<1>2. \A l \in Loops : l \in cancelled' <=> l \in cancelled
  OBVIOUS
<1>3. \A u \in Twins : task[u] # None => task[u] \in Loops
  BY DEF ServiceIInv, TypeOK
<1>4. \A u \in Twins :
        /\ running[u] => \E l \in Loops \ cancelled' : owner[l] = u
        /\ running[u] /\ task[u] # None => owner[task[u]] = u /\ task[u] \notin cancelled'
        /\ ~running[u] /\ task[u] # None => task[u] \in cancelled' \/ owner[task[u]] = None
  BY <1>2, <1>3 DEF ServiceIInv
<1>5. \A l \in Loops \cap cancelled' : owner[l] # None
  BY <1>2 DEF ServiceIInv
<1> QED  BY <1>1, <1>4, <1>5 DEF ServiceIInv

\* The same for a coroutine that goes on.
LEMMA QuietGoto ==
  ASSUME ServiceIInv, NEW k \in Tasks, NEW s \in Seq(Instruction), Goto(k, s),
         UNCHANGED <<twins, cancelled, calls>>,
         active' \in BOOLEAN, created' \subseteq Twins, monitor' \in Monitors \cup {None},
         stuck' \in 0 .. MaxStuck
  PROVE  ServiceIInv'
<1>1. TypeOK
  BY DEF ServiceIInv
<1>2. todo' \in [Tasks -> Seq(Instruction)] /\ current' \in Tasks \cup {None}
  BY <1>1, GotoTyped
<1>3. UNCHANGED <<running, task, owner>> /\ cancelled' = cancelled /\ calls' = calls
  BY DEF twins
<1>4. cancelled' \subseteq Loops \cup Monitors /\ calls' \in 0 .. MaxCalls
  BY <1>1, <1>3 DEF TypeOK
<1> QED  BY <1>2, <1>3, <1>4, QuietStep

LEMMA ServiceTyped ==
  ASSUME ServiceIInv
  PROVE  /\ TypeOK /\ active \in BOOLEAN /\ created \subseteq Twins
         /\ monitor \in Monitors \cup {None} /\ stuck \in 0 .. MaxStuck
BY DEF ServiceIInv, TypeOK

LEMMA RequestKeeps ==
  ASSUME ServiceIInv, NEW k \in Calls, Request(k)
  PROVE  ServiceIInv'
<1>1. TypeOK /\ k \in Tasks
  BY DEF ServiceIInv, Tasks
<1>2. PICK p \in Programs : todo' = [todo EXCEPT ![k] = p]
  BY DEF Request
<1>3. p \in Seq(Instruction)
  <2>1. CASE p \in {<<Do("startService", None)>>, <<Do("stopService", None)>>,
                    <<Do("stopService", None), Do("startService", None)>>}
    <3>1. PICK i, j \in Instruction : i = Do("startService", None) /\ j = Do("stopService", None)
      BY Instructions
    <3>2. p \in {<<i>>, <<j>>, <<j, i>>}
      BY <2>1, <3>1
    <3> QED  BY <3>2, Programmed
  <2>2. ASSUME NEW u \in created,
               p \in {<<Do("startTwin", u)>>, <<Do("stopTwin", u)>>,
                      <<Do("stopTwin", u), Do("startTwin", u)>>}
        PROVE  p \in Seq(Instruction)
    <3>1. u \in Twins
      BY <1>1 DEF TypeOK
    <3>2. PICK i, j \in Instruction : i = Do("startTwin", u) /\ j = Do("stopTwin", u)
      BY <3>1, Instructions
    <3>3. p \in {<<i>>, <<j>>, <<j, i>>}
      BY <2>2, <3>2
    <3> QED  BY <3>3, Programmed
  <2> QED  BY <1>2, <2>1, <2>2 DEF Programs
<1>4. todo' \in [Tasks -> Seq(Instruction)]
  BY <1>1, <1>2, <1>3 DEF TypeOK
<1>5. /\ UNCHANGED <<active, created, monitor, running, task, owner, cancelled, current, stuck>>
      /\ calls < MaxCalls /\ calls' = calls + 1
  BY DEF Request, service, twins
<1>6. calls' \in 0 .. MaxCalls
  BY <1>1, <1>5, ServiceConstants DEF TypeOK
<1>7. /\ cancelled' \subseteq Loops \cup Monitors /\ current' \in Tasks \cup {None}
      /\ active' \in BOOLEAN /\ created' \subseteq Twins /\ monitor' \in Monitors \cup {None}
      /\ stuck' \in 0 .. MaxStuck
  BY <1>1, <1>5 DEF TypeOK
<1>8. UNCHANGED <<running, task, owner>> /\ cancelled' \cap Loops = cancelled \cap Loops
  BY <1>5
<1> QED  BY <1>4, <1>6, <1>7, <1>8, QuietStep

LEMMA StartServiceKeeps ==
  ASSUME ServiceIInv, NEW k \in Tasks, StartService(k)
  PROVE  ServiceIInv'
<1>1. /\ At(k, "startService") /\ active' = TRUE
      /\ Goto(k, IF active THEN Rest(k) ELSE <<Do("bootstrap", None)>> \o Rest(k))
      /\ UNCHANGED <<created, monitor, twins, cancelled, calls, stuck>>
  BY DEF StartService
<1>2. Rest(k) \in Seq(Instruction)
  BY <1>1, AtInstruction, ServiceTyped
<1>3. <<Do("bootstrap", None)>> \o Rest(k) \in Seq(Instruction)
  BY <1>2, Instructions, Single
<1>s. PICK s : s = IF active THEN Rest(k) ELSE <<Do("bootstrap", None)>> \o Rest(k)
  OBVIOUS
<1>4. s \in Seq(Instruction) /\ Goto(k, s)
  BY <1>1, <1>2, <1>3, <1>s
<1>5. /\ UNCHANGED <<twins, cancelled, calls>>
      /\ active' \in BOOLEAN /\ created' \subseteq Twins /\ monitor' \in Monitors \cup {None}
      /\ stuck' \in 0 .. MaxStuck
  BY <1>1, ServiceTyped
<1> QED  BY <1>4, <1>5, QuietGoto

\* Steps of which nothing is left but the next instructions.
LEMMA PlainSteps ==
  ASSUME ServiceIInv, NEW k \in Tasks,
         Bootstrap(k) \/ BootstrapFails(k) \/ Status(k) \/ While(k) \/ Wake(k)
  PROVE  ServiceIInv'
<1>1. UNCHANGED <<active, created, monitor, twins, cancelled, calls, stuck>>
  BY DEF Bootstrap, BootstrapFails, Status, While, Wake, service
<1>2. TypeOK /\ created \subseteq Twins
  BY ServiceTyped
<1>3. /\ <<>> \in Seq(Instruction)
      /\ <<Do("sleep", None)>> \in Seq(Instruction)
      /\ <<Do("while", None)>> \in Seq(Instruction)
      /\ <<Do("watch", None)>> \in Seq(Instruction)
  BY Instructions
<1>4. \E s \in Seq(Instruction) : Goto(k, s)
  <2>1. CASE Bootstrap(k)
    <3>1. At(k, "bootstrap")
          /\ Goto(k, Each("startTwin", Twins) \o <<Do("watch", None)>> \o Rest(k))
      BY <2>1 DEF Bootstrap
    <3>2. Rest(k) \in Seq(Instruction) /\ Each("startTwin", Twins) \in Seq(Instruction)
      BY <1>2, <3>1, AtInstruction, EachIsAProgram
    <3>3. Each("startTwin", Twins) \o <<Do("watch", None)>> \o Rest(k) \in Seq(Instruction)
      BY <1>3, <3>2, Joined
    <3> QED  BY <3>1, <3>3
  <2>2. CASE BootstrapFails(k)
    BY <1>3, <2>2 DEF BootstrapFails
  <2>3. CASE Status(k)
    <3>1. At(k, "status") /\ Goto(k, Rest(k))
      BY <2>3 DEF Status
    <3> QED  BY <1>2, <3>1, AtInstruction
  <2>4. CASE While(k)
    <3>1. Goto(k, IF active THEN <<Do("sleep", None)>> ELSE <<>>)
      BY <2>4 DEF While
    <3> QED  BY <1>3, <3>1
  <2>5. CASE Wake(k)
    <3>1. Goto(k, Each("check", created) \o <<Do("while", None)>>)
      BY <2>5 DEF Wake
    <3>2. Each("check", created) \o <<Do("while", None)>> \in Seq(Instruction)
      BY <1>3, EachIsAProgram, Joined
    <3> QED  BY <3>1, <3>2
  <2> QED  BY <2>1, <2>2, <2>3, <2>4, <2>5
<1>5. PICK s \in Seq(Instruction) : Goto(k, s)
  BY <1>4
<1>6. /\ UNCHANGED <<twins, cancelled, calls>>
      /\ active' \in BOOLEAN /\ created' \subseteq Twins /\ monitor' \in Monitors \cup {None}
      /\ stuck' \in 0 .. MaxStuck
  BY <1>1, ServiceTyped
<1> QED  BY <1>5, <1>6, QuietGoto

LEMMA CheckKeeps ==
  ASSUME ServiceIInv, NEW m \in Tasks, Check(m)
  PROVE  ServiceIInv'
<1>1. /\ At(m, "check") /\ UNCHANGED <<active, created, monitor, twins, cancelled, calls>>
      /\ \/ Goto(m, Rest(m)) /\ UNCHANGED stuck
         \/ /\ UNCHANGED stuck \/ (stuck < MaxStuck /\ stuck' = stuck + 1)
            /\ Goto(m, <<Do("stopTwin", On(m)), Do("startTwin", On(m))>> \o Rest(m))
  BY DEF Check, service
<1>2. Rest(m) \in Seq(Instruction) /\ On(m) \in Twins
  BY <1>1, AtInstruction, ServiceTyped
<1>3. <<Do("stopTwin", On(m)), Do("startTwin", On(m))>> \o Rest(m) \in Seq(Instruction)
  BY <1>2, Instructions, Double
<1>4. PICK s \in Seq(Instruction) : Goto(m, s)
  BY <1>1, <1>2, <1>3
<1>5. stuck' \in 0 .. MaxStuck
  <2>1. stuck' = stuck \/ (stuck < MaxStuck /\ stuck' = stuck + 1)
    BY <1>1
  <2> QED  BY <2>1, ServiceTyped, ServiceConstants
<1>6. /\ UNCHANGED <<twins, cancelled, calls>>
      /\ active' \in BOOLEAN /\ created' \subseteq Twins /\ monitor' \in Monitors \cup {None}
  BY <1>1, ServiceTyped
<1> QED  BY <1>4, <1>5, <1>6, QuietGoto

(***************************************************************************)
(* The monitors: they are cancelled like loops, and are none.              *)
(***************************************************************************)
LEMMA WatchKeeps ==
  ASSUME ServiceIInv, NEW k \in Tasks, Watch(k)
  PROVE  ServiceIInv'
<1>1. PICK m \in AnyOf(NewMonitors) :
        /\ monitor' = m
        /\ todo' = [todo EXCEPT ![k] = Rest(k), ![m] = <<Do("while", None)>>]
  BY DEF Watch
<1>2. /\ At(k, "watch") /\ current' = IF Waits(Rest(k)) THEN None ELSE k
      /\ UNCHANGED <<active, created, running, task, owner, cancelled, calls, stuck>>
  BY DEF Watch, twins
<1>3. TypeOK /\ Rest(k) \in Seq(Instruction)
  BY <1>2, AtInstruction, ServiceTyped
<1>4. m \in Monitors
  BY <1>1 DEF AnyOf, NewMonitors
<1>5. todo' \in [Tasks -> Seq(Instruction)]
  <2>1. <<Do("while", None)>> \in Seq(Instruction)
    BY Instructions, Programmed
  <2>2. todo \in [Tasks -> Seq(Instruction)] /\ m \in Tasks
    BY <1>3, <1>4 DEF TypeOK, Tasks
  <2> QED  BY <1>1, <1>3, <2>1, <2>2
<1>6. current' \in Tasks \cup {None}
  BY <1>2
<1>7. /\ cancelled' \subseteq Loops \cup Monitors /\ calls' \in 0 .. MaxCalls
      /\ active' \in BOOLEAN /\ created' \subseteq Twins /\ monitor' \in Monitors \cup {None}
      /\ stuck' \in 0 .. MaxStuck
  BY <1>1, <1>2, <1>3, <1>4 DEF TypeOK
<1>8. UNCHANGED <<running, task, owner>> /\ cancelled' \cap Loops = cancelled \cap Loops
  BY <1>2
<1> QED  BY <1>5, <1>6, <1>7, <1>8, QuietStep

LEMMA StopServiceKeeps ==
  ASSUME ServiceIInv, NEW k \in Tasks, StopService(k)
  PROVE  ServiceIInv'
<1>1. /\ At(k, "stopService") /\ active' = FALSE
      /\ cancelled' = IF active /\ monitor # None THEN Cancelled(monitor) ELSE cancelled
      /\ UNCHANGED <<created, monitor, running, task, owner, calls, stuck>>
  BY DEF StopService, twins
<1>2. TypeOK /\ active \in BOOLEAN /\ monitor \in Monitors \cup {None}
  BY ServiceTyped
<1>3. Rest(k) \in Seq(Instruction)
  BY <1>1, <1>2, AtInstruction
<1>4. PICK s : Goto(k, s) /\ s = (CASE ~active -> <<>>
                [] active /\ monitor # None -> <<Do("awaitMonitor", monitor)>>
                [] active /\ monitor = None -> Each("stopTwin", created)) \o Rest(k)
  BY DEF StopService
<1>5. s \in Seq(Instruction)
  <2>1. CASE ~active
    BY <1>3, <1>4, <2>1
  <2>2. CASE active /\ monitor # None
    <3>1. s = <<Do("awaitMonitor", monitor)>> \o Rest(k)
      BY <1>4, <2>2
    <3>2. Do("awaitMonitor", monitor) \in Instruction
      BY <1>2, <2>2, Instructions
    <3> QED  BY <1>3, <3>1, <3>2, Single
  <2>3. CASE active /\ monitor = None
    <3>1. s = Each("stopTwin", created) \o Rest(k)
      BY <1>4, <2>3
    <3>2. Each("stopTwin", created) \in Seq(Instruction)
      BY EachIsAProgram
    <3> QED  BY <1>3, <3>1, <3>2, Joined
  <2> QED  BY <1>2, <2>1, <2>2, <2>3
<1>6. todo' \in [Tasks -> Seq(Instruction)] /\ current' \in Tasks \cup {None}
  BY <1>2, <1>4, <1>5, GotoTyped
<1>7. /\ cancelled' \subseteq Loops \cup Monitors
      /\ cancelled' \cap Loops = cancelled \cap Loops
  <2>1. cancelled \subseteq Loops \cup Monitors
    BY <1>2 DEF TypeOK
  <2>2. cancelled' = cancelled \/ \E m \in Monitors : cancelled' = cancelled \cup {m}
    BY <1>1, <1>2 DEF Cancelled
  <2>3. \A m \in Monitors : m \notin Loops
    BY ServiceConstants
  <2> QED  BY <2>1, <2>2, <2>3
<1>8. /\ calls' \in 0 .. MaxCalls
      /\ active' \in BOOLEAN /\ created' \subseteq Twins /\ monitor' \in Monitors \cup {None}
      /\ stuck' \in 0 .. MaxStuck
  BY <1>1, <1>2 DEF TypeOK
<1>9. UNCHANGED <<running, task, owner>>
  BY <1>1
<1> QED  BY <1>6, <1>7, <1>8, <1>9, QuietStep

LEMMA MonitorEndedKeeps ==
  ASSUME ServiceIInv, NEW k \in Tasks, MonitorEnded(k)
  PROVE  ServiceIInv'
<1>1. /\ At(k, "awaitMonitor") /\ monitor' = None
      /\ Goto(k, Each("stopTwin", created) \o Rest(k))
      /\ UNCHANGED <<active, created, twins, cancelled, calls, stuck>>
  BY DEF MonitorEnded
<1>2. Rest(k) \in Seq(Instruction) /\ Each("stopTwin", created) \in Seq(Instruction)
  BY <1>1, AtInstruction, ServiceTyped, EachIsAProgram
<1>3. Each("stopTwin", created) \o Rest(k) \in Seq(Instruction)
  BY <1>2, Joined
<1>4. /\ UNCHANGED <<twins, cancelled, calls>>
      /\ active' \in BOOLEAN /\ created' \subseteq Twins /\ monitor' \in Monitors \cup {None}
      /\ stuck' \in 0 .. MaxStuck
  BY <1>1, ServiceTyped
<1> QED  BY <1>1, <1>3, <1>4, QuietGoto

LEMMA MonitorCancelledKeeps ==
  ASSUME ServiceIInv, NEW m \in Monitors, MonitorCancelled(m)
  PROVE  ServiceIInv'
<1>1. /\ todo' = [todo EXCEPT ![m] = <<>>] /\ cancelled' = cancelled \ {m}
      /\ UNCHANGED <<active, created, monitor, running, task, owner, current, calls, stuck>>
  BY DEF MonitorCancelled, service, twins
<1>2. TypeOK
  BY ServiceTyped
<1>3. todo' \in [Tasks -> Seq(Instruction)]
  <2>1. todo \in [Tasks -> Seq(Instruction)] /\ <<>> \in Seq(Instruction)
    BY <1>2 DEF TypeOK
  <2> QED  BY <1>1, <2>1
<1>4. /\ cancelled' \subseteq Loops \cup Monitors
      /\ cancelled' \cap Loops = cancelled \cap Loops
  <2>1. cancelled \subseteq Loops \cup Monitors
    BY <1>2 DEF TypeOK
  <2>2. m \notin Loops
    BY ServiceConstants
  <2> QED  BY <1>1, <2>1, <2>2
<1>5. /\ calls' \in 0 .. MaxCalls /\ current' \in Tasks \cup {None}
      /\ active' \in BOOLEAN /\ created' \subseteq Twins /\ monitor' \in Monitors \cup {None}
      /\ stuck' \in 0 .. MaxStuck
  BY <1>1, <1>2 DEF TypeOK
<1>6. UNCHANGED <<running, task, owner>>
  BY <1>1
<1> QED  BY <1>3, <1>4, <1>5, <1>6, QuietStep

(***************************************************************************)
(* The twins and their loops.                                              *)
(***************************************************************************)
LEMMA TwinFacts ==
  ASSUME ServiceIInv
  PROVE  /\ running \in [Twins -> BOOLEAN]
         /\ task \in [Twins -> Loops \cup {None}]
         /\ owner \in [Loops -> Twins \cup {None}]
         /\ cancelled \subseteq Loops \cup Monitors
         /\ None \notin Loops /\ None \notin Twins
BY ServiceConstants DEF ServiceIInv, TypeOK, Twins

\* What is left to show of a step that changes twins or loops.
LEMMA TwinStep ==
  ASSUME ServiceIInv, NEW k \in Tasks, NEW s \in Seq(Instruction), Goto(k, s),
         UNCHANGED <<active, monitor, calls, stuck>>, created' \subseteq Twins,
         running' \in [Twins -> BOOLEAN],
         task' \in [Twins -> Loops \cup {None}],
         owner' \in [Loops -> Twins \cup {None}],
         cancelled' \subseteq Loops \cup Monitors
  PROVE  TypeOK'
<1>1. TypeOK
  BY ServiceTyped
<1>2. todo' \in [Tasks -> Seq(Instruction)] /\ current' \in Tasks \cup {None}
  BY <1>1, GotoTyped
<1> QED  BY <1>1, <1>2 DEF TypeOK

LEMMA StartTwinKeeps ==
  ASSUME ServiceIInv, NEW k \in Tasks, StartTwin(k)
  PROVE  ServiceIInv'
<1>u. PICK u : u = On(k)
  OBVIOUS
<1>1. /\ At(k, "startTwin") /\ created' = created \cup {u}
      /\ UNCHANGED <<active, monitor, cancelled, calls, stuck>>
  BY <1>u DEF StartTwin
<1>2. TypeOK /\ u \in Twins /\ Rest(k) \in Seq(Instruction)
  BY <1>u, <1>1, AtInstruction, ServiceTyped
<1>3. created' \subseteq Twins
  BY <1>1, <1>2, ServiceTyped
<1>4. CASE running[u]
  <2>1. Goto(k, Rest(k)) /\ UNCHANGED twins
    BY <1>u, <1>4 DEF StartTwin
  <2>2. /\ UNCHANGED <<twins, cancelled, calls>>
        /\ active' \in BOOLEAN /\ monitor' \in Monitors \cup {None} /\ stuck' \in 0 .. MaxStuck
    BY <1>1, <2>1, ServiceTyped
  <2> QED  BY <1>2, <1>3, <2>1, <2>2, QuietGoto
<1>5. CASE ~running[u]
  <2>1. PICK l \in AnyOf(NewLoops) :
          /\ running' = [running EXCEPT ![u] = TRUE]
          /\ task' = [task EXCEPT ![u] = l]
          /\ owner' = [owner EXCEPT ![l] = u]
          /\ Goto(k, <<Do("status", u)>> \o Rest(k))
    BY <1>u, <1>5 DEF StartTwin
  <2>2. l \in Loops /\ owner[l] = None /\ \A v \in Twins : task[v] # l
    BY <2>1 DEF AnyOf, NewLoops
  <2>3. l \notin cancelled
    BY <2>2 DEF ServiceIInv
  <2>4. <<Do("status", u)>> \o Rest(k) \in Seq(Instruction)
    BY <1>2, Instructions, Single
  <2>5. /\ running' \in [Twins -> BOOLEAN]
        /\ task' \in [Twins -> Loops \cup {None}]
        /\ owner' \in [Loops -> Twins \cup {None}]
        /\ \A v \in Twins : /\ running'[v] = IF v = u THEN TRUE ELSE running[v]
                            /\ task'[v] = IF v = u THEN l ELSE task[v]
        /\ \A x \in Loops : owner'[x] = IF x = l THEN u ELSE owner[x]
    BY <1>2, <2>1, <2>2, TwinFacts
  <2>6. cancelled' = cancelled /\ cancelled' \subseteq Loops \cup Monitors
    BY <1>1, TwinFacts
  <2>7. TypeOK'
    BY <1>1, <1>3, <2>1, <2>4, <2>5, <2>6, TwinStep
  <2>8. ASSUME NEW v \in Twins
        PROVE  /\ running'[v] => \E x \in Loops \ cancelled' : owner'[x] = v
               /\ running'[v] /\ task'[v] # None
                    => owner'[task'[v]] = v /\ task'[v] \notin cancelled'
               /\ ~running'[v] /\ task'[v] # None
                    => task'[v] \in cancelled' \/ owner'[task'[v]] = None
    <3>1. CASE v = u
      BY <2>2, <2>3, <2>5, <2>6, <3>1
    <3>2. CASE v # u
      <4>1. running'[v] = running[v] /\ task'[v] = task[v] /\ task[v] # l
        BY <2>2, <2>5, <3>2
      <4>2. task[v] # None => task[v] \in Loops /\ owner'[task[v]] = owner[task[v]]
        BY <2>5, <4>1, TwinFacts
      <4>3. running[v] => \E x \in Loops \ cancelled : x # l /\ owner[x] = v
        BY <2>2, TwinFacts DEF ServiceIInv
      <4>4. running[v] => \E x \in Loops \ cancelled' : owner'[x] = v
        BY <2>5, <2>6, <4>3
      <4> QED  BY <2>6, <4>1, <4>2, <4>4 DEF ServiceIInv
    <3> QED  BY <3>1, <3>2
  <2>9. \A x \in Loops \cap cancelled' : owner'[x] # None
    BY <1>2, <2>5, <2>6, TwinFacts DEF ServiceIInv
  <2> QED  BY <2>7, <2>8, <2>9 DEF ServiceIInv
<1> QED  BY <1>4, <1>5

LEMMA StopTwinKeeps ==
  ASSUME ServiceIInv, NEW k \in Tasks, StopTwin(k)
  PROVE  ServiceIInv'
<1>u. PICK u : u = On(k)
  OBVIOUS
<1>l. PICK l : l = task[u]
  OBVIOUS
<1>1. /\ At(k, "stopTwin")
      /\ UNCHANGED <<active, created, monitor, task, owner, calls, stuck>>
  BY DEF StopTwin, service
<1>2. TypeOK /\ u \in Twins /\ Rest(k) \in Seq(Instruction)
  BY <1>u, <1>1, AtInstruction, ServiceTyped
<1>3. /\ active' \in BOOLEAN /\ created' \subseteq Twins /\ monitor' \in Monitors \cup {None}
      /\ stuck' \in 0 .. MaxStuck
  BY <1>1, ServiceTyped
<1>4. CASE ~running[u]
  <2>1. Goto(k, Rest(k)) /\ UNCHANGED <<twins, cancelled, calls>>
    BY <1>u, <1>1, <1>4 DEF StopTwin, twins
  <2> QED  BY <1>2, <1>3, <2>1, QuietGoto
<1>5. CASE running[u]
  <2>1. /\ running' = [running EXCEPT ![u] = FALSE]
        /\ cancelled' = IF l = None THEN cancelled ELSE cancelled \cup {l}
        /\ Goto(k, (IF l = None THEN <<>> ELSE <<Do("awaitLoop", <<u, l>>)>>)
                     \o <<Do("status", u)>> \o Rest(k))
    BY <1>u, <1>l, <1>5 DEF StopTwin
  <2>2. l \in Loops \cup {None} /\ (l # None => owner[l] = u)
    BY <1>2, <1>5, <1>l, TwinFacts DEF ServiceIInv
  <2>3. (IF l = None THEN <<>> ELSE <<Do("awaitLoop", <<u, l>>)>>)
          \o <<Do("status", u)>> \o Rest(k) \in Seq(Instruction)
    <3>p. PICK p : p = IF l = None THEN <<>> ELSE <<Do("awaitLoop", <<u, l>>)>>
      OBVIOUS
    <3>1. p \in Seq(Instruction)
      <4>1. CASE l = None
        BY <3>p, <4>1
      <4>2. CASE l # None
        <5>1. Do("awaitLoop", <<u, l>>) \in Instruction
          BY <1>2, <2>2, <4>2, Instructions
        <5> QED  BY <3>p, <4>2, <5>1, Programmed
      <4> QED  BY <4>1, <4>2
    <3>2. <<Do("status", u)>> \in Seq(Instruction)
      BY <1>2, Instructions, Programmed
    <3>3. p \o <<Do("status", u)>> \o Rest(k) \in Seq(Instruction)
      BY <1>2, <3>1, <3>2, Joined
    <3> QED  BY <3>p, <3>3
  <2>4. /\ running' \in [Twins -> BOOLEAN]
        /\ \A v \in Twins : running'[v] = IF v = u THEN FALSE ELSE running[v]
    BY <1>2, <2>1, TwinFacts
  <2>5. cancelled' \subseteq Loops \cup Monitors
    BY <2>1, <2>2, TwinFacts
  <2>6. TypeOK'
    <3>1. task' \in [Twins -> Loops \cup {None}] /\ owner' \in [Loops -> Twins \cup {None}]
      BY <1>1, TwinFacts
    <3> QED  BY <1>1, <1>3, <2>1, <2>3, <2>4, <2>5, <3>1, TwinStep
  <2>7. \A x \in Loops : x \in cancelled' <=> x \in cancelled \/ x = l
    BY <2>1, TwinFacts
  <2>8. ASSUME NEW v \in Twins
        PROVE  /\ running'[v] => \E x \in Loops \ cancelled' : owner[x] = v
               /\ running'[v] /\ task[v] # None
                    => owner[task[v]] = v /\ task[v] \notin cancelled'
               /\ ~running'[v] /\ task[v] # None
                    => task[v] \in cancelled' \/ owner[task[v]] = None
    <3>1. task[v] # None => task[v] \in Loops
      BY TwinFacts
    <3>2. CASE v = u
      BY <1>l, <2>4, <2>7, <3>1, <3>2
    <3>3. CASE v # u
      <4>1. running'[v] = running[v]
        BY <2>4, <3>3
      <4>2. running[v] => \E x \in Loops \ cancelled : owner[x] = v /\ x # l
        BY <2>2, <3>3, TwinFacts DEF ServiceIInv
      <4>3. running[v] => \E x \in Loops \ cancelled' : owner[x] = v
        BY <2>7, <4>2
      <4>4. running[v] /\ task[v] # None
              => owner[task[v]] = v /\ task[v] \notin cancelled /\ task[v] # l
        BY <2>2, <3>1, <3>3, TwinFacts DEF ServiceIInv
      <4>5. ~running[v] /\ task[v] # None => task[v] \in cancelled \/ owner[task[v]] = None
        BY DEF ServiceIInv
      <4> QED  BY <2>7, <3>1, <4>1, <4>3, <4>4, <4>5
    <3> QED  BY <3>2, <3>3
  <2>9. \A x \in Loops \cap cancelled' : owner[x] # None
    BY <1>2, <2>2, <2>7, TwinFacts DEF ServiceIInv
  <2> QED  BY <1>1, <2>6, <2>8, <2>9 DEF ServiceIInv
<1> QED  BY <1>4, <1>5

LEMMA LoopEndedKeeps ==
  ASSUME ServiceIInv, NEW k \in Tasks, LoopEnded(k)
  PROVE  ServiceIInv'
<1>u. PICK u : u = On(k)[1]
  OBVIOUS
<1>1. /\ At(k, "awaitLoop") /\ task' = [task EXCEPT ![u] = None] /\ Goto(k, Rest(k))
      /\ UNCHANGED <<active, created, monitor, running, owner, cancelled, calls, stuck>>
  BY <1>u DEF LoopEnded, service
<1>2. TypeOK /\ Rest(k) \in Seq(Instruction)
  BY <1>1, AtInstruction, ServiceTyped
<1>3. created' \subseteq Twins
  BY <1>1, ServiceTyped
<1>4. /\ task' \in [Twins -> Loops \cup {None}]
      /\ \A v \in Twins : task'[v] = None \/ task'[v] = task[v]
  BY <1>1, TwinFacts
<1>5. /\ running' \in [Twins -> BOOLEAN] /\ owner' \in [Loops -> Twins \cup {None}]
      /\ cancelled' \subseteq Loops \cup Monitors
  BY <1>1, TwinFacts
<1>6. TypeOK'
  BY <1>1, <1>2, <1>3, <1>4, <1>5, TwinStep
<1> QED  BY <1>1, <1>4, <1>6 DEF ServiceIInv

LEMMA EndLoopKeeps ==
  ASSUME ServiceIInv, NEW l \in Loops, EndLoop(l)
  PROVE  ServiceIInv'
<1>1. /\ owner[l] # None /\ (l \in cancelled \/ ~running[owner[l]])
      /\ owner' = [owner EXCEPT ![l] = None] /\ cancelled' = cancelled \ {l}
      /\ UNCHANGED <<active, created, monitor, running, task, todo, current, calls, stuck>>
  BY DEF EndLoop, service
<1>2. /\ owner' \in [Loops -> Twins \cup {None}]
      /\ \A x \in Loops : owner'[x] = IF x = l THEN None ELSE owner[x]
  BY <1>1, TwinFacts
<1>3. TypeOK'
  BY <1>1, <1>2 DEF ServiceIInv, TypeOK
<1>4. ASSUME NEW v \in Twins
      PROVE  /\ running[v] => \E x \in Loops \ cancelled' : owner'[x] = v
             /\ running[v] /\ task[v] # None
                  => owner'[task[v]] = v /\ task[v] \notin cancelled'
             /\ ~running[v] /\ task[v] # None
                  => task[v] \in cancelled' \/ owner'[task[v]] = None
  <2>1. task[v] # None => task[v] \in Loops
    BY TwinFacts
  <2>2. running[v] => \E x \in Loops \ cancelled : owner[x] = v /\ x # l
    BY <1>1 DEF ServiceIInv
  <2>3. running[v] => \E x \in Loops \ cancelled' : owner'[x] = v
    BY <1>1, <1>2, <2>2
  <2>4. running[v] /\ task[v] # None
          => owner[task[v]] = v /\ task[v] \notin cancelled /\ task[v] # l
    BY <1>1, <2>1 DEF ServiceIInv
  <2>5. ~running[v] /\ task[v] # None => task[v] \in cancelled \/ owner[task[v]] = None
    BY DEF ServiceIInv
  <2> QED  BY <1>1, <1>2, <2>1, <2>3, <2>4, <2>5
<1>5. \A x \in Loops \cap cancelled' : owner'[x] # None
  BY <1>1, <1>2 DEF ServiceIInv
<1> QED  BY <1>1, <1>3, <1>4, <1>5 DEF ServiceIInv

LEMMA ServiceStarts == Init => ServiceIInv
<1> SUFFICES ASSUME Init PROVE ServiceIInv
  OBVIOUS
<1>1. /\ cancelled = {} /\ current = None /\ calls = 0 /\ stuck = 0
      /\ 0 \in 0 .. MaxCalls /\ 0 \in 0 .. MaxStuck
  BY ServiceConstants DEF Init
<1>2. CASE Disabled
  <2>1. <<>> \in Seq(Instruction)
    OBVIOUS
  <2>2. TypeOK
    BY <1>1, <1>2, <2>1 DEF Disabled, TypeOK
  <2> QED  BY <1>1, <1>2, <2>2 DEF Disabled, ServiceIInv
<1>3. CASE Enabled
  <2>1. <<Do("while", None)>> \in Seq(Instruction) /\ <<>> \in Seq(Instruction)
    BY Instructions, Programmed
  <2>2. todo \in [Tasks -> Seq(Instruction)]
    BY <1>3, <2>1 DEF Enabled
  <2>3. FirstLoops \in [Twins -> Loops] /\ None \notin Loops /\ FirstMonitor \in Monitors
    BY ServiceConstants DEF Twins
  <2>4. \A u \in Twins : owner[FirstLoops[u]] = u
    <3> TAKE u \in Twins
    <3>l. PICK l \in Loops : l = FirstLoops[u]
      BY <2>3
    <3>1. \A v \in Twins : FirstLoops[v] = l => v = u
      BY <2>3, <3>l, ServiceConstants
    <3>2. owner[l] = CHOOSE v \in Twins : FirstLoops[v] = l
      BY <1>3, <3>l DEF Enabled
    <3> QED  BY <3>1, <3>2, <3>l
  <2>5. owner \in [Loops -> Twins \cup {None}]
    <3>1. \A l \in Loops : owner[l] \in Twins \cup {None}
      BY <1>3 DEF Enabled
    <3>2. owner = [l \in Loops |-> owner[l]]
      BY <1>3 DEF Enabled
    <3> QED  BY <3>1, <3>2
  <2>6. TypeOK
    BY <1>1, <1>3, <2>2, <2>3, <2>5 DEF Enabled, TypeOK
  <2>7. \A u \in Twins : running[u] /\ task[u] = FirstLoops[u] /\ task[u] \in Loops \ cancelled
    BY <1>1, <1>3, <2>3 DEF Enabled
  <2> QED  BY <1>1, <2>4, <2>6, <2>7 DEF ServiceIInv
<1> QED  BY <1>2, <1>3 DEF Init

\* The inductive invariant of the simulator service.
THEOREM ServiceInvariant == Spec => []ServiceIInv
<1>1. ASSUME ServiceIInv, [Next]_vars PROVE ServiceIInv'
  <2>1. ASSUME NEW k \in Tasks, Step(k) PROVE ServiceIInv'
    BY <1>1, <2>1, StartServiceKeeps, PlainSteps, WatchKeeps, StartTwinKeeps, StopTwinKeeps,
       LoopEndedKeeps, StopServiceKeeps, MonitorEndedKeeps DEF Step
  <2>2. ASSUME NEW m \in Monitors, MonitorStep(m) PROVE ServiceIInv'
    <3>1. m \in Tasks
      BY DEF Tasks
    <3> QED  BY <1>1, <2>2, <3>1, PlainSteps, CheckKeeps, MonitorCancelledKeeps DEF MonitorStep
  <2>3. ASSUME NEW k \in Calls, Request(k) PROVE ServiceIInv'
    BY <1>1, <2>3, RequestKeeps
  <2>4. ASSUME NEW l \in Loops, EndLoop(l) PROVE ServiceIInv'
    BY <1>1, <2>4, EndLoopKeeps
  <2>5. CASE UNCHANGED vars
    BY <1>1, <2>5 DEF vars, ServiceIInv, TypeOK
  <2> QED  BY <1>1, <2>1, <2>2, <2>3, <2>4, <2>5 DEF Next
<1> QED  BY <1>1, ServiceStarts, PTL DEF Spec

\* However starts, stops and restarts of SimulatorService and VehicleTwin
\* overlap, a twin that says it runs has a loop that nobody cancelled, and the
\* loop it knows of runs on only while it says so (RunningTwinHasALoop).
THEOREM RunningTwinsTick == Spec => []RunningTwinHasALoop
<1>1. ServiceIInv => RunningTwinHasALoop
  BY DEF ServiceIInv, RunningTwinHasALoop
<1> QED  BY <1>1, ServiceInvariant, PTL
=============================================================================
