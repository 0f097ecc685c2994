------------------------- MODULE ServerLifecycleProofs -------------------------
(***************************************************************************)
(* Proofs about ServerLifecycle, with and without tracing and JWT, for any *)
(* number of requests in flight.                                           *)
(***************************************************************************)
EXTENDS ServerLifecycle, TLAPS

(* What the order of initialisation says: the database first and once, the   *)
(* API server fourth, the readiness flag last.                               *)
LEMMA PlanFacts ==
    /\ Len(Plan) = 7
    /\ \A i \in 1 .. 7 : Plan[i] \in Steps
    /\ Plan[1] = "db" /\ \A i \in 2 .. 7 : Plan[i] # "db"
    /\ Plan[4] = "api" /\ Plan[7] = "readiness"
<1>1. Len(Plan) = 7
  BY DEF Plan
<1>2. Plan[1] = "db" /\ Plan[4] = "api" /\ Plan[7] = "readiness"
  BY DEF Plan
<1>3. \A i \in 2 .. 7 : Plan[i] # "db"
  BY DEF Plan
<1>4. \A i \in 1 .. 7 : Plan[i] \in Steps
  <2>1. /\ Plan[2] = "otel" /\ Plan[3] = "jwt" /\ Plan[5] = "metrics" /\ Plan[6] = "health"
    BY DEF Plan
  <2> QED
    BY <1>2, <2>1 DEF Steps, Servers
<1> QED
  BY <1>1, <1>2, <1>3, <1>4

(* One more step of Closer.Close: what it has closed grows by the step it    *)
(* was at, the last one registered that was not done.                        *)
LEMMA CloseOne ==
    ASSUME registered \in Seq(Steps), registered' = registered,
           done \in 0 .. Len(registered), Remaining > 0, done' = done + 1
    PROVE  /\ Closed' = Closed \cup {Current}
           /\ done' \in 0 .. Len(registered)
<1> DEFINE L == Len(registered)
<1>1. L \in Nat
  OBVIOUS
<1>2. Remaining = L - done /\ L - (done + 1) + 1 = L - done
  BY <1>1 DEF Remaining
<1>3. L - done + 1 .. L = (L - done .. L) \ {L - done}
  BY <1>1
<1>4. L - done \in L - done .. L
  BY <1>1
<1>5. Closed' = {registered[i] : i \in L - done .. L}
  BY <1>2 DEF Closed
<1>6. Closed = {registered[i] : i \in L - done + 1 .. L}
  BY DEF Closed
<1>7. Current = registered[L - done]
  BY <1>2 DEF Current
<1>8. Closed' = Closed \cup {Current}
  BY <1>3, <1>4, <1>5, <1>6, <1>7
<1>9. done' \in 0 .. L
  BY <1>1, <1>2
<1> QED
  BY <1>8, <1>9

LEMMA NothingClosed ==
    ASSUME registered \in Seq(Steps), done = 0
    PROVE  Closed = {}
BY DEF Closed

(* Where a step neither registers nor closes, what is closed stays so. *)
LEMMA ClosedUnchanged ==
    ASSUME UNCHANGED <<registered, done>>
    PROVE  Closed' = Closed /\ Remaining' = Remaining /\ Current' = Current
BY DEF Closed, Remaining, Current

LEMMA InitInv == Init => ServerInv
<1> SUFFICES ASSUME Init PROVE ServerInv
  OBVIOUS
<1>1. StackInOrder
  BY PlanFacts DEF Init, StackInOrder
<1>2. Closed = {}
  BY NothingClosed DEF Init
<1>3. StagesInOrder
  BY DEF Init, StagesInOrder, IsReady, Servers
<1>4. DrainedOrCut
  BY <1>2 DEF DrainedOrCut
<1> QED
  BY <1>1, <1>3, <1>4 DEF ServerInv

(* The closer's stack is written only while the process boots. *)
LEMMA StackStands ==
    ASSUME StackInOrder, UNCHANGED <<registered, booted>>
    PROVE  StackInOrder'
BY DEF StackInOrder

(* While it boots, the database goes to the bottom of the stack first, and   *)
(* every later step on top of what is there.                                 *)
LEMMA StackGrows ==
    ASSUME StackInOrder, BootStep
    PROVE  StackInOrder'
<1> DEFINE L == Len(registered)
<1> DEFINE step == Plan[booted + 1]
<1>1. /\ registered \in Seq(Steps) /\ L \in Nat
      /\ booted \in 0 .. 6 /\ step \in Steps
      /\ booted' = booted + 1
  BY PlanFacts DEF StackInOrder, BootStep
<1>2. /\ registered' = Append(registered, step)
      /\ registered' \in Seq(Steps) /\ Len(registered') = L + 1
      /\ \A i \in 1 .. L : registered'[i] = registered[i]
      /\ registered'[L + 1] = step
  BY <1>1 DEF BootStep
<1>3. booted = 0 => L = 0 /\ step = "db"
  BY PlanFacts DEF StackInOrder
<1>4. booted > 0 => L > 0 /\ registered[1] = "db" /\ step # "db"
  BY <1>1, PlanFacts DEF StackInOrder
<1>5. registered'[1] = "db"
  BY <1>1, <1>2, <1>3, <1>4
<1>6. \A i \in 2 .. L + 1 : registered'[i] # "db"
  BY <1>1, <1>2, <1>3, <1>4 DEF StackInOrder
<1>7. booted' = 7 => registered'[L + 1] = "readiness"
  BY <1>1, <1>2, PlanFacts
<1>8. booted' >= 4 => \E j \in 2 .. L + 1 : registered'[j] = "api"
  <2>1. CASE booted' = 4
    BY <2>1, <1>1, <1>2, <1>4, PlanFacts
  <2>2. CASE booted >= 4
    BY <2>2, <1>1, <1>2 DEF StackInOrder
  <2> QED
    BY <2>1, <2>2, <1>1
<1> QED
  BY <1>1, <1>2, <1>5, <1>6, <1>7, <1>8, PlanFacts DEF StackInOrder

(* A step that is left out is neither the database nor the API server nor    *)
(* the readiness flag.                                                       *)
LEMMA StackSkips ==
    ASSUME StackInOrder, SkipStep
    PROVE  StackInOrder'
<1>1. /\ booted \in 0 .. 6 /\ booted' = booted + 1
      /\ UNCHANGED registered
  BY PlanFacts DEF StackInOrder, SkipStep
<1>2. booted # 0 /\ booted # 3 /\ booted # 6
  BY <1>1, PlanFacts DEF SkipStep, Configured
<1> QED
  BY <1>1, <1>2, PlanFacts DEF StackInOrder

(* Initialisation serves nothing and tears nothing down. *)
LEMMA BootInv ==
    ASSUME ServerInv, BootStep \/ SkipStep \/ BootFails \/ StartServers
    PROVE  ServerInv'
<1> USE DEF ServerInv
<1>1. CASE BootStep
  <2>1. StackInOrder'
    BY <1>1, StackGrows
  <2>2. done' = 0 /\ Closed' = {}
    BY <1>1, <2>1 DEF BootStep, StagesInOrder, StackInOrder, Closed
  <2>3. StagesInOrder'
    BY <1>1, <2>1, <2>2 DEF BootStep, StagesInOrder, StackInOrder, IsReady, Servers
  <2> QED
    BY <2>1, <2>2, <2>3 DEF DrainedOrCut
<1>2. CASE SkipStep
  <2>1. StackInOrder'
    BY <1>2, StackSkips
  <2>2. UNCHANGED <<registered, done>>
    BY <1>2 DEF SkipStep
  <2>3. StagesInOrder'
    BY <1>2, <2>2 DEF SkipStep, StagesInOrder, IsReady
  <2>4. DrainedOrCut'
    BY <1>2, <2>2, ClosedUnchanged DEF SkipStep, DrainedOrCut
  <2> QED
    BY <2>1, <2>3, <2>4
<1>3. CASE BootFails
  <2>1. UNCHANGED <<registered, booted, done>>
    BY <1>3 DEF BootFails
  <2>2. StagesInOrder'
    BY <1>3, <2>1 DEF BootFails, StagesInOrder, IsReady
  <2>3. DrainedOrCut'
    BY <1>3, <2>1, ClosedUnchanged DEF BootFails, DrainedOrCut
  <2> QED
    BY <2>1, <2>2, <2>3, StackStands
<1>4. CASE StartServers
  <2>1. UNCHANGED <<registered, booted, done>>
    BY <1>4 DEF StartServers
  <2>2. StagesInOrder'
    BY <1>4, <2>1 DEF StartServers, StagesInOrder, IsReady
  <2>3. DrainedOrCut'
    BY <1>4, <2>1, ClosedUnchanged DEF StartServers, DrainedOrCut
  <2> QED
    BY <2>1, <2>2, <2>3, StackStands
<1> QED
  BY <1>1, <1>2, <1>3, <1>4

(* The servers' goroutines, requests and the signal: nothing of the teardown *)
(* moves, and a request arrives only at an API server that is not down.      *)
LEMMA ServersInv ==
    ASSUME ServerInv,
           \/ \E s \in Servers : Listen(s) \/ ServerFails(s)
           \/ AnnounceListening \/ Request \/ Response \/ Signal
    PROVE  ServerInv'
<1> USE DEF ServerInv
<1>1. UNCHANGED <<registered, booted, done, down, main>>
  BY DEF Listen, ServerFails, AnnounceListening, Request, Response, Signal
<1>2. StackInOrder'
  BY <1>1, StackStands
<1>3. /\ DOMAIN srv' = Servers
      /\ srv'["api"] # "idle" => srv["api"] # "idle"
  BY DEF StagesInOrder, Listen, ServerFails, AnnounceListening, Request, Response, Signal, Servers
<1>4. /\ requests' \in Nat
      /\ requests' > 0 => requests > 0 \/ (srv["api"] = "serving" /\ "api" \notin down)
      /\ cut' = cut /\ (allListening => allListening')
  BY DEF StagesInOrder, Listen, ServerFails, AnnounceListening, Request, Response, Signal
<1>5. ready' = ready /\ shuttingDown' = shuttingDown
  BY DEF Listen, ServerFails, AnnounceListening, Request, Response, Signal
<1>6. StagesInOrder'
  BY <1>1, <1>3, <1>4, <1>5, ClosedUnchanged DEF StagesInOrder, IsReady
<1>7. DrainedOrCut'
  BY <1>1, <1>4, ClosedUnchanged DEF DrainedOrCut, StagesInOrder, Servers
<1> QED
  BY <1>2, <1>6, <1>7

(* The two selects of runServe: it is ready once everything listens and      *)
(* nothing has been closed.                                                  *)
LEMMA SelectInv ==
    ASSUME ServerInv, Stop \/ AllUp \/ SetReady
    PROVE  ServerInv'
<1> USE DEF ServerInv
<1>1. UNCHANGED <<registered, booted, done, down, srv, requests, cut, allListening>>
  BY DEF Stop, AllUp, SetReady
<1>2. StackInOrder'
  BY <1>1, StackStands
<1>3. DrainedOrCut'
  BY <1>1, ClosedUnchanged DEF DrainedOrCut
<1>4. StagesInOrder'
  <2>1. CASE Stop
    BY <1>1, <2>1, ClosedUnchanged DEF Stop, StagesInOrder, IsReady
  <2>2. CASE AllUp
    BY <1>1, <2>2, ClosedUnchanged DEF AllUp, StagesInOrder, IsReady
  <2>3. CASE SetReady
    BY <1>1, <2>3, ClosedUnchanged DEF SetReady, StagesInOrder, IsReady
  <2> QED
    BY <2>1, <2>2, <2>3
<1> QED
  BY <1>2, <1>3, <1>4

(* A ready process closes the readiness flag first. *)
LEMMA ReadinessFirst ==
    ASSUME ServerInv, IsReady, Remaining > 0
    PROVE  Current = "readiness"
<1>1. booted = Len(Plan) /\ done = 0 /\ registered \in Seq(Steps)
  BY DEF ServerInv, StagesInOrder, StackInOrder
<1>2. Remaining = Len(registered)
  BY <1>1 DEF Remaining
<1> QED
  BY <1>1, <1>2 DEF Current, ServerInv, StackInOrder

(* Closer.Close, one step at a time. *)
LEMMA CloseInv ==
    ASSUME ServerInv, CloseStep \/ Shutdown \/ Drained \/ DrainTimeout \/ Exit
    PROVE  ServerInv'
<1> USE DEF ServerInv
<1>1. UNCHANGED <<registered, booted, requests, ready, allListening>>
  BY DEF CloseStep, Shutdown, Drained, DrainTimeout, Exit
<1>2. StackInOrder' /\ registered \in Seq(Steps) /\ done \in 0 .. Len(registered)
  BY <1>1, StackStands DEF StackInOrder, StagesInOrder
<1>3. CASE CloseStep
  <2>1. done' = done + 1 /\ Remaining > 0 /\ Current \notin Servers
    BY <1>3 DEF CloseStep
  <2>2. Closed' = Closed \cup {Current} /\ done' \in 0 .. Len(registered)
    BY <1>1, <1>2, <2>1, CloseOne
  <2>3. DrainedOrCut'
    BY <1>1, <1>3, <2>1, <2>2 DEF CloseStep, DrainedOrCut, Servers
  <2>4. ~ IsReady'
    <3>1. IsReady => Current = "readiness"
      BY <2>1, ReadinessFirst
    <3>2. ready' = ready /\ (shuttingDown \/ Current = "readiness" => shuttingDown')
      BY <1>3, Zenon DEF CloseStep
    <3> QED
      BY <3>1, <3>2 DEF IsReady
  <2>5. StagesInOrder'
    BY <1>1, <1>3, <2>2, <2>4 DEF CloseStep, StagesInOrder
  <2> QED
    BY <1>2, <2>3, <2>5
<1>4. CASE Shutdown
  <2>1. UNCHANGED <<registered, done>> /\ Remaining > 0 /\ Current \in Servers
    BY <1>4 DEF Shutdown
  <2>2. DrainedOrCut'
    BY <1>1, <1>4, <2>1, ClosedUnchanged DEF Shutdown, DrainedOrCut
  <2>3. ~ IsReady'
    BY <1>1, <1>4, <2>1, ReadinessFirst DEF Shutdown, IsReady, Servers
  <2>4. DOMAIN srv' = Servers /\ (srv'["api"] # "idle" => srv["api"] # "idle")
    BY <1>4, <2>1 DEF Shutdown, StagesInOrder, Servers
  <2>5. StagesInOrder'
    BY <1>1, <1>4, <2>1, <2>3, <2>4, ClosedUnchanged DEF Shutdown, StagesInOrder
  <2> QED
    BY <1>2, <2>2, <2>5
<1>5. CASE Drained \/ DrainTimeout
  <2>1. done' = done + 1 /\ Remaining > 0 /\ Current \in down
    BY <1>5 DEF Drained, DrainTimeout, StagesInOrder
  <2>2. Closed' = Closed \cup {Current} /\ done' \in 0 .. Len(registered)
    BY <1>1, <1>2, <2>1, CloseOne
  <2>3. Current = "api" => requests = 0 \/ cut'
    BY <1>5 DEF Drained, DrainTimeout
  <2>4. (cut => cut') /\ down' = down
    BY <1>5 DEF Drained, DrainTimeout
  <2>5. DrainedOrCut'
    BY <1>1, <2>1, <2>2, <2>3, <2>4 DEF DrainedOrCut
  <2>6. ~ IsReady'
    BY <1>1, <1>5, <2>1 DEF Drained, DrainTimeout, StagesInOrder, IsReady
  <2>7. StagesInOrder'
    BY <1>1, <1>5, <2>2, <2>4, <2>6 DEF Drained, DrainTimeout, StagesInOrder
  <2> QED
    BY <1>2, <2>5, <2>7
<1>6. CASE Exit
  <2>1. UNCHANGED <<registered, done>>
    BY <1>6 DEF Exit
  <2>2. DrainedOrCut'
    BY <1>1, <1>6, <2>1, ClosedUnchanged DEF Exit, DrainedOrCut
  <2>3. ~ IsReady
    <3>1. SUFFICES ASSUME IsReady PROVE FALSE
      OBVIOUS
    <3>2. booted = Len(Plan) /\ done = 0
      BY <3>1 DEF StagesInOrder
    <3>3. Len(registered) > 0
      BY <3>2, PlanFacts DEF StackInOrder
    <3> QED
      BY <1>2, <1>6, <3>2, <3>3 DEF Exit, Remaining
  <2>4. StagesInOrder'
    BY <1>1, <1>6, <2>1, <2>3, ClosedUnchanged DEF Exit, StagesInOrder, IsReady
  <2> QED
    BY <1>2, <2>2, <2>4
<1> QED
  BY <1>3, <1>4, <1>5, <1>6

LEMMA StutterInv ==
    ASSUME ServerInv, UNCHANGED vars
    PROVE  ServerInv'
BY DEF vars, ServerInv, StackInOrder, StagesInOrder, DrainedOrCut, Closed, Remaining, Current, IsReady

(* The invariant the two results rest on: the closer's stack is in the order *)
(* of initialisation, nothing is torn down before main closes, and a server  *)
(* that is closed was drained or cut.                                        *)
THEOREM ServerInvariant == Spec => []ServerInv
<1>1. ServerInv /\ [Next]_vars => ServerInv'
  BY BootInv, ServersInv, SelectInv, CloseInv, StutterInv DEF Next, Main, Exited
<1> QED
  BY InitInv, <1>1, PTL DEF Spec

(* The health server answers ready only while all servers are up and nothing *)
(* has been closed: the probe fails before the first listener does.          *)
THEOREM AlwaysReadyMeansUp == Spec => []ReadyMeansUp
<1>1. ServerInv => ReadyMeansUp
  BY NothingClosed DEF ServerInv, StackInOrder, StagesInOrder, ReadyMeansUp
<1> QED
  BY ServerInvariant, <1>1, PTL

(* The database is closed under a running request only when the request has  *)
(* outlived the API server's drain budget: whatever fails on the way, the    *)
(* API server is above the database on the closer's stack.                   *)
THEOREM DatabaseAlwaysOutlivesRequests == Spec => []DatabaseOutlivesRequests
<1>1. ServerInv => DatabaseOutlivesRequests
  <2> SUFFICES ASSUME ServerInv, "db" \in Closed, requests > 0
               PROVE  cut
    BY DEF DatabaseOutlivesRequests
  <2> DEFINE L == Len(registered)
  <2>1. /\ registered \in Seq(Steps) /\ L \in Nat /\ done \in 0 .. L
        /\ booted = 7
        /\ \A i \in 2 .. L : registered[i] # "db"
    BY PlanFacts DEF ServerInv, StackInOrder, StagesInOrder
  <2>2. PICK i \in L - done + 1 .. L : registered[i] = "db"
    BY DEF Closed
  <2>3. i = 1 /\ done = L
    BY <2>1, <2>2
  <2>4. PICK j \in 2 .. L : registered[j] = "api"
    BY <2>1 DEF ServerInv, StackInOrder
  <2>5. "api" \in Closed
    BY <2>1, <2>3, <2>4 DEF Closed
  <2> QED
    BY <2>5 DEF ServerInv, DrainedOrCut
<1> QED
  BY ServerInvariant, <1>1, PTL
=============================================================================
