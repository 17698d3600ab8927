-------------------------- MODULE NfdWrapperProofs --------------------------
(***************************************************************************)
(* However the service's calls, the steps of the NFD threads and the       *)
(* exceptions of Nfd interleave, nothing dangles inside an NFD thread and  *)
(* stopNfd is safe on a running NFD, unless two threads were alive at once.*)
(***************************************************************************)
EXTENDS NfdWrapper, TLAPS

Pc == {"none", "construct", "start", "run", "stopping", "failing", "ended", "failed"}

Active(t) == pc[t] \notin {"none", "ended", "failed"}

Types ==
  /\ pc \in [Thread -> Pc]
  /\ starts \in 0 .. MaxStarts
  /\ alone \subseteq 1 .. starts
  /\ \A t \in Thread : pc[t] # "none" => t <= starts

\* One thread at a time, whose Runner is the one g_runner points to.
OneThread ==
  /\ \A t, u \in Thread : Active(t) /\ Active(u) => t = u
  /\ g_runner # 0 => g_runner \in Thread /\ Active(g_runner)
  /\ \A t \in Thread :
       /\ pc[t] = "construct" => g_runner = 0
       /\ pc[t] \in {"start", "run", "stopping"} => g_runner = t
       /\ pc[t] \in {"run", "stopping"} => t \in m_io
       /\ pc[t] = "failing" /\ g_runner # 0 => t \in m_io
       /\ pc[t] \in {"start", "run"} /\ t \notin stopped => t \in m_nfd
       /\ t \in stopped => pc[t] = "run"

Safe ==
  /\ undefined # "thread"
  /\ undefined = "stopNfd" => \A t \in Thread : pc[t] # "run"

WInv == Types /\ (TwoThreads \/ (OneThread /\ Safe))

\* The invariant holds initially.
LEMMA WInvInit == Init => WInv
BY WrapperAssumption DEF Init, WInv, Types, OneThread, Safe, Active, Pc, Thread

\* What a step of thread t does to the threads.
LEMMA GotoKeeps ==
  ASSUME Types, NEW t \in Thread, NEW from \in Pc \ {"none"}, NEW to \in Pc \ {"none"},
         Goto(t, from, to), UNCHANGED <<starts, alone>>
  PROVE  /\ Types' /\ pc[t] = from /\ pc'[t] = to /\ Defined
         /\ \A u \in Thread \ {t} : pc'[u] = pc[u]
         /\ TwoThreads' = TwoThreads
<1>1. /\ pc' \in [Thread -> Pc] /\ pc[t] = from /\ pc'[t] = to /\ Defined
      /\ \A u \in Thread \ {t} : pc'[u] = pc[u]
  BY DEF Types, Goto
<1>2. Types'
  BY <1>1 DEF Types
<1>3. \A u \in Thread : pc'[u] # "none" <=> pc[u] # "none"
  BY <1>1
<1>4. TwoThreads' = TwoThreads
  BY <1>3 DEF TwoThreads
<1> QED
  BY <1>1, <1>2, <1>4

\* The service's calls.
LEMMA ServiceStep ==
  ASSUME WInv, startNfd \/ stopNfdCheck \/ stopNfdPost
  PROVE  WInv'
<1>1. CASE startNfd
  <2>1. /\ starts < MaxStarts /\ starts' = starts + 1 /\ Defined
        /\ UNCHANGED <<g_runner, m_io, m_nfd, posted, stopped, stopNfdAt, undefined>>
        /\ pc' = IF g_runner = 0 THEN [pc EXCEPT ![starts + 1] = "construct"] ELSE pc
        /\ alone' = IF Quiet THEN alone \cup {starts + 1} ELSE alone
    BY <1>1 DEF startNfd
  <2>2. starts \in Nat /\ starts + 1 \in Thread /\ starts' \in 0 .. MaxStarts /\ starts + 1 \notin alone
    BY <2>1, WrapperAssumption DEF WInv, Types, Thread
  <2>3. pc[starts + 1] = "none"
    BY <2>2 DEF WInv, Types, Thread
  <2>4. Types'
    <3>1. pc' \in [Thread -> Pc] /\ alone' \subseteq 1 .. starts'
      BY <2>1, <2>2 DEF WInv, Types, Pc
    <3>2. \A t \in Thread : pc'[t] # "none" => t <= starts'
      BY <2>1, <2>2 DEF WInv, Types, Thread
    <3> QED
      BY <2>2, <3>1, <3>2 DEF Types
  <2>5. CASE TwoThreads
    <3>1. PICK t \in Thread : pc[t] # "none" /\ t \notin alone
      BY <2>5 DEF TwoThreads
    <3>2. t # starts + 1 /\ pc'[t] = pc[t] /\ t \notin alone'
      BY <2>1, <2>2, <2>3, <3>1 DEF WInv, Types
    <3>3. TwoThreads'
      BY <3>1, <3>2 DEF TwoThreads
    <3> QED
      BY <2>4, <3>3 DEF WInv
  <2>6. CASE ~TwoThreads /\ g_runner # 0
    <3>1. pc' = pc
      BY <2>1, <2>6
    <3>2. OneThread' /\ Safe'
      BY <2>1, <2>6, <3>1 DEF WInv, OneThread, Safe, Active
    <3> QED
      BY <2>4, <3>2 DEF WInv
  <2>7. CASE ~TwoThreads /\ g_runner = 0 /\ ~Quiet
    <3>1. pc'[starts + 1] = "construct" /\ starts + 1 \notin alone'
      BY <2>1, <2>2, <2>7 DEF WInv, Types
    <3>2. TwoThreads'
      BY <2>2, <3>1 DEF TwoThreads
    <3> QED
      BY <2>4, <3>2 DEF WInv
  <2>8. CASE ~TwoThreads /\ g_runner = 0 /\ Quiet
    <3>1. /\ pc'[starts + 1] = "construct"
          /\ \A t \in Thread \ {starts + 1} : pc'[t] = pc[t]
      BY <2>1, <2>2, <2>8 DEF WInv, Types
    <3>2. \A t \in Thread : ~Active(t)
      BY <2>8 DEF Quiet, Active
    <3>3. OneThread'
      BY <2>1, <2>2, <2>3, <2>8, <3>1, <3>2 DEF WInv, OneThread, Active
    <3>4. Safe'
      BY <2>1 DEF Safe, Defined
    <3> QED
      BY <2>4, <3>3, <3>4 DEF WInv
  <2> QED
    BY <2>5, <2>6, <2>7, <2>8
<1>2. CASE stopNfdCheck
  BY <1>2 DEF stopNfdCheck, WInv, Types, TwoThreads, OneThread, Safe, Active
<1>3. CASE stopNfdPost
  <2>1. UNCHANGED <<g_runner, pc, m_io, m_nfd, stopped, wanted, starts, alone>>
    BY <1>3 DEF stopNfdPost
  <2>2. Types' /\ TwoThreads' = TwoThreads /\ OneThread' = OneThread
    BY <2>1 DEF WInv, Types, TwoThreads, OneThread, Active
  <2>3. OneThread /\ Safe => Safe'
    <3>1. SUFFICES ASSUME OneThread, Safe PROVE Safe'
      OBVIOUS
    <3>2. CASE g_runner \in m_io
      BY <1>3, <2>1, <3>1, <3>2 DEF stopNfdPost, Safe
    <3>3. CASE g_runner \notin m_io
      <4>1. \A t \in Thread : pc[t] # "run"
        BY <3>1, <3>3 DEF OneThread
      <4>2. undefined' = "stopNfd"
        BY <1>3, <3>3 DEF stopNfdPost
      <4> QED
        BY <2>1, <4>1, <4>2 DEF Safe
    <3> QED
      BY <3>2, <3>3
  <2> QED
    BY <2>2, <2>3 DEF WInv
<1> QED
  BY <1>1, <1>2, <1>3

\* A thread constructs its Runner, or fails to, and enters the loop.
LEMMA BeginStep ==
  ASSUME WInv, NEW t \in Thread, construct(t) \/ constructFails(t) \/ start(t)
  PROVE  WInv'
<1>n. t # 0 /\ Types
  BY DEF Thread, WInv
<1>u. OneThread => \A u \in Thread : Active(u) => u = t
  <2>1. Active(t)
    BY Zenon DEF construct, constructFails, start, Goto, Active
  <2> QED
    BY <2>1 DEF OneThread
<1>1. CASE construct(t)
  <2>1. /\ Types' /\ pc[t] = "construct" /\ pc'[t] = "start" /\ Defined
        /\ \A u \in Thread \ {t} : pc'[u] = pc[u]
        /\ TwoThreads' = TwoThreads
    BY <1>n, <1>1, GotoKeeps DEF construct, Pc
  <2>2. SUFFICES ASSUME OneThread, ~TwoThreads PROVE OneThread' /\ Safe'
    BY <2>1 DEF WInv
  <2>3. g_runner = 0 /\ t \notin stopped
    BY <2>1, <2>2 DEF OneThread
  <2>4. /\ g_runner' = t /\ m_nfd' = m_nfd \cup {t} /\ undefined' = "none"
        /\ UNCHANGED <<m_io, stopped>>
    BY <1>1, <2>3 DEF construct
  <2>5. OneThread'
    BY <1>n, <1>u, <2>1, <2>2, <2>3, <2>4 DEF OneThread, Active
  <2> QED
    BY <2>1, <2>3, <2>4, <2>5 DEF Safe, Defined
<1>2. CASE constructFails(t)
  <2>1. /\ Types' /\ pc[t] = "construct" /\ pc'[t] = "failing" /\ Defined
        /\ \A u \in Thread \ {t} : pc'[u] = pc[u]
        /\ TwoThreads' = TwoThreads
    BY <1>n, <1>2, GotoKeeps DEF constructFails, Pc
  <2>2. SUFFICES ASSUME OneThread, ~TwoThreads PROVE OneThread' /\ Safe'
    BY <2>1 DEF WInv
  <2>3. g_runner = 0 /\ t \notin stopped
    BY <2>1, <2>2 DEF OneThread
  <2>4. UNCHANGED <<g_runner, m_io, m_nfd, stopped, undefined>>
    BY <1>2 DEF constructFails
  <2>5. OneThread'
    BY <1>n, <1>u, <2>1, <2>2, <2>3, <2>4 DEF OneThread, Active
  <2> QED
    BY <2>1, <2>3, <2>4, <2>5 DEF Safe, Defined
<1>3. CASE start(t)
  <2>1. /\ Types' /\ pc[t] = "start" /\ pc'[t] = "run" /\ Defined
        /\ \A u \in Thread \ {t} : pc'[u] = pc[u]
        /\ TwoThreads' = TwoThreads
    BY <1>n, <1>3, GotoKeeps DEF start, Pc
  <2>2. SUFFICES ASSUME OneThread, ~TwoThreads PROVE OneThread' /\ Safe'
    BY <2>1 DEF WInv
  <2>3. g_runner = t /\ t \notin stopped /\ t \in m_nfd
    BY <2>1, <2>2 DEF OneThread
  <2>4. /\ m_io' = m_io \cup {t} /\ undefined' = "none"
        /\ UNCHANGED <<g_runner, m_nfd, stopped>>
    BY <1>3, <2>3 DEF start
  <2>5. OneThread'
    BY <1>n, <1>u, <2>1, <2>2, <2>3, <2>4 DEF OneThread, Active
  <2> QED
    BY <2>1, <2>3, <2>4, <2>5 DEF Safe, Defined
<1> QED
  BY <1>1, <1>2, <1>3

\* A thread is in its loop, or leaves it.
LEMMA LoopStep ==
  ASSUME WInv, NEW t \in Thread,
         handler(t) \/ handlerThrows(t) \/ stopHandler(t) \/ runReturns(t) \/ cleanup(t)
  PROVE  WInv'
<1>n. t # 0 /\ Types
  BY DEF Thread, WInv
<1>u. OneThread => \A u \in Thread : Active(u) => u = t
  <2>1. Active(t)
    BY Zenon DEF handler, handlerThrows, stopHandler, runReturns, cleanup, Goto, Active
  <2> QED
    BY <2>1 DEF OneThread
<1>1. CASE handler(t)
  <2>1. /\ Types' /\ pc[t] = "run" /\ pc'[t] = "run" /\ Defined
        /\ \A u \in Thread \ {t} : pc'[u] = pc[u]
        /\ TwoThreads' = TwoThreads
    BY <1>n, <1>1, GotoKeeps DEF handler, Pc
  <2>2. SUFFICES ASSUME OneThread, ~TwoThreads PROVE OneThread' /\ Safe'
    BY <2>1 DEF WInv
  <2>3. /\ t \in m_nfd /\ t \notin stopped
    BY <1>1, <2>1, <2>2 DEF OneThread, handler
  <2>4. undefined' = "none" /\ UNCHANGED <<g_runner, m_io, m_nfd, stopped>>
    BY <1>1, <2>3 DEF handler
  <2>5. OneThread'
    BY <1>n, <1>u, <2>1, <2>2, <2>3, <2>4 DEF OneThread, Active
  <2> QED
    BY <2>1, <2>3, <2>4, <2>5 DEF Safe, Defined
<1>2. CASE handlerThrows(t)
  <2>1. /\ Types' /\ pc[t] = "run" /\ pc'[t] = "failing" /\ Defined
        /\ \A u \in Thread \ {t} : pc'[u] = pc[u]
        /\ TwoThreads' = TwoThreads
    BY <1>n, <1>2, GotoKeeps DEF handlerThrows, Pc
  <2>2. SUFFICES ASSUME OneThread, ~TwoThreads PROVE OneThread' /\ Safe'
    BY <2>1 DEF WInv
  <2>3. g_runner = t /\ t \in m_io /\ t \notin stopped
    BY <1>2, <2>1, <2>2 DEF OneThread, handlerThrows
  <2>4. UNCHANGED <<g_runner, m_io, m_nfd, stopped, undefined>>
    BY <1>2 DEF handlerThrows
  <2>5. OneThread'
    BY <1>n, <1>u, <2>1, <2>2, <2>3, <2>4 DEF OneThread, Active
  <2> QED
    BY <2>1, <2>3, <2>4, <2>5 DEF Safe, Defined
<1>3. CASE stopHandler(t)
  <2>1. /\ Types' /\ pc[t] = "run" /\ pc'[t] = "run" /\ Defined
        /\ \A u \in Thread \ {t} : pc'[u] = pc[u]
        /\ TwoThreads' = TwoThreads
    BY <1>n, <1>3, GotoKeeps DEF stopHandler, Pc
  <2>2. SUFFICES ASSUME OneThread, ~TwoThreads PROVE OneThread' /\ Safe'
    BY <2>1 DEF WInv
  <2>3. /\ stopped' = stopped \cup {t} /\ m_nfd' = m_nfd \ {t}
        /\ UNCHANGED <<g_runner, m_io, undefined>>
    BY <1>3 DEF stopHandler
  <2>4. OneThread'
    BY <1>n, <1>u, <2>1, <2>2, <2>3 DEF OneThread, Active
  <2> QED
    BY <2>1, <2>3, <2>4 DEF Safe, Defined
<1>4. CASE runReturns(t)
  <2>1. /\ Types' /\ pc[t] = "run" /\ pc'[t] = "stopping" /\ Defined
        /\ \A u \in Thread \ {t} : pc'[u] = pc[u]
        /\ TwoThreads' = TwoThreads
    BY <1>n, <1>4, GotoKeeps DEF runReturns, Pc
  <2>2. SUFFICES ASSUME OneThread, ~TwoThreads PROVE OneThread' /\ Safe'
    BY <2>1 DEF WInv
  <2>3. g_runner = t /\ t \in m_io
    BY <2>1, <2>2 DEF OneThread
  <2>4. stopped' = stopped \ {t} /\ UNCHANGED <<g_runner, m_io, m_nfd, undefined>>
    BY <1>4 DEF runReturns
  <2>5. OneThread'
    BY <1>n, <1>u, <2>1, <2>2, <2>3, <2>4 DEF OneThread, Active
  <2> QED
    BY <2>1, <2>3, <2>4, <2>5 DEF Safe, Defined
<1>5. CASE cleanup(t)
  <2>0. PICK from \in {"stopping", "failing"}, to \in {"ended", "failed"} : Goto(t, from, to)
    BY <1>5 DEF cleanup
  <2>1. /\ Types' /\ pc[t] = from /\ pc'[t] = to /\ Defined
        /\ \A u \in Thread \ {t} : pc'[u] = pc[u]
        /\ TwoThreads' = TwoThreads
    BY <1>n, <1>5, <2>0, GotoKeeps DEF cleanup, Pc
  <2>2. SUFFICES ASSUME OneThread, ~TwoThreads PROVE OneThread' /\ Safe'
    BY <2>1 DEF WInv
  <2>3. g_runner # 0 => g_runner = t /\ t \in m_io
    <3>1. g_runner # 0 => g_runner = t
      BY <1>u, <2>2 DEF OneThread
    <3>2. g_runner # 0 => t \in m_io
      BY <2>1, <2>2 DEF OneThread
    <3> QED
      BY <3>1, <3>2
  <2>4. /\ g_runner' = 0 /\ m_io' = m_io \ {t} /\ m_nfd' = m_nfd \ {t} /\ undefined' = "none"
        /\ UNCHANGED stopped
    BY <1>5, <2>3 DEF cleanup
  <2>5. OneThread'
    BY <1>u, <2>1, <2>2, <2>4 DEF OneThread, Active
  <2> QED
    BY <2>4, <2>5 DEF Safe
<1> QED
  BY <1>1, <1>2, <1>3, <1>4, <1>5

\* For a service that calls startNfd and stopNfd whenever it likes, any number of times,
\* and an Nfd that may throw at any moment: an NFD thread uses nothing that is gone, and
\* stopNfd never fails on a running NFD, unless two threads were alive at once
\* (nfd-wrapper.cpp).
THEOREM NothingDanglesInAThread == Spec => []NothingDangles
<1>1. WInv /\ [Next]_vars => WInv'
  <2> SUFFICES ASSUME WInv, [Next]_vars PROVE WInv'
    OBVIOUS
  <2>1. CASE UNCHANGED vars
    BY <2>1 DEF vars, WInv, Types, TwoThreads, OneThread, Safe, Active
  <2> QED
    BY <2>1, ServiceStep, BeginStep, LoopStep DEF Next, ThreadStep
<1>2. WInv => NothingDangles
  BY DEF WInv, Safe, NothingDangles
<1> QED
  BY <1>1, <1>2, WInvInit, PTL DEF Spec

=============================================================================
