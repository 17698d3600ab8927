----------------------------- MODULE NfdWrapper -----------------------------
(***************************************************************************)
(* The JNI wrapper that runs NFD in a thread of its own.  A service thread *)
(* calls startNfd and stopNfd; startNfd spawns a thread that constructs a  *)
(* Runner, publishes it in g_runner, runs its event loop, and takes it     *)
(* down again.  Nothing protects g_runner, neither call waits, and         *)
(* isNfdRunning always answers true: the service may call at any time, and *)
(* a handler of Nfd may throw at any time.                                 *)
(*                                                                         *)
(* Thread t constructs Runner t.                                           *)
(***************************************************************************)
EXTENDS Naturals, FiniteSets

CONSTANT MaxStarts     \* bound: number of calls of startNfd

ASSUME WrapperAssumption == MaxStarts \in Nat \ {0}

VARIABLES
  g_runner,      \* the Runner g_runner points to, 0 for nullptr
  pc,            \* where each thread is; "none" before it exists
  m_io,          \* Runners that know their io_service (m_io is not nullptr)
  m_nfd,         \* Runners whose Nfd and Nrd exist
  posted,        \* Runners on whose io_service the handler of stop is queued
  stopped,       \* Runners whose io_service was stopped
  stopNfdAt,     \* "idle", or "checked" after the test in stopNfd
  wanted,        \* the last call the service made
  starts,        \* calls of startNfd so far
  alone,         \* history: the calls of startNfd made while no thread was alive
  undefined      \* who used a null Runner or something deleted: "none", "thread" (an
                 \* NFD thread) or "stopNfd" (the service); what follows is not modelled

vars == <<g_runner, pc, m_io, m_nfd, posted, stopped, stopNfdAt, wanted, starts, alone, undefined>>

Thread == 1 .. MaxStarts

Defined == undefined = "none"

Quiet == \A t \in Thread : pc[t] \in {"none", "ended", "failed"}

----------------------------------------------------------------------------
(* The service thread.                                                     *)

startNfd ==
  /\ starts < MaxStarts /\ stopNfdAt = "idle" /\ Defined
  /\ starts' = starts + 1
  /\ wanted' = "start"
  /\ alone' = IF Quiet THEN alone \cup {starts + 1} ELSE alone
  /\ pc' = IF g_runner = 0 THEN [pc EXCEPT ![starts + 1] = "construct"] ELSE pc
  /\ UNCHANGED <<g_runner, m_io, m_nfd, posted, stopped, stopNfdAt, undefined>>

\* stopNfd, the test of g_runner.
stopNfdCheck ==
  /\ stopNfdAt = "idle" /\ Defined
  /\ wanted' = "stop"
  /\ stopNfdAt' = IF g_runner = 0 THEN "idle" ELSE "checked"
  /\ UNCHANGED <<g_runner, pc, m_io, m_nfd, posted, stopped, starts, alone, undefined>>

\* Runner::stop that forgets its handler.
stopNfdPost_lost ==
  /\ stopNfdAt = "checked" /\ Defined
  /\ stopNfdAt' = "idle"
  /\ undefined' = IF g_runner \in m_io THEN "none" ELSE "stopNfd"
  /\ UNCHANGED <<g_runner, pc, m_io, m_nfd, posted, stopped, wanted, starts, alone>>

\* Runner::stop, called through g_runner, posts its handler on m_io.  The Runner may be
\* gone since the test, or may not know its io_service yet.
stopNfdPost ==
  /\ stopNfdAt = "checked" /\ Defined
  /\ stopNfdAt' = "idle"
  /\ IF g_runner \in m_io
     THEN posted' = posted \cup {g_runner} /\ UNCHANGED undefined
     ELSE undefined' = "stopNfd" /\ UNCHANGED posted
  /\ UNCHANGED <<g_runner, pc, m_io, m_nfd, stopped, wanted, starts, alone>>

----------------------------------------------------------------------------
(* The NFD threads.                                                        *)

Goto(t, from, to) == pc[t] = from /\ pc' = [pc EXCEPT ![t] = to] /\ Defined

\* g_runner.reset(new Runner()).  A Runner that was there is deleted while its own
\* thread is using it.
construct(t) ==
  /\ Goto(t, "construct", "start")
  /\ g_runner' = t
  /\ m_nfd' = m_nfd \cup {t}
  /\ undefined' = IF g_runner # 0 THEN "thread" ELSE "none"
  /\ UNCHANGED <<m_io, posted, stopped, stopNfdAt, wanted, starts, alone>>

\* The constructor of Runner or Nfd throws; g_runner is left alone.
constructFails(t) ==
  /\ Goto(t, "construct", "failing")
  /\ UNCHANGED <<g_runner, m_io, m_nfd, posted, stopped, stopNfdAt, wanted, starts, alone, undefined>>

\* Runner::start, up to the loop, through g_runner.
start(t) ==
  /\ Goto(t, "start", "run")
  /\ m_io' = m_io \cup {t}
  /\ undefined' = IF g_runner # t THEN "thread" ELSE "none"
  /\ UNCHANGED <<g_runner, m_nfd, posted, stopped, stopNfdAt, wanted, starts, alone>>

\* A packet or timer handler of Nfd.
handler(t) ==
  /\ Goto(t, "run", "run")
  /\ t \notin stopped
  /\ undefined' = IF t \notin m_nfd THEN "thread" ELSE "none"
  /\ UNCHANGED <<g_runner, m_io, m_nfd, posted, stopped, stopNfdAt, wanted, starts, alone>>

\* A handler throws, and the exception ends the loop.
handlerThrows(t) ==
  /\ Goto(t, "run", "failing")
  /\ t \notin stopped
  /\ UNCHANGED <<g_runner, m_io, m_nfd, posted, stopped, stopNfdAt, wanted, starts, alone, undefined>>

\* A handler of stop that leaves the loop running.
stopHandler_noStop(t) ==
  /\ Goto(t, "run", "run")
  /\ t \in posted \ stopped
  /\ posted' = posted \ {t}
  /\ m_nfd' = m_nfd \ {t}
  /\ UNCHANGED <<g_runner, m_io, stopped, stopNfdAt, wanted, starts, alone, undefined>>

\* The handler stop posted: m_io->stop(), then Nrd and Nfd go.
stopHandler(t) ==
  /\ Goto(t, "run", "run")
  /\ t \in posted \ stopped
  /\ posted' = posted \ {t}
  /\ stopped' = stopped \cup {t}
  /\ m_nfd' = m_nfd \ {t}
  /\ UNCHANGED <<g_runner, m_io, stopNfdAt, wanted, starts, alone, undefined>>

\* m_io->run() returns and m_io->reset() follows.
runReturns(t) ==
  /\ Goto(t, "run", "stopping")
  /\ t \in stopped
  /\ stopped' = stopped \ {t}
  /\ UNCHANGED <<g_runner, m_io, m_nfd, posted, stopNfdAt, wanted, starts, alone, undefined>>

\* The end of the thread without g_runner.reset().
cleanup_keepsRunner(t) ==
  /\ \/ Goto(t, "stopping", "ended")
     \/ Goto(t, "failing", "failed")
  /\ UNCHANGED <<g_runner, m_io, m_nfd, posted, stopped, stopNfdAt, wanted, starts, alone, undefined>>

\* g_runner.reset(), which runs ~Runner, then the io_service of the thread goes
\* with all that is queued on it.  ~Runner needs m_io, and the Runner in g_runner
\* may be that of another thread.
cleanup(t) ==
  /\ \/ Goto(t, "stopping", "ended")
     \/ Goto(t, "failing", "failed")
  /\ g_runner' = 0
  /\ undefined' = IF g_runner # 0 /\ (g_runner # t \/ t \notin m_io) THEN "thread" ELSE "none"
  /\ m_io' = m_io \ {t}
  /\ m_nfd' = m_nfd \ {t}
  /\ posted' = posted \ {t}
  /\ UNCHANGED <<stopped, stopNfdAt, wanted, starts, alone>>

----------------------------------------------------------------------------

Init ==
  /\ g_runner = 0
  /\ pc = [t \in Thread |-> "none"]
  /\ m_io = {} /\ m_nfd = {} /\ posted = {} /\ stopped = {}
  /\ stopNfdAt = "idle"
  /\ wanted = "stop"
  /\ starts = 0
  /\ alone = {}
  /\ undefined = "none"

ThreadStep(t) ==
  \/ construct(t) \/ constructFails(t) \/ start(t)
  \/ stopHandler(t) \/ runReturns(t) \/ cleanup(t)

Next ==
  \/ startNfd \/ stopNfdCheck \/ stopNfdPost
  \/ \E t \in Thread : ThreadStep(t) \/ handler(t) \/ handlerThrows(t)

\* Every thread is scheduled, and the loop serves its queue in turn: an endless
\* supply of packets does not keep it from the handler of stop.  Handlers of
\* packets and the exceptions they throw need not come.
Spec ==
  /\ Init /\ [][Next]_vars
  /\ WF_vars(stopNfdPost)
  /\ \A t \in Thread : WF_vars(ThreadStep(t))

----------------------------------------------------------------------------
(* Properties.                                                             *)

\* Thread t is in its loop, on the Runner in g_runner, with its Nfd.
Running(t) == pc[t] = "run" /\ g_runner = t /\ t \in m_nfd

\* A thread was spawned while an earlier one was still alive.
TwoThreads == \E t \in Thread : pc[t] # "none" /\ t \notin alone

\* However the calls, the steps of the threads and the exceptions of Nfd interleave, and
\* as long as no two threads were alive at once: a thread never uses an Nfd that the
\* handler of stop destroyed, nor a null or deleted Runner; and stopNfd, whose test of
\* g_runner and whose use of it nothing holds together, goes wrong only when no thread
\* is in its loop, so never on an NFD it could have stopped.
NothingDangles ==
  ~TwoThreads =>
    /\ undefined # "thread"
    /\ undefined = "stopNfd" => \A t \in Thread : pc[t] # "run"

\* nfd-wrapper.cpp: the globals are reset "to make sure NFD can be properly
\* restarted".  A startNfd called when no thread is alive, after whatever earlier threads
\* went through (a stop, an exception, a failed construction), gets NFD into its loop,
\* unless this very thread fails or another call is made meanwhile.
StartRuns ==
  \A t \in Thread :
    (starts = t /\ t \in alone /\ wanted = "start")
      ~> \/ Running(t) \/ pc[t] \in {"failing", "failed"}
         \/ starts # t \/ wanted = "stop" \/ ~Defined

\* A stopNfd that finds a Runner ends the thread of that Runner, frees Runner, Nfd and
\* io_service, and takes it out of g_runner, whatever is called meanwhile and whether or
\* not Nfd throws.
StopReleases ==
  \A t \in Thread :
    (stopNfdAt = "checked" /\ g_runner = t)
      ~> \/ pc[t] \in {"ended", "failed"} /\ g_runner # t /\ t \notin m_io \cup m_nfd
         \/ ~Defined

=============================================================================
