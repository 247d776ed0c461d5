------------------------------- MODULE LogSwitch -------------------------------
(***************************************************************************)
(* The file system's operation log and its switch, system call by system   *)
(* call: logGeneric() and switchLog() of syncedfs/log.c in the only thread *)
(* of the file system, the SIGUSR1 handler of syncedfs/sighandlers.c that  *)
(* interrupts it anywhere, and clients that check for a .sync file, ask    *)
(* for a switch and wait for the answer (switchLog() of client.c), one     *)
(* after the other.                                                        *)
(*                                                                         *)
(* handleSIGUSR1() runs in two frames: "sig", as a signal handler, with    *)
(* SIGUSR1 blocked and the main thread stopped, and "main", called by      *)
(* logGeneric() for a request that came during a write.                    *)
(***************************************************************************)
EXTENDS Integers, SequencesExt

CONSTANTS
  Absent,      \* there is no such file
  MaxOps,      \* bound: operations recorded
  MaxClients,  \* bound: clients started, which are their pids as well
  MaxFaults    \* bound: failing calls of switchLog() and crashes of the file
               \* system

ASSUME SwitchAssumption == /\ Absent \notin Seq(Nat)
                           /\ MaxOps \in Nat /\ MaxClients \in Nat
                           /\ MaxFaults \in Nat

VARIABLES
  log,            \* <resource>.log
  sync,           \* <resource>.sync
  fd,             \* what logfd refers to: "log", "sync", "closed", or "none"
                  \* for -1
  mpc,            \* where the main thread stands in logGeneric()
  at,             \* where each frame stands in handleSIGUSR1()
  err,            \* errflag of switchLog() in each frame
  sender,         \* siginfo->si_pid of the handler
  writepending, switchpending, pidpending,
  sigpend,        \* the sender of the SIGUSR1 that waits for delivery, or 0
  cl,             \* the client running, or the last one
  clpc,           \* where it stands
  held,           \* the epoch it has opened
  replied,        \* the answer is pending at the client
  \* history and bounds
  next,           \* operations executed
  recorded,       \* operations written to a log
  sent,           \* operations of epochs a client is done with
  before,         \* operations recorded when the client asked
  clobbered,      \* a rename has replaced a .sync file
  abandoned,      \* a client has stopped waiting for its answer
  unclosed,       \* close() has failed in a switch
  faults

lvars == <<log, sync, fd, mpc, at, err, sender, writepending, switchpending,
           pidpending, sigpend, cl, clpc, held, replied, next, recorded, sent,
           before, clobbered, abandoned, unclosed, faults>>
files == <<log, sync, fd>>
flags == <<writepending, switchpending, pidpending>>
client == <<cl, clpc, held, replied, sent, before>>
history == <<next, recorded, clobbered, abandoned, unclosed, faults>>

Frames == {"main", "sig"}
Idle == "none"

LInit == /\ log = <<>> /\ sync = Absent /\ fd = "log"
         /\ mpc = "idle" /\ at = [f \in Frames |-> Idle]
         /\ err = [f \in Frames |-> FALSE] /\ sender = 0
         /\ writepending = FALSE /\ switchpending = FALSE /\ pidpending = 0
         /\ sigpend = 0
         /\ cl = 0 /\ clpc = "idle" /\ held = <<>> /\ replied = FALSE
         /\ next = 0 /\ recorded = {} /\ sent = {} /\ before = {}
         /\ clobbered = FALSE /\ abandoned = FALSE /\ unclosed = FALSE
         /\ faults = 0

-----------------------------------------------------------------------------
(* logGeneric(), in the main thread.                                       *)

\* The main thread runs while no signal handler does.
MainAt(pc) == mpc = pc /\ at["sig"] = Idle /\ at["main"] = Idle

\* An operation was executed; in panic mode it is not recorded.
Check == /\ MainAt("idle") /\ next < MaxOps
         /\ next' = next + 1
         /\ mpc' = IF fd = "none" THEN "idle" ELSE "enter"
         /\ UNCHANGED <<files, at, err, sender, flags, sigpend, client,
                        recorded, clobbered, abandoned, unclosed, faults>>

Enter == /\ MainAt("enter")
         /\ writepending' = TRUE
         /\ mpc' = "write"
         /\ UNCHANGED <<files, at, err, sender, switchpending, pidpending,
                        sigpend, client, history>>

\* Whatever logfd refers to is written to.
Write == /\ MainAt("write")
         /\ log' = IF fd = "log" THEN Append(log, next) ELSE log
         /\ sync' = IF fd = "sync" THEN Append(sync, next) ELSE sync
         /\ recorded' = IF fd \in {"log", "sync"} THEN recorded \union {next}
                        ELSE recorded
         /\ mpc' = "leave"
         /\ UNCHANGED <<fd, at, err, sender, flags, sigpend, client, next,
                        clobbered, abandoned, unclosed, faults>>

Leave == /\ MainAt("leave")
         /\ writepending' = FALSE
         /\ mpc' = "test"
         /\ UNCHANGED <<files, at, err, sender, switchpending, pidpending,
                        sigpend, client, history>>

\* Mutant: a request that was put off is forgotten.
TestForgets == /\ MainAt("test")
               /\ mpc' = "idle"
               /\ UNCHANGED <<files, at, err, sender, flags, sigpend, client,
                              history>>

\* handleSIGUSR1(0, NULL, NULL): writepending is known to be 0.
Test == /\ MainAt("test")
        /\ at' = [at EXCEPT !["main"] = IF switchpending THEN "close" ELSE Idle]
        /\ mpc' = "idle"
        /\ UNCHANGED <<files, err, sender, flags, sigpend, client, history>>

-----------------------------------------------------------------------------
(* handleSIGUSR1() and switchLog().                                        *)

\* The kernel interrupts whatever the main thread does.
Deliver == /\ sigpend # 0 /\ at["sig"] = Idle
           /\ sender' = sigpend
           /\ sigpend' = 0
           /\ at' = [at EXCEPT !["sig"] = "test"]
           /\ UNCHANGED <<files, mpc, err, flags, client, history>>

\* Mutant: a request that is put off is answered at once.
HandlerTestReplies ==
  /\ at["sig"] = "test"
  /\ IF writepending
     THEN /\ switchpending' = TRUE /\ pidpending' = sender
          /\ at' = [at EXCEPT !["sig"] = "reply"]
     ELSE /\ at' = [at EXCEPT !["sig"] = "close"]
          /\ UNCHANGED <<switchpending, pidpending>>
  /\ UNCHANGED <<files, mpc, err, sender, writepending, sigpend, client,
                 history>>

\* A request that comes during a write is put off.
HandlerTest ==
  /\ at["sig"] = "test"
  /\ IF writepending
     THEN /\ switchpending' = TRUE /\ pidpending' = sender
          /\ at' = [at EXCEPT !["sig"] = Idle]
     ELSE /\ at' = [at EXCEPT !["sig"] = "close"]
          /\ UNCHANGED <<switchpending, pidpending>>
  /\ UNCHANGED <<files, mpc, err, sender, writepending, sigpend, client,
                 history>>

FrameAt(f, step) == at[f] = step /\ (f = "main" => at["sig"] = Idle)

CloseLog(f) ==
  /\ FrameAt(f, "close")
  /\ fd' = IF fd \in {"log", "sync"} THEN "closed" ELSE fd
  /\ err' = [err EXCEPT ![f] = fd \notin {"log", "sync"}]
  /\ at' = [at EXCEPT ![f] = "rename"]
  /\ UNCHANGED <<log, sync, mpc, sender, flags, sigpend, client, history>>

\* An error of close() is only known afterwards, and the log is renamed all the
\* same.
CloseFails(f) ==
  /\ FrameAt(f, "close") /\ fd \in {"log", "sync"}
  /\ faults < MaxFaults /\ faults' = faults + 1
  /\ fd' = "closed" /\ err' = [err EXCEPT ![f] = TRUE]
  /\ unclosed' = TRUE
  /\ at' = [at EXCEPT ![f] = "rename"]
  /\ UNCHANGED <<log, sync, mpc, sender, flags, sigpend, client, next, recorded,
                 clobbered, abandoned>>

\* rename() replaces a file of the new name.
RenameLog(f) ==
  /\ FrameAt(f, "rename")
  /\ IF log = Absent
     THEN /\ err' = [err EXCEPT ![f] = TRUE]
          /\ UNCHANGED <<log, sync, fd, clobbered>>
     ELSE /\ sync' = log /\ log' = Absent
          /\ fd' = IF fd = "log" THEN "sync" ELSE fd
          /\ clobbered' = (clobbered \/ sync # Absent)
          /\ UNCHANGED err
  /\ at' = [at EXCEPT ![f] = "open"]
  /\ UNCHANGED <<mpc, sender, flags, sigpend, client, next, recorded,
                 abandoned, unclosed, faults>>

RenameFails(f) ==
  /\ FrameAt(f, "rename")
  /\ faults < MaxFaults /\ faults' = faults + 1
  /\ err' = [err EXCEPT ![f] = TRUE]
  /\ at' = [at EXCEPT ![f] = "open"]
  /\ UNCHANGED <<files, mpc, sender, flags, sigpend, client, next, recorded,
                 clobbered, abandoned, unclosed>>

\* Mutant: a log is opened only when there was none.
OpenLogOnce(f) ==
  /\ FrameAt(f, "open")
  /\ fd' = IF fd = "none" THEN "log" ELSE fd
  /\ log' = IF log = Absent THEN <<>> ELSE log
  /\ at' = [at EXCEPT ![f] = IF err[f] THEN Idle ELSE "clear"]
  /\ UNCHANGED <<sync, mpc, err, sender, flags, sigpend, client, history>>

\* openOpLog(); if anything has failed handleSIGUSR1() returns.
OpenLog(f) ==
  /\ FrameAt(f, "open")
  /\ fd' = "log"
  /\ log' = IF log = Absent THEN <<>> ELSE log
  /\ at' = [at EXCEPT ![f] = IF err[f] THEN Idle ELSE "clear"]
  /\ UNCHANGED <<sync, mpc, err, sender, flags, sigpend, client, history>>

OpenFails(f) ==
  /\ FrameAt(f, "open")
  /\ faults < MaxFaults /\ faults' = faults + 1
  /\ fd' = "none"
  /\ at' = [at EXCEPT ![f] = Idle]
  /\ UNCHANGED <<log, sync, mpc, err, sender, flags, sigpend, client, next,
                 recorded, clobbered, abandoned, unclosed>>

\* Mutant: switchpending stays set.
ClearPendingNot(f) ==
  /\ FrameAt(f, "clear")
  /\ at' = [at EXCEPT ![f] = "reply"]
  /\ UNCHANGED <<files, mpc, err, sender, flags, sigpend, client, history>>

ClearPending(f) ==
  /\ FrameAt(f, "clear")
  /\ switchpending' = FALSE
  /\ at' = [at EXCEPT ![f] = "reply"]
  /\ UNCHANGED <<files, mpc, err, sender, writepending, pidpending, sigpend,
                 client, history>>

\* kill(): the process that asked, or what has taken its place.
Reply(f) ==
  /\ FrameAt(f, "reply")
  /\ LET pid == IF f = "sig" THEN sender ELSE pidpending
     IN  replied' = (replied \/ (pid = cl /\ clpc = "wait"))
  /\ at' = [at EXCEPT ![f] = Idle]
  /\ UNCHANGED <<files, mpc, err, sender, flags, sigpend, cl, clpc, held, sent,
                 before, history>>

\* Mutant: the log is opened with O_TRUNC.
CrashTruncates ==
  /\ faults < MaxFaults /\ faults' = faults + 1
  /\ mpc' = "idle" /\ at' = [f \in Frames |-> Idle]
  /\ err' = [f \in Frames |-> FALSE] /\ sender' = 0
  /\ writepending' = FALSE /\ switchpending' = FALSE /\ pidpending' = 0
  /\ sigpend' = 0
  /\ fd' = "log" /\ log' = <<>>
  /\ UNCHANGED <<sync, client, next, recorded, clobbered, abandoned, unclosed>>

\* The file system dies and is mounted again: openOpLog().
Crash == /\ faults < MaxFaults /\ faults' = faults + 1
         /\ mpc' = "idle" /\ at' = [f \in Frames |-> Idle]
         /\ err' = [f \in Frames |-> FALSE] /\ sender' = 0
         /\ writepending' = FALSE /\ switchpending' = FALSE /\ pidpending' = 0
         /\ sigpend' = 0
         /\ fd' = "log" /\ log' = IF log = Absent THEN <<>> ELSE log
         /\ UNCHANGED <<sync, client, next, recorded, clobbered, abandoned, unclosed>>

-----------------------------------------------------------------------------
(* The clients.                                                            *)

Leaving == clpc' = "idle" /\ held' = <<>> /\ replied' = FALSE /\ before' = {}

\* synchronize() opens the .sync file that is there or goes for a new one.
Start == /\ clpc = "idle" /\ cl < MaxClients
         /\ cl' = cl + 1
         /\ IF sync = Absent
            THEN clpc' = "signal" /\ UNCHANGED held
            ELSE clpc' = "take" /\ held' = sync
         /\ UNCHANGED <<files, mpc, at, err, sender, flags, sigpend, replied,
                        sent, before, history>>

\* A second signal merges with the one that is pending.
Signal == /\ clpc = "signal"
          /\ clpc' = "wait"
          /\ before' = recorded
          /\ sigpend' = IF sigpend = 0 THEN cl ELSE sigpend
          /\ UNCHANGED <<files, mpc, at, err, sender, flags, cl, held, replied,
                         sent, history>>

\* Mutant: .sync is opened without waiting for the answer.
AnswerEarly == /\ clpc = "wait"
               /\ replied' = FALSE
               /\ clpc' = "take"
               /\ held' = sync
               /\ UNCHANGED <<files, mpc, at, err, sender, flags, sigpend, cl,
                              sent, before, history>>

\* sigtimedwait() returns the answer; .sync is opened.
Answer == /\ clpc = "wait" /\ replied
          /\ replied' = FALSE
          /\ clpc' = "take"
          /\ held' = sync
          /\ UNCHANGED <<files, mpc, at, err, sender, flags, sigpend, cl, sent,
                         before, history>>

\* Ten seconds have passed, or the client is killed.
GiveUp == /\ clpc \in {"signal", "wait", "take"}
          /\ abandoned' = (abandoned \/ clpc = "wait")
          /\ Leaving
          /\ UNCHANGED <<files, mpc, at, err, sender, flags, sigpend, cl, sent,
                         next, recorded, clobbered, unclosed, faults>>

\* The epoch was sent, .sync is deleted.
Finish == /\ clpc = "take"
          /\ sent' = sent \union ToSet(held)
          /\ sync' = Absent
          /\ fd' = IF fd = "sync" THEN "closed" ELSE fd
          /\ Leaving
          /\ UNCHANGED <<log, mpc, at, err, sender, flags, sigpend, cl,
                         history>>

-----------------------------------------------------------------------------
Main == Check \/ Enter \/ Write \/ Leave \/ Test
Handler(f) == \/ CloseLog(f) \/ RenameLog(f) \/ OpenLog(f)
              \/ ClearPending(f) \/ Reply(f)
Running == \/ Enter \/ Write \/ Leave \/ Test
           \/ Deliver \/ HandlerTest
           \/ (\E f \in Frames : Handler(f))
Clients == Start \/ Signal \/ Answer \/ GiveUp \/ Finish

Fails(f) == CloseFails(f) \/ RenameFails(f) \/ OpenFails(f)

LNext == Check \/ Running \/ (\E f \in Frames : Fails(f)) \/ Crash \/ Clients

LSpec == LInit /\ [][LNext]_lvars

\* What the file system has begun it goes on with.
LFairSpec == LSpec /\ WF_lvars(Running)

-----------------------------------------------------------------------------
(* Properties                                                              *)

Steps == {Idle, "test", "close", "rename", "open", "clear", "reply"}

\* The types; logfd refers to a file that has a name, or is closed or -1, and
\* what a client has opened was there.
LTypeOK ==
  /\ log \in Seq(Nat) \union {Absent} /\ sync \in Seq(Nat) \union {Absent}
  /\ fd \in {"log", "sync", "closed", "none"}
  /\ mpc \in {"idle", "enter", "write", "leave", "test"}
  /\ at \in [Frames -> Steps] /\ err \in [Frames -> BOOLEAN]
  /\ sender \in Nat /\ pidpending \in Nat /\ sigpend \in Nat
  /\ writepending \in BOOLEAN /\ switchpending \in BOOLEAN
  /\ cl \in Nat /\ clpc \in {"idle", "signal", "wait", "take"}
  /\ held \in Seq(Nat) /\ replied \in BOOLEAN
  /\ next \in Nat /\ recorded \subseteq Nat /\ sent \subseteq Nat
  /\ before \subseteq Nat /\ clobbered \in BOOLEAN /\ abandoned \in BOOLEAN
  /\ unclosed \in BOOLEAN
  /\ faults \in Nat
  /\ fd = "log" => log # Absent
  /\ fd = "sync" => sync # Absent

OpsOf(file) == IF file = Absent THEN {} ELSE ToSet(file)

\* No recorded operation is in neither file before a client is done with it,
\* with requests that interrupt the main thread anywhere, a write or another
\* switch included, as long as no .sync file was in the way.
LogsKeepAll == ~clobbered => recorded \subseteq sent \union OpsOf(log)
                                                \union OpsOf(sync)

\* A switch only finds a .sync file in its way when a client has gone away
\* without its answer, so that its request and that of the next client are
\* both served (client.c:889-893): each request is served at most once.  (One put
\* off until the end of a write is served twice when close() fails in between: the
\* log has been renamed, but switchpending stays set.)
ClobberNeedsAbandoned == clobbered => abandoned \/ unclosed

\* A client that was answered finds in the .sync file it opens everything
\* that was recorded before it asked and was not sent by others
\* (sighandlers.c:31-40).
AnswerIsComplete == ~clobbered /\ clpc = "take" =>
                      before \subseteq sent \union OpsOf(held)

\* Outside panic mode every operation is recorded in the log that the next
\* switch will take, and never in one that was switched already and that a
\* client may have read (log.c:54-59, 92-97).
WriteHitsLog == mpc = "write" /\ fd # "none" /\ at["sig"] = Idle => fd = "log"

\* A request put off because of a write does not stay so (log.c:99), unless
\* a call of switchLog() has failed or the file system has died.
DeferredIsServed == switchpending ~> (~switchpending \/ faults > 0)

\* "We don't have to block SIGUSR1, it is done automatically"
\* (sighandlers.c:23): the handler is never entered while it is running.
NotReentered == at["main"] = Idle \/ at["sig"] = Idle
=============================================================================
