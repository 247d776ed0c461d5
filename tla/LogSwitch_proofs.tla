---------------------------- MODULE LogSwitch_proofs ----------------------------
(***************************************************************************)
(* What holds of the log and its switch for any number of operations,      *)
(* clients and failures, wherever signals interrupt the main thread: no    *)
(* record is lost unless a switch finds a .sync file in its way, that only *)
(* happens after a client has stopped waiting or close() has failed in a   *)
(* switch, an answer means that the epoch is complete, and no record gets  *)
(* into a log that was switched.                                           *)
(***************************************************************************)
EXTENDS LogSwitch, TLAPS

\* The main thread and the frames: the frame that logGeneric() calls stops the
\* main thread where it is between operations, and a write puts requests off.
FrameInv ==
  /\ at["main"] # Idle => mpc = "idle"
  /\ at["main"] # "test"
  /\ writepending <=> mpc \in {"write", "leave"}
  /\ writepending => at["sig"] \in {Idle, "test"}
  /\ fd \in {"closed", "sync"} => \E f \in Frames : at[f] \in {"rename", "open"}

\* The process a frame will answer.
Asker(f) == IF f = "sig" THEN sender ELSE pidpending

\* No process is on record before it has asked.
PidInv ==
  /\ sender <= cl /\ pidpending <= cl /\ sigpend <= cl
  /\ clpc = "signal" => sender < cl /\ pidpending < cl /\ sigpend < cl
  /\ clpc # "idle" => cl > 0
  /\ replied => clpc = "wait"
  /\ clpc \in {"idle", "signal"} => before = {}
  /\ before \subseteq recorded

\* The frame has switched the log for the client that waits, and will tell it.
Serving(f) == /\ clpc = "wait" /\ Asker(f) = cl
              /\ at[f] \in {"open", "clear", "reply"}
              /\ at[f] = "open" => ~err[f]

\* The client that was or will be answered has its epoch.
ServedInv ==
  replied \/ (\E f \in Frames : Serving(f)) =>
    /\ sync # Absent
    /\ ~clobbered => before \subseteq sent \union OpsOf(sync)

\* The epoch a client has open is the one on disk, and what it asked for is
\* in it.
TakenInv ==
  ~clobbered /\ clpc = "take" =>
    /\ sync # Absent /\ held = sync
    /\ before \subseteq sent \union OpsOf(sync)

\* Somewhere there is a request that was not served.
Asked == \/ sigpend # 0 \/ switchpending
         \/ \E f \in Frames : at[f] # Idle

\* As long as every client has waited for its answer, and no close() has failed,
\* there is one request at most, it is that of the client that waits, and the
\* switch it leads to finds the log open and no .sync file.  When a log could
\* not be opened no answer and no other switch will come.
AloneInv ==
  ~abandoned /\ ~unclosed =>
    /\ ~clobbered
    /\ sigpend # 0 => ~switchpending /\ \A f \in Frames : at[f] = Idle
    /\ at["sig"] # Idle => ~switchpending /\ at["main"] = Idle
    /\ Asked \/ fd = "none" => clpc = "wait" /\ ~replied
    /\ clpc = "signal" => sync = Absent
    /\ fd = "none" => sigpend = 0 /\ \A f \in Frames : at[f] = Idle
    /\ switchpending /\ fd = "none" => mpc = "idle"
    /\ \/ sigpend # 0 \/ at["sig"] \in {"test", "close"} \/ at["main"] = "close"
       \/ switchpending /\ at["main"] = Idle /\ fd # "none"
       => sync = Absent /\ fd = "log"
    /\ \A f \in Frames :
         /\ at[f] = "rename" => /\ sync = Absent /\ log # Absent
                                /\ fd = "closed" /\ ~err[f]
         /\ at[f] = "open" /\ err[f] => sync = Absent
    /\ at["main"] = "reply" => ~switchpending

LInv == LTypeOK /\ FrameInv /\ PidInv /\ ServedInv /\ TakenInv /\ LogsKeepAll /\ AloneInv

-----------------------------------------------------------------------------
(* The facts about sequences.                                              *)

\* The members of a log that was extended.
LEMMA ToSetAppend ==
  ASSUME NEW s \in Seq(Nat), NEW e \in Nat
  PROVE  Append(s, e) \in Seq(Nat) /\ ToSet(Append(s, e)) = ToSet(s) \union {e}
<1>1. /\ DOMAIN Append(s, e) = DOMAIN s \union {Len(s) + 1}
      /\ \A i \in DOMAIN s : Append(s, e)[i] = s[i]
      /\ Append(s, e)[Len(s) + 1] = e
  OBVIOUS
<1> QED BY <1>1 DEF ToSet

\* The operations of a file that is there, not there, or empty.
LEMMA OpsFacts == /\ OpsOf(Absent) = {}
                  /\ \A s \in Seq(Nat) : OpsOf(s) = ToSet(s) /\ ToSet(s) \subseteq Nat
                  /\ <<>> \in Seq(Nat) /\ <<>> # Absent /\ OpsOf(<<>>) = {}
<1>1. <<>> \in Seq(Nat) /\ ToSet(<<>>) = {}
  BY DEF ToSet
<1>2. \A s \in Seq(Nat) : s # Absent /\ ToSet(s) \subseteq Nat
  BY SwitchAssumption DEF ToSet
<1> QED BY <1>1, <1>2 DEF OpsOf

-----------------------------------------------------------------------------
\* Everything holds when the file system is mounted for the first time.
LEMMA InvInit == LInit => LInv
<1> SUFFICES ASSUME LInit PROVE LInv
  OBVIOUS
<1> USE OpsFacts, SwitchAssumption DEF LInit, Frames, Idle, Steps
<1>1. LTypeOK
  BY DEF LTypeOK
<1>2. FrameInv /\ PidInv
  BY DEF FrameInv, PidInv
<1>3. ServedInv /\ TakenInv /\ LogsKeepAll
  BY DEF ServedInv, Serving, TakenInv, LogsKeepAll
<1>4. AloneInv
  BY DEF AloneInv, Asked
<1> QED BY <1>1, <1>2, <1>3, <1>4 DEF LInv

\* Every step keeps the types.
LEMMA LTypeStep == LTypeOK /\ ServedInv /\ [LNext]_lvars => LTypeOK'
<1> SUFFICES ASSUME LTypeOK, ServedInv, [LNext]_lvars PROVE LTypeOK'
  OBVIOUS
<1> USE OpsFacts, SwitchAssumption
        DEF LTypeOK, Frames, Idle, Steps, files, flags, client, history, MainAt, FrameAt
<1>1. CASE Check
  BY <1>1 DEF Check
<1>2. CASE Enter
  BY <1>2 DEF Enter
<1>3. CASE Write
  <2>1. /\ log' \in Seq(Nat) \union {Absent} /\ sync' \in Seq(Nat) \union {Absent}
        /\ fd = "log" => log' # Absent
        /\ fd = "sync" => sync' # Absent
        /\ recorded' \subseteq Nat
    <3>1. /\ fd = "log" => Append(log, next) \in Seq(Nat)
          /\ fd = "sync" => Append(sync, next) \in Seq(Nat)
      BY ToSetAppend
    <3> QED BY <1>3, <3>1 DEF Write
  <2>2. /\ mpc' = "leave"
        /\ UNCHANGED <<fd, at, err, sender, flags, sigpend, client, next, clobbered,
                       abandoned, unclosed, faults>>
    BY <1>3 DEF Write
  <2> QED BY <2>1, <2>2
<1>4. CASE Leave
  BY <1>4 DEF Leave
<1>5. CASE Test
  BY <1>5 DEF Test
<1>6. CASE Deliver
  BY <1>6 DEF Deliver
<1>7. CASE HandlerTest
  <2>1. at' \in [Frames -> Steps] /\ switchpending' \in BOOLEAN /\ pidpending' \in Nat
    BY <1>7 DEF HandlerTest
  <2>2. UNCHANGED <<files, mpc, err, sender, writepending, sigpend, client, history>>
    BY <1>7 DEF HandlerTest
  <2> QED BY <2>1, <2>2
<1>8. ASSUME NEW f \in Frames, CloseLog(f) PROVE LTypeOK'
  BY <1>8 DEF CloseLog
<1>9. ASSUME NEW f \in Frames, RenameLog(f) PROVE LTypeOK'
  <2>1. at' \in [Frames -> Steps] /\ err' \in [Frames -> BOOLEAN]
    BY <1>9 DEF RenameLog
  <2>2. /\ log' \in Seq(Nat) \union {Absent} /\ sync' \in Seq(Nat) \union {Absent}
        /\ fd' \in {"log", "sync", "closed", "none"} /\ clobbered' \in BOOLEAN
        /\ fd' = "log" => log' # Absent
        /\ fd' = "sync" => sync' # Absent
    BY <1>9 DEF RenameLog
  <2>3. UNCHANGED <<mpc, sender, flags, sigpend, client, next, recorded, abandoned,
                    unclosed, faults>>
    BY <1>9 DEF RenameLog
  <2> QED BY <2>1, <2>2, <2>3
<1>10. ASSUME NEW f \in Frames, OpenLog(f) PROVE LTypeOK'
  BY <1>10 DEF OpenLog
<1>11. ASSUME NEW f \in Frames, OpenFails(f) PROVE LTypeOK'
  BY <1>11 DEF OpenFails
<1>12. ASSUME NEW f \in Frames, ClearPending(f) PROVE LTypeOK'
  <2>1. at' \in [Frames -> Steps] /\ switchpending' \in BOOLEAN
    BY <1>12 DEF ClearPending
  <2>2. UNCHANGED <<files, mpc, err, sender, writepending, pidpending, sigpend,
                    client, history>>
    BY <1>12 DEF ClearPending
  <2> QED BY <2>1, <2>2
<1>13. ASSUME NEW f \in Frames, Reply(f) PROVE LTypeOK'
  BY <1>13 DEF Reply
<1>14. CASE Crash
  <2>1. /\ at' \in [Frames -> Steps] /\ err' \in [Frames -> BOOLEAN]
        /\ log' \in Seq(Nat) /\ log' # Absent /\ fd' = "log" /\ faults' \in Nat
        /\ mpc' = "idle" /\ sender' = 0 /\ sigpend' = 0 /\ pidpending' = 0
        /\ writepending' = FALSE /\ switchpending' = FALSE
    BY <1>14 DEF Crash
  <2>2. UNCHANGED <<sync, client, next, recorded, clobbered, abandoned, unclosed>>
    BY <1>14 DEF Crash
  <2>3. next' \in Nat /\ sync' \in Seq(Nat) \union {Absent} /\ cl' \in Nat
        /\ held' \in Seq(Nat) /\ clpc' \in {"idle", "signal", "wait", "take"}
        /\ replied' \in BOOLEAN /\ clobbered' \in BOOLEAN /\ abandoned' \in BOOLEAN
        /\ unclosed' \in BOOLEAN
        /\ recorded' \subseteq Nat /\ sent' \subseteq Nat /\ before' \subseteq Nat
    BY <2>2
  <2> QED BY <2>1, <2>3
<1>15. CASE Start
  BY <1>15 DEF Start
<1>16. CASE Signal
  BY <1>16 DEF Signal
<1>17. CASE Answer
  BY <1>17 DEF Answer, ServedInv
<1>18. CASE GiveUp
  BY <1>18 DEF GiveUp, Leaving
<1>19. CASE Finish
  BY <1>19 DEF Finish, Leaving
<1>20. CASE UNCHANGED lvars
  BY <1>20 DEF lvars
<1>21. ASSUME NEW f \in Frames, CloseFails(f) PROVE LTypeOK'
  <2>1. /\ at' \in [Frames -> Steps] /\ err' \in [Frames -> BOOLEAN]
        /\ fd' = "closed" /\ unclosed' = TRUE /\ faults' \in Nat
    BY <1>21 DEF CloseFails
  <2>2. UNCHANGED <<log, sync, mpc, sender, flags, sigpend, client, next, recorded,
                    clobbered, abandoned>>
    BY <1>21 DEF CloseFails
  <2> QED BY <2>1, <2>2
<1>22. ASSUME NEW f \in Frames, RenameFails(f) PROVE LTypeOK'
  <2>1. /\ at' \in [Frames -> Steps] /\ err' \in [Frames -> BOOLEAN]
        /\ faults' \in Nat
    BY <1>22 DEF RenameFails
  <2>2. UNCHANGED <<files, mpc, sender, flags, sigpend, client, next, recorded,
                    clobbered, abandoned, unclosed>>
    BY <1>22 DEF RenameFails
  <2> QED BY <2>1, <2>2
<1> QED
  BY <1>1, <1>2, <1>3, <1>4, <1>5, <1>6, <1>7, <1>8, <1>9, <1>10, <1>11, <1>12,
     <1>13, <1>14, <1>15, <1>16, <1>17, <1>18, <1>19, <1>20, <1>21, <1>22
     DEF LNext, Running, Handler, Fails, Clients

\* Every step keeps the frames apart.
LEMMA FrameStep == LTypeOK /\ FrameInv /\ [LNext]_lvars => FrameInv'
<1> SUFFICES ASSUME LTypeOK, FrameInv, [LNext]_lvars PROVE FrameInv'
  OBVIOUS
<1>0. at \in [Frames -> Steps] /\ writepending \in BOOLEAN /\ fd \in {"log", "sync", "closed", "none"}
  BY DEF LTypeOK
<1> USE DEF FrameInv, Frames, Idle, files, flags, client, history, MainAt, FrameAt
<1>1. CASE Check
  BY <1>0, <1>1 DEF Check
<1>2. CASE Enter \/ Write \/ Leave
  BY <1>0, <1>2 DEF Enter, Write, Leave
<1>3. CASE Test
  BY <1>0, <1>3 DEF Test
<1>4. CASE Deliver
  BY <1>0, <1>4 DEF Deliver
<1>5. CASE HandlerTest
  BY <1>0, <1>5 DEF HandlerTest
<1>6. ASSUME NEW f \in Frames, CloseLog(f) \/ CloseFails(f) PROVE FrameInv'
  BY <1>0, <1>6 DEF CloseLog, CloseFails
<1>7. ASSUME NEW f \in Frames, RenameLog(f) \/ RenameFails(f) PROVE FrameInv'
  BY <1>0, <1>7 DEF RenameLog, RenameFails
<1>8. ASSUME NEW f \in Frames, OpenLog(f) \/ OpenFails(f) PROVE FrameInv'
  BY <1>0, <1>8 DEF OpenLog, OpenFails
<1>9. ASSUME NEW f \in Frames, ClearPending(f) \/ Reply(f) PROVE FrameInv'
  BY <1>0, <1>9 DEF ClearPending, Reply
<1>10. CASE Crash
  BY <1>10 DEF Crash
<1>11. CASE Clients
  <2>1. UNCHANGED <<at, mpc, writepending>> /\ (fd' = fd \/ fd = "sync")
    BY <1>11 DEF Clients, Start, Signal, Answer, GiveUp, Finish, Leaving
  <2> QED BY <1>0, <2>1
<1>12. CASE UNCHANGED lvars
  BY <1>12 DEF lvars
<1> QED
  BY <1>1, <1>2, <1>3, <1>4, <1>5, <1>6, <1>7, <1>8, <1>9, <1>10, <1>11, <1>12
     DEF LNext, Running, Handler, Fails, Clients

\* Every step keeps who may be on record as having asked.
LEMMA PidStep == LTypeOK /\ FrameInv /\ PidInv /\ [LNext]_lvars => PidInv'
<1> SUFFICES ASSUME LTypeOK, FrameInv, PidInv, [LNext]_lvars PROVE PidInv'
  OBVIOUS
<1>0. /\ sender \in Nat /\ pidpending \in Nat /\ sigpend \in Nat /\ cl \in Nat
      /\ clpc \in {"idle", "signal", "wait", "take"} /\ replied \in BOOLEAN
  BY DEF LTypeOK
<1> USE DEF PidInv, files, flags, client, history
<1>1. CASE Check \/ Enter \/ Leave \/ Test
  <2>1. UNCHANGED <<sender, pidpending, sigpend, client, recorded>>
    BY <1>1 DEF Check, Enter, Leave, Test
  <2> QED BY <2>1
<1>2. CASE Write
  <2>1. UNCHANGED <<sender, pidpending, sigpend, client>> /\ recorded \subseteq recorded'
    BY <1>2 DEF Write
  <2> QED BY <2>1
<1>3. CASE Deliver \/ HandlerTest
  <2>1. /\ UNCHANGED <<client, recorded>>
        /\ sender' \in {sender, sigpend} /\ pidpending' \in {pidpending, sender}
        /\ sigpend' \in {sigpend, 0}
    BY <1>3 DEF Deliver, HandlerTest
  <2> QED BY <1>0, <2>1
<1>4. ASSUME NEW f \in Frames,
             CloseLog(f) \/ RenameLog(f) \/ OpenLog(f) \/ ClearPending(f) \/ Fails(f)
      PROVE  PidInv'
  <2>1. UNCHANGED <<sender, pidpending, sigpend, client, recorded>>
    BY <1>4 DEF CloseLog, RenameLog, OpenLog, ClearPending, Fails, CloseFails, RenameFails,
                OpenFails
  <2> QED BY <2>1
<1>5. ASSUME NEW f \in Frames, Reply(f) PROVE PidInv'
  <2>1. /\ UNCHANGED <<sender, pidpending, sigpend, cl, clpc, before, recorded>>
        /\ replied' => replied \/ clpc = "wait"
    BY <1>5 DEF Reply
  <2> QED BY <2>1
<1>6. CASE Crash
  <2>1. UNCHANGED <<client, recorded>> /\ sender' = 0 /\ pidpending' = 0 /\ sigpend' = 0
    BY <1>6 DEF Crash
  <2> QED BY <1>0, <2>1
<1>7. CASE Start
  BY <1>0, <1>7 DEF Start
<1>8. CASE Signal
  BY <1>0, <1>8 DEF Signal
<1>9. CASE Answer
  BY <1>0, <1>9 DEF Answer
<1>10. CASE GiveUp \/ Finish
  BY <1>0, <1>10 DEF GiveUp, Finish, Leaving
<1>11. CASE UNCHANGED lvars
  BY <1>11 DEF lvars
<1> QED
  BY <1>1, <1>2, <1>3, <1>4, <1>5, <1>6, <1>7, <1>8, <1>9, <1>10, <1>11
     DEF LNext, Running, Handler, Fails, Clients

\* No record is written to a log that was switched.
LEMMA WriteFacts ==
  ASSUME LTypeOK, FrameInv, Write
  PROVE  /\ fd \in {"log", "none"}
         /\ UNCHANGED <<sync, cl, clpc, held, replied, sent, before, clobbered>>
         /\ OpsOf(log) \subseteq OpsOf(log')
         /\ recorded' = IF fd = "log" THEN recorded \union {next} ELSE recorded
         /\ fd = "log" => OpsOf(log') = OpsOf(log) \union {next}
<1>1. fd \in {"log", "none"}
  BY DEF LTypeOK, FrameInv, Write, MainAt, Frames, Idle
<1>2. fd = "log" => OpsOf(log') = OpsOf(log) \union {next}
  <2> SUFFICES ASSUME fd = "log" PROVE OpsOf(log') = OpsOf(log) \union {next}
    OBVIOUS
  <2>1. log \in Seq(Nat) /\ next \in Nat /\ log' = Append(log, next)
    BY DEF LTypeOK, Write
  <2> QED BY <2>1, ToSetAppend, OpsFacts
<1> QED BY <1>1, <1>2 DEF Write, client

\* Every step keeps the epoch of the client that is being served.
LEMMA ServedStep ==
  LTypeOK /\ FrameInv /\ PidInv /\ ServedInv /\ LogsKeepAll /\ [LNext]_lvars => ServedInv'
<1> SUFFICES ASSUME LTypeOK, FrameInv, PidInv, ServedInv, LogsKeepAll, [LNext]_lvars
             PROVE  ServedInv'
  OBVIOUS
<1>0. /\ at \in [Frames -> Steps] /\ err \in [Frames -> BOOLEAN]
      /\ sender \in Nat /\ pidpending \in Nat /\ sigpend \in Nat /\ cl \in Nat
      /\ before \subseteq recorded
  BY DEF LTypeOK, PidInv
<1> DEFINE Served == sync # Absent /\ (~clobbered => before \subseteq sent \union OpsOf(sync))
<1>1. ASSUME UNCHANGED <<sync, sent, before, clobbered>>,
             replied' => \/ replied \/ \E f \in Frames : Serving(f),
             ASSUME NEW f \in Frames, Serving(f)' PROVE \E g \in Frames : Serving(g)
      PROVE  ServedInv'
  BY <1>1 DEF ServedInv
<1> USE DEF Serving, Asker, Frames, Idle, Steps, files, flags, client, history, MainAt, FrameAt
<1>2. CASE Check \/ Enter \/ Leave \/ Test
  <2>1. /\ UNCHANGED <<sync, err, sender, pidpending, client, clobbered>>
        /\ \A f \in Frames : at'[f] = at[f] \/ at'[f] \in {"close", Idle}
    BY <1>0, <1>2 DEF Check, Enter, Leave, Test
  <2> QED BY <1>1, <2>1
<1>3. CASE Write
  <2>1. UNCHANGED <<sync, at, err, sender, pidpending, client, clobbered>>
    BY <1>3, WriteFacts DEF Write
  <2> QED BY <1>1, <2>1
<1>4. CASE Deliver
  BY <1>0, <1>1, <1>4 DEF Deliver
<1>5. CASE HandlerTest
  BY <1>0, <1>1, <1>5 DEF HandlerTest, FrameInv
<1>6. ASSUME NEW f \in Frames, CloseLog(f) \/ CloseFails(f) \/ RenameFails(f)
      PROVE  ServedInv'
  BY <1>0, <1>1, <1>6 DEF CloseLog, CloseFails, RenameFails
<1>7. ASSUME NEW f \in Frames, RenameLog(f) PROVE ServedInv'
  <2>1. CASE log = Absent
    BY <1>0, <1>1, <1>7, <2>1 DEF RenameLog
  <2>2. CASE log # Absent
    <3>1. /\ UNCHANGED <<sent, before, replied>> /\ sync' = log
          /\ clobbered' = (clobbered \/ sync # Absent)
      BY <1>7, <2>2 DEF RenameLog
    <3>2. ~clobbered' => before \subseteq sent \union OpsOf(sync')
      BY <1>0, <3>1, OpsFacts DEF LogsKeepAll
    <3> QED BY <2>2, <3>1, <3>2 DEF ServedInv
  <2> QED BY <2>1, <2>2
<1>8. ASSUME NEW f \in Frames, OpenLog(f) \/ OpenFails(f) PROVE ServedInv'
  BY <1>0, <1>1, <1>8 DEF OpenLog, OpenFails
<1>9. ASSUME NEW f \in Frames, ClearPending(f) PROVE ServedInv'
  BY <1>0, <1>1, <1>9 DEF ClearPending
<1>10. ASSUME NEW f \in Frames, Reply(f) PROVE ServedInv'
  BY <1>0, <1>1, <1>10 DEF Reply
<1>11. CASE Crash
  BY <1>1, <1>11 DEF Crash
<1>12. CASE Start \/ Answer \/ GiveUp \/ Finish
  <2>1. clpc' # "wait" /\ ~replied'
    BY <1>12 DEF Start, Answer, GiveUp, Finish, Leaving, PidInv, LTypeOK
  <2> QED BY <2>1 DEF ServedInv
<1>13. CASE Signal
  <2>1. /\ clpc = "signal" /\ UNCHANGED <<cl, replied, sender, pidpending, at>>
        /\ sender < cl /\ pidpending < cl /\ ~replied
    BY <1>13 DEF Signal, PidInv, LTypeOK
  <2> QED BY <1>0, <2>1 DEF ServedInv
<1>14. CASE UNCHANGED lvars
  BY <1>1, <1>14 DEF lvars
<1> QED
  BY <1>2, <1>3, <1>4, <1>5, <1>6, <1>7, <1>8, <1>9, <1>10, <1>11, <1>12, <1>13, <1>14
     DEF LNext, Running, Handler, Fails, Clients

\* Every step keeps the epoch that is open on disk, and every record.
LEMMA TakenStep ==
  /\ LTypeOK /\ FrameInv /\ PidInv /\ ServedInv /\ TakenInv /\ LogsKeepAll
  /\ [LNext]_lvars
  => TakenInv' /\ LogsKeepAll'
<1> SUFFICES ASSUME LTypeOK, FrameInv, PidInv, ServedInv, TakenInv, LogsKeepAll,
                    [LNext]_lvars
             PROVE  TakenInv' /\ LogsKeepAll'
  OBVIOUS
<1>0. log \in Seq(Nat) \union {Absent} /\ sync \in Seq(Nat) \union {Absent}
  BY DEF LTypeOK
<1>1. ASSUME UNCHANGED <<log, sync, sent, recorded, clobbered>>,
             UNCHANGED <<clpc, held, before>> \/ clpc' # "take"
      PROVE  TakenInv' /\ LogsKeepAll'
  BY <1>1 DEF TakenInv, LogsKeepAll
<1> USE DEF files, flags, client, history
<1>2. CASE Check \/ Enter \/ Leave \/ Test \/ Deliver \/ HandlerTest
  BY <1>1, <1>2 DEF Check, Enter, Leave, Test, Deliver, HandlerTest
<1>3. CASE Write
  BY <1>3, WriteFacts DEF TakenInv, LogsKeepAll
<1>4. ASSUME NEW f \in Frames, CloseLog(f) \/ ClearPending(f) \/ Reply(f) \/ Fails(f)
      PROVE  TakenInv' /\ LogsKeepAll'
  BY <1>1, <1>4 DEF CloseLog, ClearPending, Reply, Fails, CloseFails, RenameFails, OpenFails
<1>5. ASSUME NEW f \in Frames, RenameLog(f) PROVE TakenInv' /\ LogsKeepAll'
  <2>1. CASE log = Absent
    BY <1>1, <1>5, <2>1 DEF RenameLog
  <2>2. CASE log # Absent
    <3>1. /\ UNCHANGED <<sent, recorded, clpc>> /\ sync' = log /\ log' = Absent
          /\ clobbered' = (clobbered \/ sync # Absent)
      BY <1>5, <2>2 DEF RenameLog
    <3> QED BY <3>1, OpsFacts DEF TakenInv, LogsKeepAll
  <2> QED BY <2>1, <2>2
<1>6. CASE Crash \/ \E f \in Frames : OpenLog(f)
  <2>1. /\ UNCHANGED <<sync, client, recorded, clobbered>>
        /\ log' = IF log = Absent THEN <<>> ELSE log
    BY <1>6 DEF Crash, OpenLog
  <2>2. OpsOf(log') = OpsOf(log)
    BY <2>1, OpsFacts
  <2> QED BY <2>1, <2>2 DEF TakenInv, LogsKeepAll
<1>7. CASE Start
  <2>1. UNCHANGED <<log, sync, sent, recorded, clobbered, before>> /\ before = {}
    BY <1>7 DEF Start, PidInv
  <2>2. clpc' = "take" => sync # Absent /\ held' = sync
    BY <1>7 DEF Start
  <2> QED BY <2>1, <2>2 DEF TakenInv, LogsKeepAll
<1>8. CASE Answer
  <2>1. UNCHANGED <<log, sync, sent, recorded, clobbered, before>> /\ replied /\ held' = sync
    BY <1>8 DEF Answer
  <2> QED BY <2>1 DEF TakenInv, LogsKeepAll, ServedInv
<1>9. CASE Signal \/ GiveUp
  BY <1>1, <1>9 DEF Signal, GiveUp, Leaving
<1>10. CASE Finish
  <2>1. /\ UNCHANGED <<log, recorded, clobbered>> /\ sync' = Absent /\ clpc' = "idle"
        /\ sent' = sent \union ToSet(held) /\ clpc = "take"
    BY <1>10 DEF Finish, Leaving
  <2>2. ~clobbered => OpsOf(sync) = ToSet(held)
    BY <1>0, <2>1, OpsFacts DEF TakenInv
  <2> QED BY <2>1, <2>2, OpsFacts DEF TakenInv, LogsKeepAll
<1>11. CASE UNCHANGED lvars
  BY <1>1, <1>11 DEF lvars
<1> QED
  BY <1>2, <1>3, <1>4, <1>5, <1>6, <1>7, <1>8, <1>9, <1>10, <1>11
     DEF LNext, Running, Handler, Fails, Clients

\* What has happened has happened.
LEMMA HistoryStep ==
  LTypeOK /\ [LNext]_lvars => (abandoned => abandoned') /\ (unclosed => unclosed')
<1> SUFFICES ASSUME LTypeOK, [LNext]_lvars
             PROVE  (abandoned => abandoned') /\ (unclosed => unclosed')
  OBVIOUS
<1> USE DEF history
<1>1. CASE Check \/ Enter \/ Write \/ Leave \/ Test \/ Deliver \/ HandlerTest
  BY <1>1 DEF Check, Enter, Write, Leave, Test, Deliver, HandlerTest
<1>2. ASSUME NEW f \in Frames, Handler(f)
      PROVE  UNCHANGED <<abandoned, unclosed>>
  BY <1>2 DEF Handler, CloseLog, RenameLog, OpenLog, ClearPending, Reply
<1>3. ASSUME NEW f \in Frames, Fails(f)
      PROVE  abandoned' = abandoned /\ (unclosed => unclosed')
  BY <1>3 DEF Fails, CloseFails, RenameFails, OpenFails
<1>4. CASE Crash \/ Start \/ Signal \/ Answer \/ Finish
  BY <1>4 DEF Crash, Start, Signal, Answer, Finish
<1>5. CASE GiveUp
  BY <1>5 DEF GiveUp, LTypeOK
<1>6. CASE UNCHANGED lvars
  BY <1>6 DEF lvars
<1> QED
  BY <1>1, <1>2, <1>3, <1>4, <1>5, <1>6 DEF LNext, Running, Clients

\* As long as every client waits for its answer, every step keeps requests from
\* being served twice.
LEMMA AloneStep ==
  LTypeOK /\ FrameInv /\ PidInv /\ AloneInv /\ [LNext]_lvars => AloneInv'
<1> SUFFICES ASSUME LTypeOK, FrameInv, PidInv, AloneInv, [LNext]_lvars, ~abandoned', ~unclosed'
             PROVE  AloneInv'
  BY DEF AloneInv
<1> ~abandoned /\ ~unclosed
  BY HistoryStep DEF LTypeOK
<1>0. /\ at \in [Frames -> Steps] /\ err \in [Frames -> BOOLEAN]
      /\ switchpending \in BOOLEAN /\ writepending \in BOOLEAN
      /\ sender \in Nat /\ pidpending \in Nat /\ sigpend \in Nat /\ cl \in Nat
      /\ mpc \in {"idle", "enter", "write", "leave", "test"}
      /\ fd \in {"log", "sync", "closed", "none"}
      /\ clpc \in {"idle", "signal", "wait", "take"} /\ replied \in BOOLEAN
      /\ clobbered \in BOOLEAN /\ abandoned \in BOOLEAN /\ unclosed \in BOOLEAN
      /\ fd = "log" => log # Absent
  BY DEF LTypeOK
<1> USE <1>0 DEF AloneInv, Asked, Frames, Idle, Steps, files, flags, client, history,
                 MainAt, FrameAt
<1>1. CASE Check
  BY <1>1 DEF Check
<1>2. CASE Enter
  BY <1>2 DEF Enter
<1>3. CASE Write
  BY <1>3, WriteFacts DEF Write
<1>4. CASE Leave
  BY <1>4 DEF Leave
<1>5. CASE Test
  BY <1>5 DEF Test
<1>6. CASE Deliver
  BY <1>6 DEF Deliver
<1>7. CASE HandlerTest
  BY <1>7 DEF HandlerTest, FrameInv
<1>8. ASSUME NEW f \in Frames, CloseLog(f) PROVE AloneInv'
  BY <1>8 DEF CloseLog
<1>9. ASSUME NEW f \in Frames, RenameLog(f) PROVE AloneInv'
  BY <1>9 DEF RenameLog
<1>10. ASSUME NEW f \in Frames, OpenLog(f) PROVE AloneInv'
  BY <1>10 DEF OpenLog
<1>11. ASSUME NEW f \in Frames, OpenFails(f) PROVE AloneInv'
  BY <1>11 DEF OpenFails, FrameInv
<1>12. ASSUME NEW f \in Frames, ClearPending(f) PROVE AloneInv'
  BY <1>12 DEF ClearPending
<1>13. ASSUME NEW f \in Frames, Reply(f) PROVE AloneInv'
  BY <1>13 DEF Reply
<1>14. CASE Crash
  BY <1>14 DEF Crash
<1>15. CASE Start
  BY <1>15 DEF Start
<1>16. CASE Signal
  BY <1>16 DEF Signal, FrameInv, PidInv
<1>17. CASE Answer
  BY <1>17 DEF Answer
<1>18. CASE GiveUp
  BY <1>18 DEF GiveUp, Leaving
<1>19. CASE Finish
  BY <1>19 DEF Finish, Leaving
<1>20. CASE UNCHANGED lvars
  BY <1>20 DEF lvars
<1>21. ASSUME NEW f \in Frames, RenameFails(f) PROVE AloneInv'
  BY <1>21 DEF RenameFails
<1>22. ASSUME NEW f \in Frames PROVE ~CloseFails(f)
  BY DEF CloseFails
<1> QED
  BY <1>1, <1>2, <1>3, <1>4, <1>5, <1>6, <1>7, <1>8, <1>9, <1>10, <1>11, <1>12,
     <1>13, <1>14, <1>15, <1>16, <1>17, <1>18, <1>19, <1>20, <1>21, <1>22
     DEF LNext, Running, Handler, Fails, Clients

-----------------------------------------------------------------------------
\* The inductive invariant holds always.
LEMMA InvAlways == LSpec => []LInv
<1>1. LInv /\ [LNext]_lvars => LInv'
  BY LTypeStep, FrameStep, PidStep, ServedStep, TakenStep, AloneStep DEF LInv
<1> QED BY <1>1, InvInit, PTL DEF LSpec

\* The variables of the log switch keep their types.
THEOREM SwitchTypeCorrect == LSpec => []LTypeOK
<1>1. LInv => LTypeOK
  BY DEF LInv
<1> QED BY <1>1, InvAlways, PTL

\* Every record is in a log until a client is done with it, wherever requests
\* interrupt the main thread, unless a switch has found a .sync file in its way.
THEOREM RecordsAreKept == LSpec => []LogsKeepAll
<1>1. LInv => LogsKeepAll
  BY DEF LInv
<1> QED BY <1>1, InvAlways, PTL

\* A switch finds a .sync file in its way only after a client has gone away
\* without its answer, or after close() has failed in a switch.
THEOREM ServedOnce == LSpec => []ClobberNeedsAbandoned
<1>1. LInv => ClobberNeedsAbandoned
  BY DEF LInv, AloneInv, ClobberNeedsAbandoned
<1> QED BY <1>1, InvAlways, PTL

\* The epoch a client opens after its answer holds all that was recorded before
\* it asked.
THEOREM AnswersComplete == LSpec => []AnswerIsComplete
<1>1. LInv => AnswerIsComplete
  BY DEF LInv, TakenInv, AnswerIsComplete, OpsOf
<1> QED BY <1>1, InvAlways, PTL

\* Outside panic mode a record is written to the log of that name.
THEOREM WritesHitTheLog == LSpec => []WriteHitsLog
<1>1. LInv => WriteHitsLog
  BY DEF LInv, LTypeOK, FrameInv, WriteHitsLog, Frames, Idle
<1> QED BY <1>1, InvAlways, PTL
=============================================================================
