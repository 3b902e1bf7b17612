------------------------- MODULE BotLifecycleProofs -------------------------
(***************************************************************************)
(* IInv is an invariant of BotLifecycle for any number of processes, runs, *)
(* requests and failures; the safety properties follow from it.            *)
(***************************************************************************)
EXTENDS BotLifecycle, TLAPS

\* What may follow a status.
LEMMA AllowedNext ==
  ASSUME NEW from, NEW next \in Allowed(from)
  PROVE  /\ next \in Statuses
         /\ from \in Active
         /\ next \in {"running"} \cup Terminal
         /\ next = "running" => from = "requested"
  BY DEF Allowed, Statuses, Active, Terminal

\* What the columns of a run can be after the updates of BotRunService.
LEMMA StampedRun ==
  ASSUME NEW run \in Run, NEW seen \in Run, NEW next \in Allowed(seen.status),
         seen.started => run.started, seen.finished => run.finished
  PROVE  /\ Stamped(run, seen, next) \in Run
         /\ Stamped(run, seen, next).status = next
         /\ run.started => Stamped(run, seen, next).started
         /\ run.finished => Stamped(run, seen, next).finished
         /\ next = "running" => Stamped(run, seen, next).started
         /\ next \in Terminal => Stamped(run, seen, next).finished
         /\ next \notin Terminal => Stamped(run, seen, next).finished = run.finished
  <1>1. next \in Statuses
    BY AllowedNext
  <1> QED
    BY <1>1 DEF Stamped, Run, Statuses, Active, Terminal

\* The states of a process an operation goes through.
LEMMA ProcessStates ==
  /\ Idle \in Process /\ Idle.at = "idle"
  /\ Down \in Process /\ Down.at = "down"
  /\ \A op \in Operations : /\ Begun(op) \in Process
                            /\ Begun(op).at = "look"
                            /\ Begun(op).op = op
  /\ \A place \in {"trade", "bought", "sold"} :
       Evaluating(place) \in Process /\ Evaluating(place).at = place
  <1>1. Idle \in Process /\ Idle.at = "idle"
    BY DEF Idle, Process, Run, NoRun, Statuses, Active, Terminal
  <1>2. Idle = [at |-> "idle", op |-> Idle.op, run |-> Idle.run, next |-> Idle.next,
                seen |-> Idle.seen, fresh |-> Idle.fresh]
    BY DEF Idle
  <1>3. "evaluate" \in Operations
    BY DEF Operations, Ensuring
  <1> QED
    BY <1>1, <1>2, <1>3 DEF Down, Begun, Evaluating, Process

\* Only who stops a bot, or shuts down, has something to end.
LEMMA NothingToEnd ==
  /\ Idle.op \notin Ending /\ Down.op \notin Ending
  /\ \A place : Evaluating(place).op \notin Ending
  /\ \A state : Ensured(state).op \notin Ending
  /\ \A op \in Ensuring \cup {"create", "patch"} : op \notin Ending
  BY DEF Idle, Down, Evaluating, Ensured, Ending, Ensuring

\* Where an operation goes when it has its run, or is done.
LEMMA Exits ==
  ASSUME NEW state \in Process
  PROVE  /\ Ended(state) \in {Idle, Down}
         /\ Ensured(state) \in Process
         /\ Ensured(state).at \in {"idle", "trade"}
  BY ProcessStates DEF Ended, Ensured, Process, Evaluating

LEMMA InitIInv == Init => IInv
  <1> SUFFICES ASSUME Init PROVE IInv
    OBVIOUS
  <1>1. TypeOK
    <2>1. NoRun \in Run
      BY DEF NoRun, Run
    <2>2. runs \in [RunIds -> Run] /\ ends \in [RunIds -> SUBSET Terminal]
      BY <2>1 DEF Init
    <2>3. process \in [Processes -> Process]
      BY ProcessStates DEF Init
    <2>4. position \in BOOLEAN /\ overlap \in BOOLEAN
      BY Zenon DEF Init
    <2>5. /\ quiet \in 0..Cooldown /\ noted \in 0..Cooldown
          /\ requests \in 0..MaxRequests /\ crashes \in 0..MaxCrashes
      BY BoundAssumption DEF Init
    <2>6. /\ status \in {"draft", "active", "paused", "deleted"}
          /\ profile \in {"missing", "disabled", "enabled"}
      BY DEF Init
    <2> QED
      BY <2>2, <2>3, <2>4, <2>5, <2>6 DEF TypeOK
  <1>2. ReadsStand /\ EndingCancels /\ NoOrphans /\ AloneAtWork /\ CooldownKnown
    BY ProcessStates, NothingToEnd DEF Init, EndingCancels, NoOrphans, ReadsStand, AloneAtWork, CooldownKnown, Busy
  <1>3. OneActiveRun /\ StampsFit /\ EventsAgree
    BY DEF Init, OneActiveRun, StampsFit, EventsAgree, InProgress, NoRun, Active, Terminal
  <1> QED
    BY <1>1, <1>2, <1>3 DEF IInv

-----------------------------------------------------------------------------
\* A step of one process that writes no run, no event and no fill of a sell
\* preserves the invariant if the place it comes to fits the rows.
LEMMA MoveIInv ==
  ASSUME IInv, TypeOK',
         NEW p \in Processes, NEW state \in Process,
         process' = [process EXCEPT ![p] = state],
         UNCHANGED <<runs, ends, quiet, noted>>,
         status' = "deleted" <=> status = "deleted",
         state.op \in Ending =>
           \/ state.at = "look"
           \/ state.at \in {"write", "report"} /\ state.next = "cancelled",
         overlap => overlap',
         state.at \notin {"idle", "down"} /\ ~overlap' =>
           \A q \in Processes \ {p} : ~Busy(q),
         process[p].at = "sold" => status' = "deleted" \/ crashes' > 0,
         crashes' = 0 => crashes = 0,
         status' # "deleted" =>
           /\ state.at \in {"note", "read", "write", "report"} =>
                state.run \in RunIds /\ runs[state.run].status # "none"
           /\ state.at = "write" =>
                /\ state.next \in Allowed(state.seen.status)
                /\ state.seen = runs[state.run]
           /\ ~overlap' => /\ state.at = "insert" => \A r \in RunIds : ~InProgress(r)
                           /\ state.at # "report"
  PROVE  IInv'
  <1>1. process'[p] = state /\ \A q \in Processes \ {p} : process'[q] = process[q]
    BY DEF IInv, TypeOK
  <1>2. ReadsStand' /\ EndingCancels' /\ NoOrphans'
    BY <1>1 DEF IInv, ReadsStand, EndingCancels, NoOrphans, InProgress
  <1>3. AloneAtWork'
    BY <1>1 DEF IInv, AloneAtWork, Busy, InProgress
  <1>4. CooldownKnown'
    BY <1>1 DEF IInv, CooldownKnown, TypeOK
  <1>5. OneActiveRun' /\ StampsFit' /\ EventsAgree'
    BY DEF IInv, OneActiveRun, StampsFit, EventsAgree, InProgress
  <1> QED
    BY <1>2, <1>3, <1>4, <1>5 DEF IInv

-----------------------------------------------------------------------------
(* Requests                                                                *)

\* The counters a request moves.
LEMMA ReceivesType ==
  ASSUME IInv, NEW p \in Processes, Receives(p)
  PROVE  /\ process[p].at = "idle" /\ status # "deleted"
         /\ overlap' \in BOOLEAN /\ (overlap => overlap')
         /\ ~overlap' => \A q \in Processes \ {p} : ~Busy(q)
         /\ requests' \in 0..MaxRequests
         /\ crashes' = crashes
  <1>1. overlap' = (overlap \/ \E q \in Processes \ {p} : Busy(q))
    BY DEF Receives, Meets
  <1>2. /\ overlap' \in BOOLEAN /\ (overlap => overlap')
        /\ ~overlap' => \A q \in Processes \ {p} : ~Busy(q)
    BY <1>1, Zenon
  <1>3. requests' \in 0..MaxRequests
    BY BoundAssumption DEF IInv, TypeOK, Receives
  <1> QED
    BY <1>2, <1>3 DEF Receives

\* An idle process takes a request that makes it look for the run.
LEMMA BeginIInv ==
  ASSUME IInv, NEW p \in Processes, Start(p) \/ Resume(p) \/ Stop(p)
  PROVE  IInv'
  <1>0. Receives(p)
    BY DEF Start, Resume, Stop
  <1> PICK op \in {"start", "resume", "stop"} : Becomes(p, Begun(op))
    BY DEF Start, Resume, Stop
  <1> USE DEF Becomes
  <1>1. Begun(op) \in Process /\ Begun(op).at = "look"
    BY ProcessStates DEF Operations, Ensuring, Ending
  <1>2. TypeOK'
    BY <1>0, ReceivesType, <1>1 DEF IInv, TypeOK, Start, Resume, Stop
  <1> QED
    BY <1>1, <1>2, <1>0, ReceivesType, MoveIInv DEF Start, Resume, Stop

LEMMA CreateRunIInv ==
  ASSUME IInv, NEW p \in Processes, CreateRun(p)
  PROVE  IInv'
  <1>0. Receives(p)
    BY DEF CreateRun
  <1> DEFINE state == [Begun("create") EXCEPT !.at = "check"]
  <1>1. state \in Process /\ state.at = "check" /\ state.op \notin Ending
    BY ProcessStates, NothingToEnd DEF Operations, Process
  <1> HIDE DEF state
  <1>2. Becomes(p, state)
    BY DEF CreateRun, state
  <1> USE DEF Becomes
  <1>3. TypeOK'
    BY <1>0, ReceivesType, <1>1, <1>2 DEF IInv, TypeOK, CreateRun
  <1> QED
    BY <1>1, <1>2, <1>3, <1>0, ReceivesType, MoveIInv DEF CreateRun

LEMMA PatchRunIInv ==
  ASSUME IInv, NEW p \in Processes, PatchRun(p)
  PROVE  IInv'
  <1>0. Receives(p)
    BY DEF PatchRun
  <1> PICK r \in RunIds \ Unused, next \in {"running", "succeeded", "cancelled"} :
        Becomes(p, [Begun("patch") EXCEPT !.at = "read", !.run = r, !.next = next])
    BY DEF PatchRun
  <1> DEFINE state == [Begun("patch") EXCEPT !.at = "read", !.run = r, !.next = next]
  <1>1. /\ state \in Process /\ state.at = "read" /\ state.run = r
        /\ state.op = "patch" /\ state.op \notin Ending
    <2>1. /\ "patch" \in Operations \ Ending /\ next \in Statuses
          /\ r \in RunIds \cup {0} /\ "read" \in {"look", "read"}
      BY DEF Operations, Ending, Statuses, Active, Terminal
    <2>2. Begun("patch") \in Process /\ Begun("patch").op = "patch"
      BY <2>1, ProcessStates
    <2> QED
      BY <2>1, <2>2 DEF Process
  <1>2. runs[r].status # "none"
    BY DEF Unused
  <1> HIDE DEF state
  <1>3. Becomes(p, state)
    BY DEF state
  <1> USE DEF Becomes
  <1>4. TypeOK'
    BY <1>0, ReceivesType, <1>1, <1>3 DEF IInv, TypeOK, PatchRun
  <1>5. UNCHANGED <<runs, ends, quiet, noted, status>>
    BY DEF PatchRun
  <1>6. /\ process[p].at = "idle" /\ crashes' = crashes /\ (overlap => overlap')
        /\ ~overlap' => \A q \in Processes \ {p} : ~Busy(q)
    BY <1>0, ReceivesType
  <1> QED
    BY <1>1, <1>2, <1>3, <1>4, <1>5, <1>6, MoveIInv

LEMMA ShutdownIInv ==
  ASSUME IInv, NEW p \in Processes, Shutdown(p)
  PROVE  IInv'
  <1>0. Receives(p)
    BY DEF Shutdown
  <1> PICK state \in {Begun("shutdown"), Down} : Becomes(p, state)
    BY DEF Shutdown
  <1>1. /\ state \in Process /\ state.at \in {"look", "down"}
        /\ state.op \in Ending => state.at = "look"
    BY ProcessStates, NothingToEnd DEF Operations, Ending
  <1> USE DEF Becomes
  <1>2. TypeOK'
    BY <1>0, ReceivesType, <1>1 DEF IInv, TypeOK, Shutdown
  <1> QED
    BY <1>1, <1>2, <1>0, ReceivesType, MoveIInv DEF Shutdown

\* A process that is started again, and one that starts an evaluation.
LEMMA BootIInv ==
  ASSUME IInv, NEW p \in Processes, Boot(p)
  PROVE  IInv'
  <1>1. TypeOK'
    BY ProcessStates DEF IInv, TypeOK, Boot, Becomes
  <1> QED
    BY <1>1, ProcessStates, NothingToEnd, MoveIInv DEF Boot, Becomes

LEMMA EvaluateIInv ==
  ASSUME IInv, NEW p \in Processes, Evaluate(p)
  PROVE  IInv'
  <1>1. Begun("evaluate") \in Process /\ Begun("evaluate").at = "look"
    BY ProcessStates DEF Operations, Ensuring
  <1>2. overlap' = (overlap \/ \E q \in Processes \ {p} : Busy(q))
    BY DEF Evaluate, Meets
  <1>3. /\ overlap' \in BOOLEAN /\ (overlap => overlap')
        /\ ~overlap' => \A q \in Processes \ {p} : ~Busy(q)
    BY <1>2, Zenon
  <1>4. TypeOK'
    BY <1>1, <1>3 DEF IInv, TypeOK, Evaluate, Becomes
  <1> QED
    BY <1>1, <1>3, <1>4, MoveIInv DEF Evaluate, Becomes

\* Bot and profile are changed in one transaction.
LEMMA ConfigureIInv ==
  ASSUME IInv, NEW p \in Processes, SetStatus(p) \/ SetProfile(p)
  PROVE  IInv'
  <1>0. Receives(p)
    BY DEF SetStatus, SetProfile
  <1>1. TypeOK'
    BY <1>0, ReceivesType DEF IInv, TypeOK, SetStatus, SetProfile
  <1>2. ReadsStand' /\ EndingCancels' /\ NoOrphans' /\ AloneAtWork' /\ CooldownKnown'
    BY <1>0, ReceivesType DEF IInv, ReadsStand, EndingCancels, NoOrphans, AloneAtWork,
       CooldownKnown, Busy, InProgress, SetStatus, SetProfile
  <1>3. OneActiveRun' /\ StampsFit' /\ EventsAgree'
    BY <1>0, ReceivesType DEF IInv, OneActiveRun, StampsFit, EventsAgree, InProgress, SetStatus, SetProfile
  <1> QED
    BY <1>1, <1>2, <1>3 DEF IInv

LEMMA DeleteBotIInv ==
  ASSUME IInv, NEW p \in Processes, DeleteBot(p)
  PROVE  IInv'
  <1>0. Receives(p)
    BY DEF DeleteBot
  <1>1. NoRun \in Run /\ NoRun.status = "none"
    BY DEF NoRun, Run
  <1>2. TypeOK'
    BY <1>0, <1>1, ReceivesType DEF IInv, TypeOK, DeleteBot
  <1>3. ReadsStand' /\ EndingCancels' /\ NoOrphans' /\ AloneAtWork' /\ CooldownKnown'
    BY <1>0, <1>1, ReceivesType DEF IInv, ReadsStand, EndingCancels, NoOrphans, AloneAtWork,
       CooldownKnown, Busy, InProgress, DeleteBot, Active
  <1>4. OneActiveRun' /\ StampsFit' /\ EventsAgree'
    BY <1>0, ReceivesType, <1>1 DEF OneActiveRun, StampsFit, EventsAgree, InProgress, DeleteBot, Active, Terminal
  <1> QED
    BY <1>2, <1>3, <1>4 DEF IInv

LEMMA SkipManuallyIInv ==
  ASSUME IInv, NEW p \in Processes, SkipManually(p)
  PROVE  IInv'
  <1>0. Receives(p)
    BY DEF SkipManually
  <1> PICK r \in RunIds : Fresh(r) /\ runs' = [runs EXCEPT ![r] = SkippedRun]
    BY DEF SkipManually
  <1>1. /\ SkippedRun \in Run
        /\ SkippedRun.status = "succeeded"
        /\ SkippedRun.started /\ SkippedRun.finished
    BY DEF SkippedRun, Run, Statuses, Terminal
  <1>2. runs[r].status = "none"
    BY DEF Fresh, Unused
  <1>3. TypeOK'
    BY <1>0, ReceivesType, <1>1 DEF IInv, TypeOK, SkipManually
  <1>4. ReadsStand' /\ EndingCancels' /\ NoOrphans' /\ AloneAtWork' /\ CooldownKnown'
    BY <1>0, ReceivesType, <1>1, <1>2
       DEF IInv, TypeOK, ReadsStand, EndingCancels, NoOrphans, AloneAtWork, CooldownKnown, Busy, InProgress, SkipManually,
           Active
  <1>5. OneActiveRun' /\ StampsFit' /\ EventsAgree'
    BY <1>0, ReceivesType, <1>1, <1>2
       DEF IInv, TypeOK, OneActiveRun, StampsFit, EventsAgree, InProgress, SkipManually, Active,
           Terminal
  <1> QED
    BY <1>3, <1>4, <1>5 DEF IInv

-----------------------------------------------------------------------------
(* The transactions of an operation                                        *)

\* A step of an operation that only reads, or fills a buy.
LEMMA StepIInv ==
  ASSUME IInv, NEW p \in Processes, NEW state \in Process, Busy(p),
         process[p].at # "sold",
         process' = [process EXCEPT ![p] = state],
         UNCHANGED <<runs, ends, quiet, noted, status, profile, overlap, requests, crashes>>,
         position' \in BOOLEAN,
         state.at \in {"note", "read", "write", "report"} =>
           state.run \in RunIds /\ runs[state.run].status # "none",
         state.at = "write" => /\ state.next \in Allowed(state.seen.status)
                               /\ state.seen = runs[state.run],
         state.at = "insert" => \A r \in RunIds : ~InProgress(r),
         state.op \in Ending =>
           \/ state.at = "look"
           \/ state.at = "write" /\ state.next = "cancelled",
         state.at # "report"
  PROVE  IInv'
  <1>1. TypeOK'
    BY DEF IInv, TypeOK
  <1>2. ~overlap => \A q \in Processes \ {p} : ~Busy(q)
    BY DEF IInv, AloneAtWork
  <1> QED
    BY <1>1, <1>2, MoveIInv

\* The place from which a run is updated.
LEMMA ToWrite ==
  ASSUME NEW state \in Process, NEW next \in Allowed(state.seen.status)
  PROVE  LET to == [state EXCEPT !.at = "write", !.next = next]
         IN  /\ to \in Process /\ to.at = "write" /\ to.run = state.run
             /\ to.seen = state.seen /\ to.next = next /\ to.op = state.op
  BY AllowedNext DEF Process

LEMMA LookIInv ==
  ASSUME IInv, NEW p \in Processes, Look(p)
  PROVE  IInv'
  <1> USE DEF At, Elsewhere, Becomes
  <1>0. process[p] \in Process /\ Busy(p) /\ position \in BOOLEAN
    BY DEF IInv, TypeOK, Look, Busy
  <1>1. CASE ActiveRuns = {}
    <2> DEFINE check == [process[p] EXCEPT !.at = "check"]
    <2>1. process' = [process EXCEPT ![p] =
                        IF process[p].op \in Ending THEN Ended(process[p]) ELSE check]
      BY <1>1 DEF Look, ActiveRuns
    <2>2. check \in Process /\ check.at = "check" /\ check.op = process[p].op
      BY <1>0 DEF Process
    <2> HIDE DEF check
    <2>3. CASE process[p].op \in Ending
      <3>1. Ended(process[p]) \in Process /\ Ended(process[p]).at \in {"idle", "down"}
            /\ Ended(process[p]).op \notin Ending
        BY <1>0, Exits, ProcessStates, NothingToEnd
      <3>2. process' = [process EXCEPT ![p] = Ended(process[p])]
        BY <2>1, <2>3
      <3> QED
        BY <1>0, <3>1, <3>2, StepIInv DEF Look
    <2>4. CASE process[p].op \notin Ending
      <3>1. process' = [process EXCEPT ![p] = check]
        BY <2>1, <2>4
      <3> QED
        BY <1>0, <1>1, <2>2, <2>4, <3>1, StepIInv DEF Look
    <2> QED
      BY <2>3, <2>4
  <1>2. CASE ActiveRuns # {}
    <2>1. PICK r \in ActiveRuns :
            LET found == [process[p] EXCEPT !.run = r, !.seen = runs[r]]
            IN  process' = [process EXCEPT ![p] =
                  IF found.op \in Ending
                  THEN [found EXCEPT !.at = "write", !.next = "cancelled"]
                  ELSE IF IsRunning(found.seen)
                  THEN Ensured(found)
                  ELSE [found EXCEPT !.at = "write", !.next = "running"]]
      BY <1>2 DEF Look
    <2> DEFINE found == [process[p] EXCEPT !.run = r, !.seen = runs[r]]
               to(next) == [found EXCEPT !.at = "write", !.next = next]
    <2>2. r \in RunIds /\ runs[r] \in Run /\ runs[r].status \in Active
      BY DEF IInv, TypeOK, ActiveRuns, InProgress
    <2>3. /\ found \in Process /\ found.run = r /\ found.seen = runs[r]
          /\ found.op = process[p].op
      BY <1>0, <2>2 DEF Process
    <2>4. /\ "cancelled" \in Allowed(runs[r].status)
          /\ ~IsRunning(runs[r]) => "running" \in Allowed(runs[r].status)
      BY <2>2 DEF Allowed, Active, Terminal, IsRunning
    <2>5. Ensured(found) \in Process /\ Ensured(found).at \in {"idle", "trade"}
      BY <2>3, Exits
    <2> HIDE DEF found
    <2>6. PICK state : /\ process' = [process EXCEPT ![p] = state]
                       /\ \/ state = Ensured(found)
                          \/ \E next \in Allowed(runs[r].status) :
                               /\ state = to(next)
                               /\ found.op \in Ending => next = "cancelled"
      <3>1. process' = [process EXCEPT ![p] =
                  IF found.op \in Ending
                  THEN to("cancelled")
                  ELSE IF IsRunning(found.seen)
                  THEN Ensured(found)
                  ELSE to("running")]
        BY <2>1 DEF found
      <3>2. CASE found.op \in Ending
        BY <3>1, <3>2, <2>4, Zenon
      <3>3. CASE found.op \notin Ending /\ IsRunning(found.seen)
        BY <3>1, <3>3, Zenon
      <3>4. CASE found.op \notin Ending /\ ~IsRunning(found.seen)
        BY <3>1, <3>4, <2>3, <2>4, Zenon
      <3> QED
        BY <3>2, <3>3, <3>4
    <2>7. runs[r].status # "none"
      BY <2>2 DEF Active
    <2>8. CASE state = Ensured(found)
      BY <1>0, <2>5, <2>6, <2>8, NothingToEnd, StepIInv DEF Look
    <2>9. ASSUME NEW next \in Allowed(runs[r].status), state = to(next),
                 found.op \in Ending => next = "cancelled"
          PROVE  IInv'
      <3>1. /\ state \in Process /\ state.at = "write" /\ state.run = r
            /\ state.seen = runs[r] /\ state.next = next
            /\ state.op = found.op
        BY <2>3, <2>9, ToWrite
      <3> QED
        <4>1. /\ Busy(p) /\ process[p].at # "sold" /\ position' \in BOOLEAN
              /\ UNCHANGED <<runs, ends, quiet, noted, status, profile, overlap, requests, crashes>>
          BY <1>0, <2>2 DEF Look
        <4>2. process' = [process EXCEPT ![p] = state]
          BY <2>6
        <4>3. r \in RunIds /\ state.op \in Ending => state.next = "cancelled"
          BY <2>2, <2>9, <3>1
        <4> QED
          BY <2>2, <2>7, <2>9, <3>1, <4>1, <4>2, <4>3, StepIInv
    <2> QED
      BY <2>6, <2>8, <2>9
  <1> QED
    BY <1>1, <1>2

LEMMA CheckIInv ==
  ASSUME IInv, NEW p \in Processes, Check(p)
  PROVE  IInv'
  <1> USE DEF At, Elsewhere, Becomes
  <1> DEFINE state == IF MayCreate THEN [process[p] EXCEPT !.at = "insert"] ELSE Idle
  <1>1. /\ state \in Process
        /\ state.at \in {"idle", "insert"}
        /\ state.at = "insert" => \A r \in RunIds : ~InProgress(r)
        /\ state.op \in {"none", process[p].op}
    BY ProcessStates DEF IInv, TypeOK, Process, MayCreate, ActiveRuns, Idle
  <1>2. process' = [process EXCEPT ![p] = state]
    BY DEF Check
  <1> HIDE DEF state
  <1>3. Busy(p) /\ position' \in BOOLEAN
    BY DEF Check, Busy, IInv, TypeOK
  <1>4. process[p].op \notin Ending /\ "none" \notin Ending
    BY DEF Check, IInv, EndingCancels, Ending
  <1> QED
    BY <1>1, <1>2, <1>3, <1>4, StepIInv DEF Check

LEMMA InsertIInv ==
  ASSUME IInv, NEW p \in Processes, Insert(p)
  PROVE  IInv'
  <1> USE DEF At, Elsewhere, Becomes
  <1> PICK r \in RunIds :
        /\ Fresh(r)
        /\ runs' = [runs EXCEPT ![r] = RequestedRun]
        /\ process' = [process EXCEPT ![p] = [process[p] EXCEPT !.at = "note", !.run = r]]
    BY DEF Insert
  <1> DEFINE state == [process[p] EXCEPT !.at = "note", !.run = r]
  <1>1. /\ RequestedRun \in Run /\ RequestedRun.status = "requested"
        /\ ~RequestedRun.started /\ ~RequestedRun.finished
    BY DEF RequestedRun, NoRun, Run, Statuses, Active
  <1>2. runs[r].status = "none"
    BY DEF Fresh, Unused
  <1>3. /\ state \in Process /\ state.at = "note" /\ state.run = r
        /\ state.op = process[p].op
    BY DEF IInv, TypeOK, Process
  <1> HIDE DEF state
  <1>4. /\ process' = [process EXCEPT ![p] = state] /\ process'[p] = state
        /\ \A q \in Processes \ {p} : process'[q] = process[q]
    BY DEF IInv, TypeOK, state
  <1>5. TypeOK'
    BY <1>1, <1>3, <1>4 DEF IInv, TypeOK, Insert
  <1>6. Busy(p)
    BY DEF Insert, Busy
  <1>7. ReadsStand'
    BY <1>1, <1>2, <1>3, <1>4 DEF IInv, TypeOK, ReadsStand, Insert
  <1>10. EndingCancels' /\ NoOrphans'
    BY <1>3, <1>4 DEF IInv, EndingCancels, NoOrphans, Insert
  <1>8. AloneAtWork' /\ CooldownKnown'
    BY <1>3, <1>4, <1>6 DEF IInv, AloneAtWork, CooldownKnown, Busy, Insert
  <1>9. OneActiveRun' /\ StampsFit' /\ EventsAgree'
    <2>1. ~overlap => \A q \in RunIds : ~InProgress(q)
      BY <1>6 DEF IInv, AloneAtWork, Insert
    <2> QED
      BY <1>1, <1>2, <2>1
         DEF IInv, TypeOK, OneActiveRun, StampsFit, EventsAgree, InProgress, Insert, Active,
             Terminal
  <1> QED
    BY <1>5, <1>7, <1>8, <1>9, <1>10 DEF IInv

LEMMA NoteRequestIInv ==
  ASSUME IInv, NEW p \in Processes, NoteRequest(p)
  PROVE  IInv'
  <1> USE DEF At, Elsewhere, Becomes
  <1> DEFINE state == IF process[p].op = "create"
                      THEN Idle
                      ELSE [process[p] EXCEPT !.at = "read", !.next = "running"]
  <1>1. /\ state \in Process
        /\ state.at \in {"idle", "read"}
        /\ state.at = "read" => state.run = process[p].run
        /\ state.op \in {"none", process[p].op}
    <2>1. process[p] \in Process /\ "running" \in Statuses
      BY DEF IInv, TypeOK, Statuses, Active
    <2>2. CASE process[p].op = "create"
      BY <2>2, ProcessStates DEF Idle
    <2>3. CASE process[p].op # "create"
      BY <2>1, <2>3 DEF Process
    <2> QED
      BY <2>2, <2>3
  <1>2. process' = [process EXCEPT ![p] = state]
    BY DEF NoteRequest
  <1> HIDE DEF state
  <1>3. Busy(p) /\ position' \in BOOLEAN
    BY DEF NoteRequest, Busy, IInv, TypeOK
  <1>4. process[p].run \in RunIds /\ runs[process[p].run].status # "none"
    BY DEF NoteRequest, IInv, ReadsStand
  <1>5. process[p].op \notin Ending /\ "none" \notin Ending
    BY DEF NoteRequest, IInv, EndingCancels, Ending
  <1> QED
    BY <1>1, <1>2, <1>3, <1>4, <1>5, StepIInv DEF NoteRequest

LEMMA ReadIInv ==
  ASSUME IInv, NEW p \in Processes, Read(p)
  PROVE  IInv'
  <1> USE DEF At, Elsewhere, Becomes
  <1> DEFINE seen == runs[process[p].run]
             again == [process[p] EXCEPT !.fresh = TRUE]
             to == [process[p] EXCEPT !.at = "write", !.seen = seen]
  <1>1. /\ process[p] \in Process /\ process[p].run \in RunIds
        /\ seen \in Run /\ seen.status # "none"
        /\ Busy(p) /\ position' \in BOOLEAN
    BY DEF Read, IInv, TypeOK, ReadsStand, Busy
  <1>2. Ensured(again) \in Process /\ Ensured(again).at \in {"idle", "trade"}
    <2>1. again \in Process
      BY <1>1 DEF Process
    <2> QED
      BY <2>1, Exits
  <1>3. /\ to \in Process /\ to.at = "write" /\ to.run = process[p].run
        /\ to.seen = seen /\ to.next = process[p].next
        /\ to.op = process[p].op /\ process[p].op \notin Ending
    BY <1>1 DEF Process, Read, IInv, EndingCancels
  <1>4. process' = [process EXCEPT ![p] =
           IF process[p].next \in Allowed(seen.status)
           THEN to
           ELSE IF process[p].next = seen.status /\ process[p].op # "patch"
           THEN Ensured(again)
           ELSE Idle]
    BY DEF Read
  <1> HIDE DEF again, to
  <1>5. CASE process[p].next \in Allowed(seen.status)
    <2>1. process' = [process EXCEPT ![p] = to]
      BY <1>4, <1>5
    <2> QED
      BY <1>1, <1>3, <1>5, <2>1, StepIInv DEF Read
  <1>6. CASE process[p].next \notin Allowed(seen.status)
    <2>1. PICK state \in {Idle, Ensured(again)} : process' = [process EXCEPT ![p] = state]
      BY <1>4, <1>6
    <2>2. state \in Process /\ state.at \in {"idle", "trade"} /\ state.op \notin Ending
      BY <1>2, ProcessStates, NothingToEnd
    <2> QED
      BY <1>1, <2>1, <2>2, StepIInv DEF Read
  <1> QED
    BY <1>5, <1>6

\* The update of a run.
LEMMA WriteIInv ==
  ASSUME IInv, NEW p \in Processes, Write(p)
  PROVE  IInv'
  <1> USE DEF At, Elsewhere, Becomes
  <1> DEFINE r == process[p].run
             new == Stamped(runs[r], process[p].seen, process[p].next)
             state == [process[p] EXCEPT !.at = "report", !.seen = NoRun]
  <1>1. /\ process[p] \in Process /\ r \in RunIds /\ runs[r] \in Run
        /\ runs[r].status # "none" /\ Busy(p)
        /\ process[p].seen \in Run
        /\ process[p].next \in Allowed(process[p].seen.status)
        /\ process[p].seen.started => runs[r].started
        /\ process[p].seen.finished => runs[r].finished
    BY DEF Write, IInv, TypeOK, ReadsStand, Busy, Process
  <1>2. /\ new \in Run /\ new.status = process[p].next
        /\ runs[r].started => new.started
        /\ runs[r].finished => new.finished
        /\ process[p].next = "running" => new.started
        /\ process[p].next \in Terminal => new.finished
        /\ process[p].next \notin Terminal => new.finished = runs[r].finished
    BY <1>1, StampedRun
  <1>3. /\ state \in Process /\ state.at = "report" /\ state.run = r
        /\ state.next = process[p].next /\ state.op = process[p].op
    BY <1>1 DEF Process, NoRun, Run
  <1>4. runs' = [runs EXCEPT ![r] = new] /\ process' = [process EXCEPT ![p] = state]
    BY DEF Write
  <1> HIDE DEF new, state
  <1>5. /\ process'[p] = state /\ \A q \in Processes \ {p} : process'[q] = process[q]
        /\ runs'[r] = new /\ \A q \in RunIds \ {r} : runs'[q] = runs[q]
    BY <1>1, <1>4 DEF IInv, TypeOK
  <1>6. TypeOK'
    BY <1>1, <1>2, <1>3, <1>4 DEF IInv, TypeOK, Write
  <1>7. new.status \in {"running"} \cup Terminal /\ process[p].seen.status \in Active
    BY <1>1, <1>2, AllowedNext
  <1>8. ReadsStand'
    BY <1>1, <1>2, <1>3, <1>5, <1>7 DEF IInv, ReadsStand, Write, Terminal
  <1>9. ~overlap => runs[r] = process[p].seen /\ \A q \in Processes \ {p} : ~Busy(q)
    BY <1>1 DEF IInv, AloneAtWork, Write
  <1>10. ~overlap => \A q \in RunIds : InProgress(q) => q = r
    BY <1>1, <1>7, <1>9 DEF IInv, OneActiveRun, InProgress
  <1>11. AloneAtWork'
    <2>1. ASSUME ~overlap PROVE \A q \in Processes : Busy(q)' => q = p
      BY <1>5, <1>9, <2>1 DEF Busy
    <2>2. ASSUME ~overlap, process[p].op \in Ending
          PROVE  \A q \in RunIds : ~InProgress(q)'
      <3>1. process[p].next \in Terminal
        BY <2>2 DEF IInv, EndingCancels, Write, Terminal
      <3> QED
        BY <1>2, <1>5, <1>10, <2>2, <3>1 DEF InProgress, Active, Terminal
    <2> QED
      BY <1>2, <1>3, <1>5, <2>1, <2>2 DEF AloneAtWork, Write
  <1>12. CooldownKnown'
    BY <1>5 DEF IInv, CooldownKnown, Write
  <1>16. EndingCancels' /\ NoOrphans'
    BY <1>3, <1>5 DEF IInv, EndingCancels, NoOrphans, Write
  <1>13. OneActiveRun'
    BY <1>5, <1>10 DEF OneActiveRun, InProgress, Write
  <1>14. StampsFit'
    BY <1>1, <1>2, <1>5, <1>7, <1>9 DEF IInv, StampsFit, Write, Active, Terminal
  <1>15. EventsAgree'
    BY <1>1, <1>5, <1>7, <1>9 DEF IInv, TypeOK, EventsAgree, Write, Active, Terminal
  <1> QED
    BY <1>6, <1>8, <1>11, <1>12, <1>13, <1>14, <1>15, <1>16 DEF IInv

\* The event of an update.
LEMMA ReportIInv ==
  ASSUME IInv, NEW p \in Processes, Report(p)
  PROVE  IInv'
  <1> USE DEF At, Elsewhere, Becomes
  <1> DEFINE again == [process[p] EXCEPT !.fresh = TRUE]
             r == process[p].run
  <1>1. /\ process[p] \in Process /\ Busy(p) /\ again \in Process
        /\ r \in RunIds /\ runs[r].status # "none"
    BY DEF Report, IInv, TypeOK, ReadsStand, Busy, Process
  <1> HIDE DEF again
  <1>2. PICK state \in {Ensured(again), Ended(process[p])} :
          process' = [process EXCEPT ![p] = state]
    BY DEF Report, again
  <1>3. state \in Process /\ state.at \in {"idle", "down", "trade"} /\ state.op \notin Ending
    BY <1>1, Exits, ProcessStates, NothingToEnd
  <1>4. ends' = [ends EXCEPT ![r] = @ \cup ({process[p].next} \cap Terminal)]
    BY DEF Report
  <1>5. TypeOK'
    BY <1>1, <1>2, <1>3, <1>4 DEF IInv, TypeOK, Report
  <1>6. process'[p] = state /\ \A q \in Processes \ {p} : process'[q] = process[q]
    BY <1>2 DEF IInv, TypeOK
  <1>7. ReadsStand' /\ EndingCancels' /\ NoOrphans'
    <2>1. runs' = runs /\ status' = status
      BY DEF Report
    <2>2. ReadsStand'
      BY <1>3, <1>6, <2>1 DEF IInv, ReadsStand
    <2>3. EndingCancels'
      BY <1>3, <1>6 DEF IInv, EndingCancels
    <2>4. NoOrphans'
      BY <2>1 DEF IInv, NoOrphans, InProgress
    <2> QED
      BY <2>2, <2>3, <2>4
  <1>8. AloneAtWork' /\ CooldownKnown'
    <2>1. AloneAtWork'
      <3>1. ~overlap => \A q \in Processes : Busy(q) => p = q
        BY <1>1 DEF IInv, AloneAtWork
      <3>2. \A q \in Processes \ {p} : Busy(q)' <=> Busy(q)
        BY <1>6 DEF Busy
      <3>3. overlap' = overlap /\ process'[p].at \in {"idle", "down", "trade"}
        BY <1>3, <1>6 DEF Report
      <3> QED
        BY <3>1, <3>2, <3>3 DEF AloneAtWork
    <2>2. CooldownKnown'
      BY <1>1, <1>3, <1>6 DEF IInv, CooldownKnown, Busy, InProgress, Report
    <2> QED
      BY <2>1, <2>2
  <1>9. OneActiveRun' /\ StampsFit'
    BY DEF IInv, OneActiveRun, StampsFit, InProgress, Report
  <1>10. EventsAgree'
    <2>1. ~overlap => runs[r].status = process[p].next
      BY <1>1 DEF IInv, AloneAtWork, Report
    <2>2. \A q \in RunIds : ends'[q] \subseteq ends[q] \cup
            (IF q = r THEN {process[p].next} ELSE {})
      BY <1>4 DEF IInv, TypeOK
    <2> QED
      BY <2>1, <2>2 DEF IInv, EventsAgree, Report
  <1> QED
    BY <1>5, <1>7, <1>8, <1>9, <1>10 DEF IInv

\* An evaluation that trades nothing, and one that buys.
LEMMA HoldIInv ==
  ASSUME IInv, NEW p \in Processes, Hold(p)
  PROVE  IInv'
  <1>1. Busy(p) /\ position' \in BOOLEAN
    BY DEF Hold, At, Elsewhere, Busy, IInv, TypeOK
  <1> QED
    BY <1>1, ProcessStates, NothingToEnd, StepIInv DEF Hold, At, Elsewhere, Becomes

LEMMA BuyIInv ==
  ASSUME IInv, NEW p \in Processes, Buy(p)
  PROVE  IInv'
  <1>1. Busy(p) /\ position' \in BOOLEAN
    BY DEF Buy, At, Elsewhere, Busy, IInv, TypeOK
  <1>2. Evaluating("bought") \in Process /\ Evaluating("bought").at = "bought"
    BY ProcessStates
  <1>3. Evaluating("bought").op \notin Ending
    BY NothingToEnd
  <1> QED
    BY <1>1, <1>2, <1>3, StepIInv DEF Buy, At, Elsewhere, Becomes

\* The fill of a sell, and the event of a fill.
LEMMA SellIInv ==
  ASSUME IInv, NEW p \in Processes, Sell(p)
  PROVE  IInv'
  <1> USE DEF At, Elsewhere, Becomes
  <1>1. /\ Evaluating("sold") \in Process /\ Evaluating("sold").at = "sold"
        /\ Evaluating("sold").op \notin Ending
    BY ProcessStates, NothingToEnd
  <1>2. process'[p] = Evaluating("sold") /\ \A q \in Processes \ {p} : process'[q] = process[q]
    BY DEF IInv, TypeOK, Sell
  <1>3. TypeOK'
    <2>1. quiet' \in 0..Cooldown
      <3>1. quiet' = Cooldown
        BY DEF Sell
      <3> QED
        BY <3>1, BoundAssumption
    <2>4. position' \in BOOLEAN
      BY Zenon DEF Sell
    <2>2. process' \in [Processes -> Process]
      BY <1>1 DEF IInv, TypeOK, Sell
    <2>3. UNCHANGED <<runs, ends, noted, status, profile, overlap, requests, crashes>>
      BY DEF Sell
    <2> QED
      BY <2>1, <2>2, <2>3, <2>4 DEF IInv, TypeOK
  <1>4. ReadsStand' /\ EndingCancels' /\ NoOrphans'
    BY <1>1, <1>2 DEF IInv, ReadsStand, EndingCancels, NoOrphans, InProgress, Sell
  <1>5. Busy(p)
    BY DEF Sell, Busy
  <1>6. AloneAtWork'
    BY <1>1, <1>2, <1>5 DEF IInv, AloneAtWork, Busy, InProgress, Sell
  <1>7. CooldownKnown'
    BY <1>1, <1>2 DEF CooldownKnown
  <1>8. OneActiveRun' /\ StampsFit' /\ EventsAgree'
    BY DEF IInv, OneActiveRun, StampsFit, EventsAgree, InProgress, Sell
  <1> QED
    BY <1>3, <1>4, <1>6, <1>7, <1>8 DEF IInv

LEMMA NoteFillIInv ==
  ASSUME IInv, NEW p \in Processes, NoteFill(p)
  PROVE  IInv'
  <1> USE DEF At, Elsewhere, Becomes
  <1>1. process[p].at \in {"bought", "sold"} /\ Busy(p)
    BY DEF NoteFill, Busy
  <1>2. process'[p] = Idle /\ \A q \in Processes \ {p} : process'[q] = process[q]
    BY DEF IInv, TypeOK, NoteFill
  <1>3. noted' = IF process[p].at = "sold" THEN Cooldown ELSE noted
    BY DEF NoteFill, NotedAfter
  <1>4. TypeOK'
    BY <1>3, ProcessStates, BoundAssumption DEF IInv, TypeOK, NoteFill
  <1>5. ReadsStand' /\ EndingCancels' /\ NoOrphans'
    BY <1>2, ProcessStates, NothingToEnd
       DEF IInv, ReadsStand, EndingCancels, NoOrphans, InProgress, NoteFill
  <1>6. AloneAtWork'
    BY <1>1, <1>2, ProcessStates DEF IInv, AloneAtWork, Busy, InProgress, NoteFill
  <1>7. CooldownKnown'
    <2>1. CASE process[p].at = "sold"
      <3>1. quiet' <= noted'
        BY <1>3, <2>1, BoundAssumption DEF IInv, TypeOK, NoteFill
      <3> QED
        BY <3>1 DEF CooldownKnown
    <2>2. CASE process[p].at = "bought"
      <3>1. noted' = noted
        BY <1>3, <2>2
      <3>2. \A q \in Processes : process[q].at = "sold" => process'[q].at = "sold"
        BY <1>2, <2>2
      <3> QED
        BY <3>1, <3>2 DEF IInv, CooldownKnown, NoteFill
    <2> QED
      BY <1>1, <2>1, <2>2
  <1>8. OneActiveRun' /\ StampsFit' /\ EventsAgree'
    BY DEF IInv, OneActiveRun, StampsFit, EventsAgree, InProgress, NoteFill
  <1> QED
    BY <1>4, <1>5, <1>6, <1>7, <1>8 DEF IInv

-----------------------------------------------------------------------------
(* Failures and time                                                       *)

LEMMA FailIInv ==
  ASSUME IInv, NEW p \in Processes, Fail(p)
  PROVE  IInv'
  <1>1. crashes' \in 0..MaxCrashes /\ crashes' > 0
    BY BoundAssumption DEF IInv, TypeOK, Fail
  <1>2. TypeOK'
    BY <1>1, ProcessStates DEF IInv, TypeOK, Fail, Becomes
  <1>3. /\ UNCHANGED <<runs, ends, quiet, noted, status, overlap>> /\ Becomes(p, Idle)
        /\ crashes' > 0 /\ crashes' # 0
    BY <1>1 DEF Fail
  <1>4. Idle.op \notin Ending
    BY NothingToEnd
  <1> QED
    BY <1>2, <1>3, <1>4, ProcessStates, MoveIInv DEF Becomes

LEMMA VanishIInv ==
  ASSUME IInv, NEW p \in Processes, Vanish(p)
  PROVE  IInv'
  <1>0. process[p] \in Process
    BY DEF IInv, TypeOK
  <1>1. /\ Ended(process[p]) \in Process /\ Ended(process[p]).at \in {"idle", "down"}
        /\ Ended(process[p]).op \notin Ending
    BY <1>0, Exits, ProcessStates, NothingToEnd
  <1>2. TypeOK'
    BY <1>1 DEF IInv, TypeOK, Vanish, Becomes
  <1> QED
    BY <1>1, <1>2, MoveIInv DEF Vanish, Becomes

LEMMA TickIInv ==
  ASSUME IInv, Tick
  PROVE  IInv'
  <1>1. /\ quiet' \in 0..Cooldown /\ noted' \in 0..Cooldown
        /\ quiet <= noted => quiet' <= noted'
    BY BoundAssumption DEF IInv, TypeOK, Tick
  <1>2. TypeOK'
    BY <1>1 DEF IInv, TypeOK, Tick
  <1>3. ReadsStand' /\ EndingCancels' /\ NoOrphans' /\ AloneAtWork'
    BY DEF IInv, ReadsStand, EndingCancels, NoOrphans, AloneAtWork, Busy, InProgress, Tick
  <1>4. CooldownKnown'
    BY <1>1 DEF IInv, CooldownKnown, Tick
  <1>5. OneActiveRun' /\ StampsFit' /\ EventsAgree'
    BY DEF IInv, OneActiveRun, StampsFit, EventsAgree, InProgress, Tick
  <1> QED
    BY <1>2, <1>3, <1>4, <1>5 DEF IInv

-----------------------------------------------------------------------------
LEMMA NextIInv == IInv /\ [Next]_vars => IInv'
  <1> SUFFICES ASSUME IInv, [Next]_vars PROVE IInv'
    OBVIOUS
  <1>1. ASSUME NEW p \in Processes, Request(p) PROVE IInv'
    BY <1>1, BeginIInv, ConfigureIInv, DeleteBotIInv, CreateRunIInv, PatchRunIInv,
       SkipManuallyIInv, ShutdownIInv DEF Request
  <1>2. ASSUME NEW p \in Processes, Step(p) PROVE IInv'
    BY <1>2, LookIInv, CheckIInv, InsertIInv, NoteRequestIInv, ReadIInv, WriteIInv,
       ReportIInv, HoldIInv, BuyIInv, SellIInv, NoteFillIInv, VanishIInv DEF Step
  <1>3. ASSUME NEW p \in Processes, Evaluate(p) \/ Boot(p) \/ Fail(p) PROVE IInv'
    BY <1>3, EvaluateIInv, BootIInv, FailIInv
  <1>4. CASE UNCHANGED vars
    BY <1>4 DEF vars, IInv, TypeOK, ReadsStand, EndingCancels, NoOrphans, AloneAtWork,
       CooldownKnown, OneActiveRun, StampsFit, EventsAgree, Busy, InProgress
  <1> QED
    BY <1>1, <1>2, <1>3, <1>4, TickIInv DEF Next

-----------------------------------------------------------------------------
(* Theorems                                                                *)

\* The inductive invariant holds in every state of the bot and its runs.
THEOREM Invariance == Spec => []IInv
  <1>1. Init => IInv
    BY InitIInv
  <1>2. IInv /\ [Next]_vars => IInv'
    BY NextIInv
  <1> QED
    BY <1>1, <1>2, PTL DEF Spec

\* Every column, event and process keeps its type.
THEOREM TypeCorrect == Spec => []TypeOK
  <1>1. IInv => TypeOK
    BY DEF IInv
  <1> QED
    BY <1>1, Invariance, PTL

\* While no two operations overlap a bot has one run in progress at most.
THEOREM OneActiveRunAlways == Spec => []OneActiveRun
  <1>1. IInv => OneActiveRun
    BY DEF IInv
  <1> QED
    BY <1>1, Invariance, PTL

\* The stamps of a run fit its status, also after racing updates.
THEOREM StampsFitAlways == Spec => []StampsFit
  <1>1. IInv => StampsFit
    BY DEF IInv
  <1> QED
    BY <1>1, Invariance, PTL

\* The lifecycle events of a run agree with the end it came to.
THEOREM EventsAgreeAlways == Spec => []EventsAgree
  <1>1. IInv => EventsAgree
    BY DEF IInv
  <1> QED
    BY <1>1, Invariance, PTL

-----------------------------------------------------------------------------
\* The action properties as conditions on one step.
RunsEndOnceStep ==
  \A r \in RunIds : ~overlap /\ runs[r].status \in Terminal /\ status' # "deleted"
    => runs'[r] = runs[r]

CooldownKeptStep == ~position /\ position' => quiet = 0 \/ overlap \/ crashes > 0

EndingLeavesNothingStep ==
  \A p \in Processes :
    /\ Busy(p) /\ process[p].op \in Ending /\ ~Busy(p)'
    /\ ~overlap /\ crashes' = crashes
    => \A r \in RunIds : ~InProgress(r)'

\* An ended run is written by nobody: an update decides from the row as it is.
LEMMA RunsEndOnceOfStep == IInv /\ [Next]_vars => RunsEndOnceStep
  <1> SUFFICES ASSUME IInv, [Next]_vars, ~overlap, status' # "deleted",
                      NEW r \in RunIds, runs[r].status \in Terminal
               PROVE  runs'[r] = runs[r]
    BY DEF RunsEndOnceStep
  <1>1. ASSUME NEW p \in Processes, Insert(p) \/ SkipManually(p) PROVE runs'[r] = runs[r]
    <2>1. PICK q \in RunIds : Fresh(q) /\ \E new : runs' = [runs EXCEPT ![q] = new]
      BY <1>1 DEF Insert, SkipManually
    <2>2. q # r
      BY <2>1 DEF Fresh, Unused, Terminal
    <2> QED
      BY <2>1, <2>2 DEF IInv, TypeOK
  <1>2. ASSUME NEW p \in Processes, Write(p) PROVE runs'[r] = runs[r]
    <2>1. runs[process[p].run] = process[p].seen
      BY <1>2 DEF IInv, AloneAtWork, Busy, Write, At
    <2>2. process[p].seen.status \in Active
      <3>1. process[p].next \in Allowed(process[p].seen.status)
        BY <1>2 DEF IInv, ReadsStand, Write, At
      <3> QED
        BY <3>1, AllowedNext
    <2>3. process[p].run # r
      BY <2>1, <2>2 DEF Active, Terminal
    <2> QED
      BY <1>2, <2>3 DEF IInv, TypeOK, Write
  <1>3. ASSUME NEW p \in Processes, DeleteBot(p) PROVE FALSE
    BY <1>3 DEF DeleteBot
  <1>4. CASE UNCHANGED runs
    BY <1>4
  <1>5. \/ UNCHANGED runs
        \/ \E p \in Processes : Insert(p) \/ SkipManually(p) \/ Write(p) \/ DeleteBot(p)
    BY DEF Next, Request, Step, Start, Resume, Stop, SetStatus, SetProfile, CreateRun,
           PatchRun, Shutdown, Boot, Evaluate, Look, Check, NoteRequest, Read, Report, Hold,
           Buy, Sell, NoteFill, Fail, Vanish, Tick, vars
  <1> QED
    BY <1>1, <1>2, <1>3, <1>4, <1>5

\* A buy asks the events, and they know of the cooldown.
LEMMA CooldownKeptOfStep == IInv /\ [Next]_vars => CooldownKeptStep
  <1> SUFFICES ASSUME IInv, [Next]_vars, ~position, position', ~overlap, crashes = 0
               PROVE  quiet = 0
    BY DEF CooldownKeptStep, IInv, TypeOK
  <1>1. PICK p \in Processes : Buy(p)
    BY DEF Next, Request, Step, Start, Resume, Stop, SetStatus, SetProfile, CreateRun,
           PatchRun, Shutdown, Boot, Evaluate, Look, Check, NoteRequest, Read, Report, Hold,
           Sell, NoteFill, Fail, Vanish, Tick, vars, DeleteBot, Insert, SkipManually, Write,
           Elsewhere
  <1>2. status # "deleted" /\ noted = 0 /\ Busy(p) /\ process[p].at # "sold"
    BY <1>1 DEF Buy, At, Busy
  <1>3. \A q \in Processes : process[q].at # "sold"
    BY <1>2 DEF IInv, AloneAtWork, Busy
  <1>4. quiet <= noted
    BY <1>2, <1>3 DEF IInv, CooldownKnown
  <1> QED
    BY <1>2, <1>4, BoundAssumption DEF IInv, TypeOK

\* Who ends runs comes to an end when none is found, after the event of the
\* one it cancelled, or with the bot.
LEMMA EndingLeavesNothingOfStep == IInv /\ [Next]_vars => EndingLeavesNothingStep
  <1> SUFFICES ASSUME IInv, [Next]_vars, NEW p \in Processes,
                      Busy(p), process[p].op \in Ending, ~Busy(p)',
                      ~overlap, crashes' = crashes
               PROVE  \A r \in RunIds : ~InProgress(r)'
    BY DEF EndingLeavesNothingStep
  <1>1. process[p].at \in {"look", "write", "report"}
    BY DEF IInv, EndingCancels
  <1>2. \A q \in Processes : Busy(q) => q = p
    BY DEF IInv, AloneAtWork
  <1>3. process'[p] # process[p]
    BY DEF Busy
  <1>4. /\ ~Fail(p) /\ ~Boot(p) /\ ~Request(p) /\ ~Evaluate(p) /\ ~Tick
    <2>1. ~Fail(p)
      BY DEF Fail, IInv, TypeOK
    <2>2. ~Tick
      BY <1>3 DEF Tick
    <2>3. process[p].at \notin {"idle", "down"}
      BY <1>1
    <2> QED
      BY <2>1, <2>2, <2>3
         DEF Boot, Request, Evaluate, Receives, Start, Resume, Stop, SetStatus, SetProfile,
             DeleteBot, CreateRun, PatchRun, SkipManually, Shutdown
  <1>5. ASSUME NEW q \in Processes, q # p,
               Request(q) \/ Evaluate(q) \/ Step(q) \/ Boot(q) \/ Fail(q)
        PROVE  FALSE
    <2>1. ~Busy(q)
      BY <1>2, <1>5
    <2>2. ~Step(q) /\ ~Fail(q)
      BY <2>1 DEF Busy, Step, At, Look, Check, Insert, NoteRequest, Read, Write, Report,
              Hold, Buy, Sell, NoteFill, Fail, Vanish
    <2>3. process'[p] = process[p] 
      BY <1>5, <2>2
         DEF IInv, TypeOK, Boot, Request, Evaluate, Start, Resume, Stop, SetStatus,
             SetProfile, DeleteBot, CreateRun, PatchRun, SkipManually, Shutdown, Becomes
    <2> QED
      BY <1>3, <2>3
  <1>6. Step(p)
    BY <1>3, <1>4, <1>5 DEF Next, vars
  <1>7. Look(p) \/ Write(p) \/ Report(p) \/ Vanish(p)
    BY <1>1, <1>6 DEF Step, At, Check, Insert, NoteRequest, Read, Hold, Buy, Sell, NoteFill
  <1>8. CASE Look(p)
    <2>1. CASE ActiveRuns = {}
      BY <1>8, <2>1 DEF Look, ActiveRuns, InProgress
    <2>2. CASE ActiveRuns # {}
      <3>1. process[p] \in Process /\ process \in [Processes -> Process]
        BY DEF IInv, TypeOK
      <3>2. PICK r \in ActiveRuns :
              LET found == [process[p] EXCEPT !.run = r, !.seen = runs[r]]
              IN  process' = [process EXCEPT ![p] =
                    IF found.op \in Ending
                    THEN [found EXCEPT !.at = "write", !.next = "cancelled"]
                    ELSE IF IsRunning(found.seen)
                    THEN Ensured(found)
                    ELSE [found EXCEPT !.at = "write", !.next = "running"]]
        BY <1>8, <2>2 DEF Look, Becomes
      <3> DEFINE found == [process[p] EXCEPT !.run = r, !.seen = runs[r]]
                 to == [found EXCEPT !.at = "write", !.next = "cancelled"]
      <3>3. found.op \in Ending /\ to.at = "write"
        BY <3>1 DEF Process
      <3>4. process' = [process EXCEPT ![p] = to]
        BY <3>2, <3>3, Zenon
      <3> HIDE DEF to
      <3>5. process'[p].at = "write"
        BY <3>1, <3>3, <3>4
      <3> QED
        BY <3>5 DEF Busy
    <2> QED
      BY <2>1, <2>2
  <1>9. CASE Write(p)
    <2>1. process'[p].at = "report"
      BY <1>9 DEF Write, Becomes, IInv, TypeOK, Process
    <2> QED
      BY <2>1 DEF Busy
  <1>10. CASE Report(p)
    BY <1>10 DEF Report, At, IInv, AloneAtWork, InProgress
  <1>11. CASE Vanish(p)
    BY <1>11 DEF Vanish, IInv, NoOrphans, InProgress
  <1> QED
    BY <1>7, <1>8, <1>9, <1>10, <1>11

\* While no two operations overlap an ended run stays as it is.
THEOREM RunsEndOnceAlways == Spec => RunsEndOnce
  <1>1. IInv /\ [Next]_vars => [RunsEndOnceStep]_vars
    BY RunsEndOnceOfStep
  <1> QED
    BY <1>1, Invariance, PTL DEF Spec, RunsEndOnce, RunsEndOnceStep

\* Stopping a bot, and shutting down, leave it without a run in progress.
THEOREM EndingLeavesNothingAlways == Spec => EndingLeavesNothing
  <1>1. IInv /\ [Next]_vars => [EndingLeavesNothingStep]_vars
    BY EndingLeavesNothingOfStep
  <1> QED
    BY <1>1, Invariance, PTL DEF Spec, EndingLeavesNothing, EndingLeavesNothingStep

\* A bot does not buy while the cooldown after its sell lasts.
THEOREM CooldownKeptAlways == Spec => CooldownKept
  <1>1. IInv /\ [Next]_vars => [CooldownKeptStep]_vars
    BY CooldownKeptOfStep
  <1> QED
    BY <1>1, Invariance, PTL DEF Spec, CooldownKept, CooldownKeptStep

=============================================================================
