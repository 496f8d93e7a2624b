------------------------- MODULE Simulated_proofs ---------------------------
(***************************************************************************)
(* Theorems of the engine's two simulated executions, for any constants:   *)
(* of the sessions on mock wallets, of the backtests, and of the two       *)
(* looked at together.                                                     *)
(*                                                                         *)
(* Those of mock trading rest on what the jobs of the tasks and of the     *)
(* reconcile loop are: a job is about a session, an open has a direction,  *)
(* and a job that will mark its session closed works for a close that was  *)
(* asked for. The polled copy of the sessions and the pass over it may be  *)
(* stale, but a close is never taken back, so what they say of one stays   *)
(* true.                                                                   *)
(*                                                                         *)
(* Those of the backtests rest on the position the next await is about;    *)
(* the pace of the funding on where the clock and the next sweep stand at  *)
(* each await, and on the line: a run that has not been claimed has paid   *)
(* nothing, and no run is in the line twice.                               *)
(***************************************************************************)
EXTENDS MCSimulated, TLAPS

(* Mock trading.                                                           *)

Jobs == [at: {"idle", "decide", "open", "close", "commit", "mark"},
         why: {"none", "cycle", "soft", "hard", "auto", "sweep", "stop"},
         s: Actor, cur: Directions \cup {0}, dir: Directions \cup {0}]

\* A close of s was asked for.
Closing(s) == status[s] \in {"soft", "hard", "closed"}

\* The jobs that end by marking their session closed.
Ends == {"soft", "hard", "sweep"}

Sound(j) ==
  /\ j \in Jobs
  /\ j.at # "idle" => j.s \in Session
  /\ j.at = "open" => j.dir # 0
  /\ j.at = "mark" => j.why \in Ends
  /\ j.at # "idle" /\ j.why \in Ends => Closing(j.s)

JobInv ==
  /\ op \in [Actor -> Jobs]
  /\ \A a \in Actor : Sound(op[a])

CopyInv ==
  /\ \A s \in Session : store[s] \in {"soft", "hard"} => Closing(s)
  /\ pass.at = "sweep" => \A s \in pass.todo : Closing(s)

Inv == TypeOK /\ JobInv /\ CopyInv /\ NothingVanishes

Counted == failures \in 0..Threshold

-----------------------------------------------------------------------------
(* What the ends of an operation leave behind.                             *)

LEMMA IdleSound == Sound(Idle)
BY DEF Sound, Idle, Jobs, Actor

\* An actor that takes a sound job leaves every job sound.
LEMMA JobTaken ==
  ASSUME JobInv, NEW a \in Actor, NEW j, Sound(j), Job(a, j), UNCHANGED status
  PROVE  JobInv'
BY DEF JobInv, Job, Sound, Closing

\* Moving a job on keeps it sound, if its next step does not ask for more.
LEMMA GotoTaken ==
  ASSUME JobInv, NEW a \in Actor, op[a].at # "idle", Goto(a, "commit"), UNCHANGED status
  PROVE  JobInv'
BY DEF JobInv, Goto, Sound, Closing, Jobs

LEMMA OpenTaken ==
  ASSUME JobInv, NEW a \in Actor, op[a].at # "idle", op[a].dir # 0, Goto(a, "open"),
         UNCHANGED status
  PROVE  JobInv'
BY DEF JobInv, Goto, Sound, Closing, Jobs

LEMMA MarkTaken ==
  ASSUME JobInv, NEW a \in Actor, op[a].at # "idle", op[a].why \in Ends, Goto(a, "mark"),
         UNCHANGED status
  PROVE  JobInv'
BY DEF JobInv, Goto, Sound, Closing, Jobs

LEMMA SucceedEnds ==
  ASSUME JobInv, NEW a \in Actor, op[a].at # "idle", Succeed(a), UNCHANGED status
  PROVE  JobInv' /\ Counted'
<1>1. Counted'
  BY MockAssumption DEF Succeed, Counted
<1>2. CASE op[a].why = "soft"
  <2>1. Goto(a, "mark") /\ op[a].why \in Ends
    BY <1>2 DEF Succeed, Ends
  <2> QED BY <1>1, <2>1, MarkTaken
<1>3. CASE op[a].why # "soft"
  <2>1. Job(a, Idle)
    BY <1>3 DEF Succeed
  <2> QED BY <1>1, <2>1, IdleSound, JobTaken
<1> QED BY <1>2, <1>3

LEMMA FailEnds ==
  ASSUME JobInv, Counted, NEW a \in Actor, NEW why, NEW s \in Session, Fail(a, why, s),
         UNCHANGED status
  PROVE  JobInv' /\ Counted'
<1>1. Counted'
  BY MockAssumption DEF Fail, Counted
<1>2. Sound(CloseJob("auto", s))
  BY DEF Sound, CloseJob, Jobs, Actor, Ends
<1>3. Sound(IF Exhausted(why) THEN CloseJob("auto", s) ELSE Idle)
  BY <1>2, IdleSound
<1>4. Job(a, IF Exhausted(why) THEN CloseJob("auto", s) ELSE Idle)
  BY DEF Fail
<1> QED BY <1>1, <1>3, <1>4, JobTaken

LEMMA ClosedEnds ==
  ASSUME JobInv, Counted, NEW a \in Actor, op[a].at # "idle", Closed(a), UNCHANGED status
  PROVE  JobInv' /\ Counted'
<1>1. CASE op[a].dir # 0 /\ Goto(a, "open") /\ UNCHANGED failures
  BY <1>1, OpenTaken DEF Counted
<1>2. CASE Succeed(a)
  BY <1>2, SucceedEnds
<1>3. CASE /\ IF ClosesSession(op[a].why) THEN Goto(a, "mark") ELSE Job(a, Idle)
           /\ UNCHANGED failures
  <2>1. CASE ClosesSession(op[a].why)
    <3>1. Goto(a, "mark") /\ op[a].why \in Ends
      BY <1>3, <2>1 DEF ClosesSession, Ends
    <3> QED BY <1>3, <3>1, MarkTaken DEF Counted
  <2>2. CASE ~ClosesSession(op[a].why)
    BY <1>3, <2>2, IdleSound, JobTaken DEF Counted
  <2> QED BY <2>1, <2>2
<1> QED BY <1>1, <1>2, <1>3 DEF Closed

-----------------------------------------------------------------------------
(* Decision cycles.                                                        *)

\* What a step that leaves positions, trades, the sessions and the pass alone
\* has to show.
LEMMA JobsOnly ==
  ASSUME Inv, JobInv', Counted', faults' \in 0..MaxFaults,
         UNCHANGED <<status, store, running, posn, opened, booked, pass>>
  PROVE  Inv'
<1>1. TypeOK'
  BY DEF Inv, TypeOK, JobInv, Counted, Jobs
<1>2. CopyInv'
  BY DEF Inv, CopyInv, Closing
<1>3. NothingVanishes'
  BY DEF Inv, NothingVanishes, Held
<1> QED BY <1>1, <1>2, <1>3 DEF Inv

LEMMA FaultTyped == ASSUME TypeOK, Fault PROVE faults' \in 0..MaxFaults
BY MockAssumption DEF TypeOK, Fault

LEMMA InvCounted == ASSUME Inv PROVE JobInv /\ Counted /\ faults \in 0..MaxFaults
BY DEF Inv, TypeOK, Counted

LEMMA TickKeeps == ASSUME Inv, NEW s \in Session, Tick(s) PROVE Inv'
<1>1. s \in Actor /\ posn[s] \in Directions \cup {0} /\ store[s] \in {"active", "soft", "hard"}
  BY DEF Inv, TypeOK, Actor, Tick, SessionStatus
<1>2. PICK j : Job(s, j) /\ Sound(j)
  <2>1. CASE store[s] = "hard"
    <3>1. Sound(CloseJob("hard", s))
      BY <2>1, <1>1 DEF Inv, CopyInv, Sound, CloseJob, Jobs
    <3> QED BY <2>1, <3>1 DEF Tick
  <2>2. CASE store[s] = "soft"
    <3>1. Sound(DecideJob("soft", s, posn[s]))
      BY <2>2, <1>1 DEF Inv, CopyInv, Sound, DecideJob, Jobs
    <3> QED BY <2>2, <3>1 DEF Tick
  <2>3. CASE store[s] = "active"
    <3>1. Sound(DecideJob("cycle", s, posn[s]))
      BY <2>3, <1>1 DEF Inv, CopyInv, Sound, DecideJob, Jobs, Ends
    <3> QED BY <2>3, <3>1 DEF Tick
  <2> QED BY <1>1, <2>1, <2>2, <2>3
<1>3. JobInv'
  BY <1>1, <1>2, InvCounted, JobTaken DEF Tick
<1> QED BY <1>3, InvCounted, JobsOnly DEF Tick, Counted

LEMMA PositionUnreadKeeps == ASSUME Inv, NEW s \in Session, PositionUnread(s) PROVE Inv'
<1>1. JobInv' /\ Counted'
  BY InvCounted, FailEnds DEF PositionUnread, Actor
<1>2. faults' \in 0..MaxFaults
  BY FaultTyped DEF Inv, PositionUnread
<1> QED BY <1>1, <1>2, JobsOnly DEF PositionUnread

LEMMA DecisionFailsKeeps == ASSUME Inv, NEW s \in Session, DecisionFails(s) PROVE Inv'
<1>1. JobInv' /\ Counted'
  BY InvCounted, FailEnds DEF DecisionFails, Actor
<1> QED BY <1>1, InvCounted, JobsOnly DEF DecisionFails

LEMMA DecideKeeps == ASSUME Inv, NEW s \in Session, Decide(s) PROVE Inv'
<1>1. s \in Actor /\ Sound(op[s]) /\ op[s].at = "decide"
  BY InvCounted DEF JobInv, Actor, Decide
<1>2. JobInv' /\ Counted'
  <2>1. CASE Succeed(s)
    BY <1>1, <2>1, InvCounted, SucceedEnds DEF Decide
  <2>2. ASSUME NEW target \in Directions \cup {0}, target # op[s].cur,
               Job(s, ActJob(op[s], target)), UNCHANGED failures
        PROVE  JobInv' /\ Counted'
    <3>1. Sound(ActJob(op[s], target))
      BY <1>1, <2>2 DEF Sound, ActJob, Jobs, Ends, Closing
    <3> QED BY <1>1, <2>2, <3>1, InvCounted, JobTaken DEF Counted, Decide
  <2> QED BY <2>1, <2>2 DEF Decide, Directions
<1> QED BY <1>2, InvCounted, JobsOnly DEF Decide

-----------------------------------------------------------------------------
(* The adapter. What it does to a position and its trades is the heart of  *)
(* NothingVanishes: an insert counts a position, a booking records one.    *)

LEMMA InsertCounts ==
  ASSUME TypeOK, NothingVanishes, NEW s \in Session, NEW d \in Directions, Insert(s, d),
         UNCHANGED booked
  PROVE  /\ posn' \in [Session -> Directions \cup {0}]
         /\ opened' \in [Session -> 0..MaxOpens]
         /\ NothingVanishes'
BY MockAssumption DEF TypeOK, NothingVanishes, Held, Insert, Directions

LEMMA BookRecords ==
  ASSUME TypeOK, NothingVanishes, NEW s \in Session, Book(s), UNCHANGED opened
  PROVE  /\ posn' \in [Session -> Directions \cup {0}]
         /\ booked' \in [Session -> Nat]
         /\ NothingVanishes'
BY MockAssumption DEF TypeOK, NothingVanishes, Held, Book, Directions

\* What a step that leaves the sessions, their copies and the pass alone has
\* to show.
LEMMA SessionsUntouched ==
  ASSUME Inv, JobInv', Counted', faults' \in 0..MaxFaults, NothingVanishes',
         posn' \in [Session -> Directions \cup {0}], opened' \in [Session -> 0..MaxOpens],
         booked' \in [Session -> Nat], UNCHANGED <<status, store, running, pass>>
  PROVE  Inv'
<1>1. TypeOK'
  BY DEF Inv, TypeOK, JobInv, Counted, Jobs
<1>2. CopyInv'
  BY DEF Inv, CopyInv, Closing
<1> QED BY <1>1, <1>2 DEF Inv

LEMMA OpenKeeps == ASSUME Inv, NEW a \in Actor, Open(a) PROVE Inv'
<1> DEFINE s == op[a].s
<1>1. op[a].at = "open" /\ s \in Session /\ op[a].dir \in Directions
  BY InvCounted DEF JobInv, Sound, Jobs, Open
<1>2. JobInv' /\ Counted'
  BY <1>1, InvCounted, SucceedEnds, FailEnds DEF Open
<1>3. faults' \in 0..MaxFaults
  BY InvCounted, FaultTyped DEF Inv, Open
<1>4. CASE Insert(s, op[a].dir)
  BY <1>1, <1>2, <1>3, <1>4, InsertCounts, SessionsUntouched DEF Inv, TypeOK, Open
<1>5. CASE UNCHANGED <<posn, opened, faults>>
  BY <1>2, <1>3, <1>5, JobsOnly DEF Open
<1> QED BY <1>4, <1>5 DEF Open

LEMMA CloseReadKeeps == ASSUME Inv, NEW a \in Actor, CloseRead(a) PROVE Inv'
<1>1. JobInv' /\ Counted'
  BY InvCounted, GotoTaken, ClosedEnds DEF CloseRead, Counted
<1> QED BY <1>1, InvCounted, JobsOnly DEF CloseRead

LEMMA CloseCommitKeeps == ASSUME Inv, NEW a \in Actor, CloseCommit(a) PROVE Inv'
<1> DEFINE s == op[a].s
<1>1. op[a].at = "commit" /\ s \in Session
  BY InvCounted DEF JobInv, Sound, CloseCommit
<1>2. JobInv' /\ Counted'
  BY <1>1, InvCounted, ClosedEnds, FailEnds DEF CloseCommit
<1>3. faults' \in 0..MaxFaults
  BY InvCounted, FaultTyped DEF Inv, CloseCommit
<1>4. Book(s) /\ UNCHANGED <<status, store, running, opened, pass>>
  BY DEF CloseCommit
<1> QED BY <1>1, <1>2, <1>3, <1>4, BookRecords, SessionsUntouched DEF Inv, TypeOK

LEMMA QueryFailsKeeps == ASSUME Inv, NEW a \in Actor, QueryFails(a) PROVE Inv'
<1>1. op[a].s \in Session
  BY InvCounted DEF JobInv, Sound, QueryFails
<1>2. JobInv' /\ Counted' /\ faults' \in 0..MaxFaults
  BY <1>1, InvCounted, FailEnds, FaultTyped DEF Inv, QueryFails
<1> QED BY <1>2, JobsOnly DEF QueryFails

-----------------------------------------------------------------------------
(* Steps on the sessions themselves, and the pass over them.               *)

\* A request to close is never taken back.
LEMMA ClosingStays ==
  ASSUME \A s \in Session : Closing(s) => Closing(s)', CopyInv,
         UNCHANGED <<store, pass>>, TypeOK
  PROVE  CopyInv'
BY DEF CopyInv, TypeOK

LEMMA SoundStays ==
  ASSUME \A s \in Session : Closing(s) => Closing(s)', JobInv, UNCHANGED op
  PROVE  JobInv'
BY DEF JobInv, Sound

LEMMA MarkKeeps == ASSUME Inv, NEW a \in Actor, Mark(a) PROVE Inv'
<1>1. faults' \in 0..MaxFaults
  BY InvCounted, FaultTyped DEF Inv, Mark
<1>2. op[a].s \in Session /\ op \in [Actor -> Jobs]
  BY InvCounted DEF JobInv, Sound, Mark
<1>3. /\ status' \in [Session -> SessionStatus]
      /\ \A s \in Session : Closing(s) => Closing(s)'
  BY <1>2 DEF Inv, TypeOK, Mark, SessionStatus, Closing
<1>4. JobInv'
  <2>1. \A b \in Actor : op'[b] = op[b] \/ op'[b] = Idle
    BY <1>2 DEF Mark, Job
  <2>2. \A j : Sound(j) => Sound(j)'
    BY <1>3 DEF Sound
  <2>3. op' \in [Actor -> Jobs]
    BY <1>2, IdleSound DEF Mark, Job, Sound
  <2> QED BY <2>1, <2>2, <2>3, IdleSound DEF Inv, JobInv
<1>5. CopyInv'
  BY <1>3, ClosingStays DEF Inv, Mark
<1>6. NothingVanishes'
  BY DEF Inv, NothingVanishes, Held, Mark
<1>7. TypeOK'
  BY <1>1, <1>3, <1>4 DEF Inv, TypeOK, Mark, JobInv, Jobs
<1> QED BY <1>4, <1>5, <1>6, <1>7 DEF Inv

\* What a step of the pass has to show.
LEMMA PassOnly ==
  ASSUME Inv, JobInv', pass' \in [at: {"idle", "sweep", "scan", "stop"}, todo: SUBSET Session,
                                  next: SUBSET Session],
         pass'.at = "sweep" => \A s \in pass'.todo : Closing(s),
         UNCHANGED <<status, store, running, posn, opened, booked, failures, faults>>
  PROVE  Inv'
<1>1. TypeOK'
  BY DEF Inv, TypeOK, JobInv, Jobs
<1>2. CopyInv'
  BY DEF Inv, CopyInv, Closing
<1>3. NothingVanishes'
  BY DEF Inv, NothingVanishes, Held
<1> QED BY <1>1, <1>2, <1>3 DEF Inv

LEMMA PassKeeps == ASSUME Inv, Pass PROVE Inv'
<1> USE DEF Inv, TypeOK
<1>0. Loop \in Actor /\ JobInv
  BY DEF Actor
<1>1. ASSUME PassBegin PROVE Inv'
  <2>1. JobInv'
    BY <1>0, <1>1, SoundStays DEF PassBegin, Closing
  <2>2. \A s \in pass'.todo : Closing(s)
    BY <1>1 DEF PassBegin, CopyInv
  <2> QED BY <1>1, <2>1, <2>2, PassOnly DEF PassBegin
<1>2. ASSUME PassSweep PROVE Inv'
  <2>1. CASE pass.todo = {} /\ pass' = [at |-> "scan", todo |-> pass.next, next |-> {}]
             /\ UNCHANGED op
    <3>1. JobInv'
      BY <1>0, <1>2, <2>1, SoundStays DEF PassSweep, Closing
    <3> QED BY <1>2, <2>1, <3>1, PassOnly DEF PassSweep
  <2>2. ASSUME NEW s \in pass.todo, pass' = [pass EXCEPT !.todo = @ \ {s}],
               UNCHANGED op \/ Job(Loop, CloseJob("sweep", s))
        PROVE  Inv'
    <3>1. s \in Session /\ Closing(s)
      BY <1>2 DEF PassSweep, CopyInv
    <3>2. Sound(CloseJob("sweep", s))
      BY <3>1 DEF Sound, CloseJob, Jobs, Actor
    <3>3. JobInv'
      BY <1>0, <1>2, <2>2, <3>2, SoundStays, JobTaken DEF PassSweep, Closing
    <3> QED BY <1>2, <2>2, <3>3, PassOnly DEF PassSweep, CopyInv
  <2> QED BY <1>2, <2>1, <2>2 DEF PassSweep
<1>3. ASSUME PassScan PROVE Inv'
  <2>1. JobInv'
    BY <1>0, <1>3, SoundStays DEF PassScan, Closing
  <2>2. pass' \in [at: {"scan", "stop"}, todo: SUBSET Session, next: SUBSET Session]
    BY <1>3 DEF PassScan
  <2> QED BY <1>3, <2>1, <2>2, PassOnly DEF PassScan
<1>4. ASSUME PassStop PROVE Inv'
  <2>1. CASE pass.todo = {} /\ pass' = NoPass /\ UNCHANGED op
    <3>1. JobInv'
      BY <1>0, <1>4, <2>1, SoundStays DEF PassStop, Closing
    <3> QED BY <1>4, <2>1, <3>1, PassOnly DEF PassStop, NoPass
  <2>2. ASSUME NEW s \in pass.todo, pass' = [pass EXCEPT !.todo = @ \ {s}],
               Job(Loop, CloseJob("stop", s))
        PROVE  Inv'
    <3>1. Sound(CloseJob("stop", s))
      BY DEF Sound, CloseJob, Jobs, Actor, Ends
    <3>2. JobInv'
      BY <1>0, <1>4, <2>2, <3>1, JobTaken DEF PassStop
    <3> QED BY <1>4, <2>2, <3>2, PassOnly DEF PassStop
  <2> QED BY <1>4, <2>1, <2>2 DEF PassStop
<1> QED BY <1>1, <1>2, <1>3, <1>4 DEF Pass

-----------------------------------------------------------------------------
(* The API, the poller, the supervisor and the process.                    *)

LEMMA RequestKeeps ==
  ASSUME Inv, NEW s \in Session, Create(s) \/ RequestClose(s)
  PROVE  Inv'
<1>1. /\ status' \in [Session -> SessionStatus]
      /\ \A t \in Session : Closing(t) => Closing(t)'
  BY DEF Inv, TypeOK, Create, RequestClose, SessionStatus, Closing
<1>2. UNCHANGED <<store, running, posn, opened, booked, failures, op, pass, faults>>
  BY DEF Create, RequestClose
<1>3. JobInv' /\ CopyInv'
  BY <1>1, <1>2, SoundStays, ClosingStays DEF Inv
<1>4. TypeOK' /\ NothingVanishes'
  BY <1>1, <1>2 DEF Inv, TypeOK, NothingVanishes, Held
<1> QED BY <1>3, <1>4 DEF Inv

LEMMA PollKeeps == ASSUME Inv, Poll PROVE Inv'
<1>1. JobInv'
  BY SoundStays DEF Inv, Poll, Closing
<1>2. TypeOK'
  BY DEF Inv, TypeOK, Poll, SessionStatus
<1>3. CopyInv'
  BY DEF Inv, CopyInv, Closing, Poll
<1>4. NothingVanishes'
  BY DEF Inv, NothingVanishes, Held, Poll
<1> QED BY <1>1, <1>2, <1>3, <1>4 DEF Inv

\* Aborting jobs leaves the others as they are.
LEMMA AbortKeeps ==
  ASSUME JobInv, op' \in [Actor -> {op[a] : a \in Actor} \cup {Idle}],
         \A a \in Actor : op'[a] \in {op[a], Idle}, UNCHANGED status
  PROVE  JobInv'
<1>1. \A j : Sound(j) => Sound(j)'
  BY DEF Sound, Closing
<1>2. \A a \in Actor : Sound(op'[a])
  BY IdleSound DEF JobInv
<1>3. op' \in [Actor -> Jobs]
  BY IdleSound DEF JobInv, Sound
<1> QED BY <1>1, <1>2, <1>3 DEF JobInv

LEMMA SuperviseKeeps == ASSUME Inv, Supervise PROVE Inv'
<1>1. JobInv'
  BY AbortKeeps DEF Inv, Supervise
<1>2. TypeOK'
  BY <1>1 DEF Inv, TypeOK, Supervise, JobInv, Jobs
<1>3. CopyInv'
  BY DEF Inv, CopyInv, Closing, Supervise
<1>4. NothingVanishes'
  BY DEF Inv, NothingVanishes, Held, Supervise
<1> QED BY <1>1, <1>2, <1>3, <1>4 DEF Inv

LEMMA RestartKeeps == ASSUME Inv, NEW s \in Session, Restart(s) PROVE Inv'
<1>1. JobInv'
  BY IdleSound, InvCounted, JobTaken DEF Restart, Actor
<1>2. faults' \in 0..MaxFaults
  BY FaultTyped DEF Inv, Restart
<1> QED BY <1>1, <1>2, InvCounted, JobsOnly DEF Restart, Counted

LEMMA CrashKeeps == ASSUME Inv, Crash PROVE Inv'
<1>1. JobInv'
  BY AbortKeeps DEF Inv, Crash
<1>2. faults' \in 0..MaxFaults
  BY FaultTyped DEF Inv, Crash
<1>3. TypeOK'
  BY <1>1, <1>2, MockAssumption DEF Inv, TypeOK, Crash, JobInv, Jobs, NoPass, SessionStatus
<1>4. CopyInv'
  BY DEF CopyInv, Crash, NoPass
<1>5. NothingVanishes'
  BY DEF Inv, NothingVanishes, Held, Crash
<1> QED BY <1>1, <1>3, <1>4, <1>5 DEF Inv

-----------------------------------------------------------------------------
(* The theorems.                                                           *)

LEMMA InitInv == ASSUME Init PROVE Inv
<1>1. TypeOK
  BY MockAssumption DEF Init, TypeOK, SessionStatus, Idle, NoPass, Actor
<1>2. JobInv
  BY IdleSound DEF Init, JobInv, Sound
<1>3. CopyInv
  BY DEF Init, CopyInv, NoPass
<1>4. NothingVanishes
  <2>1. ASSUME NEW s \in Session PROVE opened[s] - Held(s) <= booked[s]
    <3>1. Held(s) = 0 /\ opened[s] = 0 /\ booked[s] = 0
      BY DEF Init, Held
    <3> QED BY <3>1
  <2> QED BY <2>1 DEF NothingVanishes
<1> QED BY <1>1, <1>2, <1>3, <1>4 DEF Inv

LEMMA NextInv == ASSUME Inv, [Next]_vars PROVE Inv'
<1>1. ASSUME NEW s \in Session, Task(s) PROVE Inv'
  BY <1>1, TickKeeps, PositionUnreadKeeps, DecisionFailsKeeps, DecideKeeps DEF Task
<1>2. ASSUME NEW s \in Session, Create(s) \/ RequestClose(s) PROVE Inv'
  BY <1>2, RequestKeeps
<1>3. ASSUME NEW s \in Session, Restart(s) PROVE Inv'
  BY <1>3, RestartKeeps
<1>4. ASSUME NEW a \in Actor, Operate(a) PROVE Inv'
  BY <1>4, OpenKeeps, CloseReadKeeps, CloseCommitKeeps, QueryFailsKeeps, MarkKeeps DEF Operate
<1>5. CASE Pass
  BY <1>5, PassKeeps
<1>6. CASE Poll \/ Supervise \/ Crash
  BY <1>6, PollKeeps, SuperviseKeeps, CrashKeeps
<1>7. CASE UNCHANGED vars
  <2>1. JobInv'
    BY <1>7, SoundStays DEF Inv, vars, Closing
  <2> QED BY <1>7, <2>1, InvCounted, JobsOnly DEF vars, Counted
<1> QED BY <1>1, <1>2, <1>3, <1>4, <1>5, <1>6, <1>7 DEF Next

THEOREM Inductive == Spec => []Inv
BY InitInv, NextInv, PTL DEF Spec

\* Every variable of mock trading keeps its type (execution.rs, supervisor.rs,
\* reconcile.rs), whatever the number of sessions.
THEOREM TypeCorrect == Spec => []TypeOK
<1>1. Inv => TypeOK
  BY DEF Inv
<1> QED BY <1>1, Inductive, PTL

\* A mock position that is gone was credited to its wallet and recorded
\* (MockExecutionAdapter::close), whatever fails, is aborted or restarted.
THEOREM NothingVanishesHolds == Spec => []NothingVanishes
<1>1. Inv => NothingVanishes
  BY DEF Inv
<1> QED BY <1>1, Inductive, PTL

\* A session that is marked closed (poller.rs, close_session) had been asked
\* to close: going flat, auto-flatten and a stop-loss never end one.
THEOREM OnlyRequestedCloses == Spec => ClosedOnRequest
<1> DEFINE Requested ==
      \A s \in Session :
        status[s] # "closed" /\ status'[s] = "closed" => status[s] \in {"soft", "hard"}
<1>1. ASSUME Inv, [Next]_vars PROVE Requested
  <2>1. ASSUME NEW a \in Actor, Mark(a) PROVE Requested
    <3>1. op[a].s \in Session /\ Closing(op[a].s)
      BY <1>1, <2>1 DEF Inv, JobInv, Sound, Mark
    <3> QED BY <1>1, <2>1, <3>1 DEF Inv, TypeOK, Mark, Closing
  <2>2. ASSUME NEW s \in Session, Create(s) \/ RequestClose(s) PROVE Requested
    BY <1>1, <2>2 DEF Inv, TypeOK, Create, RequestClose
  <2>3. CASE UNCHANGED status
    BY <2>3
  <2> QED
    BY <1>1, <2>1, <2>2, <2>3
    DEF Next, Task, Tick, PositionUnread, DecisionFails, Decide, Restart, Operate, Open,
        CloseRead, CloseCommit, QueryFails, Pass, PassBegin, PassSweep, PassScan, PassStop,
        Poll, Supervise, Crash, vars
<1> QED BY <1>1, Inductive, PTL DEF Spec, ClosedOnRequest

-----------------------------------------------------------------------------
(* Backtests.                                                              *)
\* A close has a position to close, an open a direction.
Ready ==
  /\ at = "close" => side[run] # 0
  /\ at = "open" => dir # 0

\* A payment that is about to be recorded has been made.
Owed == at = "record" => recorded[run] < paid[run]

\* What a run has paid, in simulated time.
Charged(r) == paid[r] * Hour

\* The runs of the line wait there, once each, and have paid nothing.
Waiting ==
  /\ \A i \in 1..Len(line) : phase[line[i]] = "pending"
  /\ \A i, j \in 1..Len(line) : line[i] = line[j] => i = j
  /\ \A r \in Run : phase[r] \in {"none", "pending"} => paid[r] = 0
  /\ at # "idle" => phase[run] = "running"

Replaying == {"cycle", "open", "close", "auto", "funding", "record", "step"}

Paced ==
  /\ at = "idle" => run = Nobody
  /\ \A r \in Run : Charged(r) <= EndTime
  /\ at \in {"fetch", "failed"} => paid[run] = 0
  /\ at \in Replaying \cup {"apply"} => time <= EndTime
  /\ at \in Replaying => Charged(run) <= time /\ Charged(run) + Hour <= due
  /\ at = "apply" => Charged(run) + Hour <= time /\ due = time + Hour
  /\ at \in {"flatten", "completed"} => Charged(run) <= time

BookInv == Ready /\ Accounted

\* The run that is replayed is the one that was claimed.
Claimed == at # "idle" => phase[run] = "running"

\* Until something fails: a run at the threshold has been flattened and stays
\* flat up to the next cycle that succeeds, and so has one that is about to be
\* completed.
Steady == {"cycle", "open", "close", "funding", "apply", "record", "step"}

FlatInv ==
  errors = MaxErrors =>
    /\ \A r \in Run : phase[r] = "completed" => side[r] = 0
    /\ at = "completed" => side[run] = 0
    /\ at \in Steady /\ fails = FlattenAfter => side[run] = 0
FundInv == Owed /\ FundingAccount

-----------------------------------------------------------------------------
(* Types.                                                                  *)

LEMMA ErrorTyped ==
  ASSUME errors \in 0..MaxErrors, Err \/ UNCHANGED errors
  PROVE  errors' \in 0..MaxErrors
BY BacktestAssumption DEF Err

LEMMA CycleEndTyped ==
  ASSUME fails \in 0..FlattenAfter, CycleFails \/ CycleDone
  PROVE  fails' \in 0..FlattenAfter /\ at' \in {"auto", "funding"}
BY BacktestAssumption DEF CycleFails, CycleDone

LEMMA TradeTyped ==
  ASSUME LoopOK, TablesOK, at # "idle", UNCHANGED fundVars,
         \/ InsertPosition /\ UNCHANGED trades
         \/ BookTrade /\ UNCHANGED openings
         \/ UNCHANGED tradeVars
  PROVE  TablesOK'
<1> USE DEF TablesOK, LoopOK, fundVars
<1>1. CASE InsertPosition /\ UNCHANGED trades
  BY <1>1 DEF InsertPosition
<1>2. CASE BookTrade /\ UNCHANGED openings
  BY <1>2 DEF BookTrade
<1>3. CASE UNCHANGED tradeVars
  BY <1>3 DEF tradeVars
<1> QED
  BY <1>1, <1>2, <1>3

\* The types of the loop's variables and tables (backtest/runner.rs).
THEOREM Types == BacktestSpec => []BacktestTypeOK
<1> USE BacktestAssumption DEF Sides, Awaits
<1>1. BacktestInit => BacktestTypeOK
  BY DEF BacktestInit, BacktestTypeOK, QueueOK, LoopOK, TablesOK
<1>2. BacktestTypeOK /\ [BacktestNext]_backtestVars => QueueOK'
  <2> SUFFICES ASSUME QueueOK, LoopOK, [BacktestNext]_backtestVars PROVE QueueOK'
    BY DEF BacktestTypeOK
  <2> USE DEF QueueOK
  <2>1. ASSUME NEW r \in Run, Request(r) PROVE QueueOK'
    BY <2>1 DEF Request
  <2>2. CASE Claim
    <3>1. Head(line) \in Run /\ Tail(line) \in Seq(Run)
      BY <2>2 DEF Claim
    <3> QED
      BY <2>2, <3>1 DEF Claim
  <2>3. CASE MarkStatus
    BY <2>3 DEF MarkStatus, LoopOK
  <2>4. CASE UNCHANGED <<phase, line>>
    BY <2>4
  <2> QED
    BY <2>1, <2>2, <2>3, <2>4 DEF BacktestNext, RunLoop, Fetch, Cycle, OpenTrade, Close, AutoFlatten,
       Funding, Apply, Record, Advance, Flatten, EngineDies, backtestVars
<1>3. BacktestTypeOK /\ [BacktestNext]_backtestVars => LoopOK'
  <2> SUFFICES ASSUME QueueOK, LoopOK, [BacktestNext]_backtestVars PROVE LoopOK'
    BY DEF BacktestTypeOK
  <2> USE ErrorTyped, CycleEndTyped DEF LoopOK
  <2>1. ASSUME UNCHANGED loopVars, UNCHANGED errors PROVE LoopOK'
    BY <2>1 DEF loopVars
  <2>2. CASE Claim
    <3>1. Head(line) \in Run
      BY <2>2 DEF Claim, QueueOK
    <3> QED
      BY <2>2, <3>1 DEF Claim
  <2>3. CASE Fetch
    BY <2>3 DEF Fetch
  <2>4. CASE Cycle
    BY <2>4 DEF Cycle, CycleDone
  <2>5. CASE OpenTrade
    BY <2>5 DEF OpenTrade
  <2>6. CASE Close
    BY <2>6 DEF Close
  <2>7. CASE AutoFlatten
    BY <2>7 DEF AutoFlatten
  <2>8. CASE Funding
    BY <2>8 DEF Funding, FindPosition
  <2>9. CASE Apply
    BY <2>9 DEF Apply
  <2>10. CASE Record
    BY <2>10 DEF Record
  <2>11. CASE Advance
    BY <2>11 DEF Advance
  <2>12. CASE Flatten
    BY <2>12 DEF Flatten
  <2>13. CASE MarkStatus
    BY <2>13 DEF MarkStatus
  <2>14. CASE EngineDies
    BY <2>14 DEF EngineDies
  <2> QED
    BY <2>1, <2>2, <2>3, <2>4, <2>5, <2>6, <2>7, <2>8, <2>9, <2>10, <2>11, <2>12,
       <2>13, <2>14 DEF BacktestNext, RunLoop, Request, backtestVars
<1>4. BacktestTypeOK /\ [BacktestNext]_backtestVars => TablesOK'
  <2> SUFFICES ASSUME LoopOK, TablesOK, [BacktestNext]_backtestVars PROVE TablesOK'
    BY DEF BacktestTypeOK
  <2>1. CASE OpenTrade \/ Close \/ AutoFlatten \/ Flatten
    BY <2>1, TradeTyped DEF OpenTrade, Close, AutoFlatten, Flatten, tradeVars
  <2>2. CASE Apply
    BY <2>2 DEF Apply, Pay, tradeVars, TablesOK, LoopOK
  <2>3. CASE Record
    BY <2>3 DEF Record, tradeVars, TablesOK, LoopOK
  <2>4. CASE UNCHANGED <<tradeVars, fundVars>>
    BY <2>4 DEF tradeVars, fundVars, TablesOK
  <2> QED
    BY <2>1, <2>2, <2>3, <2>4 DEF BacktestNext, RunLoop, Request, Claim, Fetch, Cycle, Funding,
       Advance, MarkStatus, EngineDies, backtestVars
<1> QED
  BY <1>1, <1>2, <1>3, <1>4, PTL DEF BacktestSpec, BacktestTypeOK

-----------------------------------------------------------------------------
(* Positions and trades.                                                   *)

\* Every position a run opened is open still or is exactly one of its trades
\* (backtest/execution.rs).
THEOREM PositionsAccounted == BacktestSpec => []Accounted
<1> USE BacktestAssumption
<1>1. BacktestInit => BookInv
  BY DEF BacktestInit, BookInv, Ready, Accounted, Holding
<1>2. BacktestTypeOK /\ BookInv /\ [BacktestNext]_backtestVars => BookInv'
  <2> SUFFICES ASSUME BacktestTypeOK, BookInv, [BacktestNext]_backtestVars PROVE BookInv'
    OBVIOUS
  <2> USE DEF BacktestTypeOK, LoopOK, TablesOK, BookInv, Ready, Accounted, Holding, Sides
  <2>1. ASSUME side[run] # 0, run \in Run, BookTrade, UNCHANGED openings PROVE Accounted'
    BY <2>1 DEF BookTrade
  <2>2. CASE OpenTrade
    <3>1. ASSUME InsertPosition, UNCHANGED trades PROVE Accounted'
      BY <2>2, <3>1 DEF OpenTrade, InsertPosition
    <3>2. at' \notin {"open", "close"}
      BY <2>2 DEF OpenTrade, CycleFails, CycleDone
    <3> QED
      BY <2>2, <3>1, <3>2 DEF OpenTrade
  <2>3. CASE Close
    BY <2>1, <2>3 DEF Close, CycleFails, CycleDone, Err
  <2>4. CASE AutoFlatten
    BY <2>1, <2>4 DEF AutoFlatten
  <2>5. CASE Flatten
    BY <2>1, <2>5 DEF Flatten
  <2>6. CASE Cycle
    BY <2>6 DEF Cycle, CycleFails, CycleDone, tradeVars
  <2>7. ASSUME UNCHANGED tradeVars,
               at' \in {"open", "close"} => UNCHANGED <<at, run, dir>>
        PROVE  BookInv'
    BY <2>7 DEF tradeVars
  <2>8. ASSUME NEW r \in Run, Request(r) PROVE BookInv'
    BY <2>7, <2>8 DEF Request, loopVars
  <2>9. CASE Claim \/ Fetch \/ MarkStatus \/ EngineDies
    BY <2>7, <2>9 DEF Claim, Fetch, MarkStatus, EngineDies
  <2>10. CASE Funding \/ Apply \/ Record \/ Advance
    BY <2>7, <2>10 DEF Funding, FindPosition, Apply, Record, Advance
  <2>11. CASE UNCHANGED backtestVars
    BY <2>7, <2>11 DEF backtestVars, loopVars
  <2> QED
    BY <2>2, <2>3, <2>4, <2>5, <2>6, <2>8, <2>9, <2>10, <2>11 DEF BacktestNext, RunLoop
<1>3. BookInv => Accounted
  BY DEF BookInv
<1> QED
  BY <1>1, <1>2, <1>3, Types, PTL DEF BacktestSpec

-----------------------------------------------------------------------------
(* Flat where it has to be.                                                *)

LEMMA ClaimedKept == BacktestTypeOK /\ Claimed /\ [BacktestNext]_backtestVars => Claimed'
<1> SUFFICES ASSUME BacktestTypeOK, Claimed, [BacktestNext]_backtestVars PROVE Claimed'
  OBVIOUS
<1> USE DEF BacktestTypeOK, QueueOK, LoopOK, Claimed
<1>1. CASE Claim
  <2>1. Head(line) \in Run
    BY <1>1 DEF Claim
  <2> QED
    BY <1>1, <2>1 DEF Claim
<1>2. ASSUME NEW r \in Run, Request(r) PROVE Claimed'
  BY <1>2 DEF Request, loopVars
<1>3. CASE MarkStatus \/ EngineDies
  BY <1>3 DEF MarkStatus, EngineDies
<1>4. CASE Fetch \/ Cycle \/ OpenTrade \/ Close \/ AutoFlatten
  BY <1>4 DEF Fetch, Cycle, OpenTrade, Close, AutoFlatten
<1>5. CASE Funding \/ Apply \/ Record \/ Advance \/ Flatten
  BY <1>5 DEF Funding, Apply, Record, Advance, Flatten
<1>6. CASE UNCHANGED backtestVars
  BY <1>6 DEF backtestVars, loopVars
<1> QED
  BY <1>1, <1>2, <1>3, <1>4, <1>5, <1>6 DEF BacktestNext, RunLoop

\* A run that nothing has failed for is flat when it is completed, and when the
\* funding sweep looks after the failures have reached the threshold
\* (backtest/runner.rs:160-172, decision/supervisor.rs:522-554).
THEOREM EndsFlat == BacktestSpec => []FlatWhenDue
<1> USE BacktestAssumption
<1>1. BacktestInit => Claimed /\ FlatInv
  BY DEF BacktestInit, Claimed, FlatInv, Steady
<1>2. BacktestTypeOK /\ Claimed /\ FlatInv /\ [BacktestNext]_backtestVars => FlatInv'
  <2> SUFFICES ASSUME BacktestTypeOK, Claimed, FlatInv, [BacktestNext]_backtestVars,
                      errors' = MaxErrors
               PROVE  FlatInv'
    BY DEF FlatInv
  <2> USE DEF BacktestTypeOK, QueueOK, LoopOK, TablesOK, Claimed, FlatInv, Steady, Awaits
  <2>1. ~Err
    BY DEF Err
  <2>2. CASE Claim
    <3>1. Head(line) \in Run
      BY <2>2 DEF Claim
    <3> QED
      BY <2>1, <2>2, <3>1 DEF Claim, tradeVars
  <2>3. ASSUME NEW r \in Run, Request(r) PROVE FlatInv'
    BY <2>3 DEF Request, loopVars, tradeVars
  <2>4. CASE Fetch
    BY <2>1, <2>4 DEF Fetch, tradeVars
  <2>5. CASE Cycle
    BY <2>1, <2>5 DEF Cycle, CycleFails, CycleDone, tradeVars
  <2>6. CASE OpenTrade
    BY <2>1, <2>6 DEF OpenTrade, InsertPosition, CycleFails, CycleDone
  <2>7. CASE Close
    BY <2>1, <2>7 DEF Close, BookTrade, CycleDone
  <2>8. CASE AutoFlatten
    BY <2>1, <2>8 DEF AutoFlatten, BookTrade
  <2>9. CASE Funding \/ Apply \/ Record
    BY <2>1, <2>9 DEF Funding, FindPosition, Apply, Record, tradeVars
  <2>10. CASE Advance
    BY <2>10 DEF Advance, tradeVars
  <2>11. CASE Flatten
    BY <2>1, <2>11 DEF Flatten, BookTrade
  <2>12. CASE MarkStatus
    BY <2>1, <2>12 DEF MarkStatus, tradeVars
  <2>13. CASE EngineDies
    BY <2>1, <2>13 DEF EngineDies
  <2>14. CASE UNCHANGED backtestVars
    BY <2>14 DEF backtestVars, loopVars, tradeVars
  <2> QED
    BY <2>2, <2>3, <2>4, <2>5, <2>6, <2>7, <2>8, <2>9, <2>10, <2>11, <2>12, <2>13, <2>14
    DEF BacktestNext, RunLoop
<1>3. FlatInv => FlatWhenDue
  BY DEF FlatInv, FlatWhenDue, FlatAtEnd, FailedIsFlat, Steady
<1> QED
  BY <1>1, <1>2, <1>3, ClaimedKept, Types, PTL DEF BacktestSpec

-----------------------------------------------------------------------------
(* Funding.                                                                *)

\* No run's history shows a payment its balance has not had
\* (funding/scheduler.rs:45-61).
THEOREM FundingRecordedIsPaid == BacktestSpec => []FundingAccount
<1>1. BacktestInit => FundInv
  BY DEF BacktestInit, FundInv, Owed, FundingAccount
<1>2. BacktestTypeOK /\ FundInv /\ [BacktestNext]_backtestVars => FundInv'
  <2> SUFFICES ASSUME BacktestTypeOK, FundInv, [BacktestNext]_backtestVars PROVE FundInv'
    OBVIOUS
  <2> USE DEF BacktestTypeOK, LoopOK, TablesOK, FundInv, Owed, FundingAccount
  <2>1. CASE Apply
    BY <2>1 DEF Apply, Pay, Err
  <2>2. CASE Record
    BY <2>2 DEF Record, Err
  <2>3. ASSUME UNCHANGED fundVars, at' = "record" => at = "record" /\ UNCHANGED run
        PROVE  FundInv'
    BY <2>3 DEF fundVars
  <2>4. ASSUME NEW r \in Run, Request(r) PROVE FundInv'
    BY <2>3, <2>4 DEF Request, loopVars
  <2>5. CASE Claim \/ Fetch \/ MarkStatus \/ EngineDies
    BY <2>3, <2>5 DEF Claim, Fetch, MarkStatus, EngineDies
  <2>6. CASE Cycle \/ OpenTrade \/ Close \/ AutoFlatten
    BY <2>3, <2>6 DEF Cycle, OpenTrade, Close, AutoFlatten, CycleFails, CycleDone
  <2>7. CASE Funding \/ Advance \/ Flatten
    BY <2>3, <2>7 DEF Funding, FindPosition, Advance, Flatten
  <2>8. CASE UNCHANGED backtestVars
    BY <2>3, <2>8 DEF backtestVars, loopVars
  <2> QED
    BY <2>1, <2>2, <2>4, <2>5, <2>6, <2>7, <2>8 DEF BacktestNext, RunLoop
<1>3. FundInv => FundingAccount
  BY DEF FundInv
<1> QED
  BY <1>1, <1>2, <1>3, Types, PTL DEF BacktestSpec

\* One payment more is an hour more.
LEMMA OneHour == \A n \in Nat : n * Hour \in Nat /\ (n + 1) * Hour = n * Hour + Hour
BY BacktestAssumption

LEMMA ChargedTyped ==
  ASSUME BacktestTypeOK
  PROVE  \A r \in Run : Charged(r) \in Nat
BY OneHour DEF BacktestTypeOK, TablesOK, Charged

\* What is in the line is pending.
LEMMA InLine ==
  ASSUME BacktestTypeOK, Waiting
  PROVE  \A i \in 1..Len(line) : line[i] \in Run /\ phase[line[i]] = "pending"
<1>1. line \in Seq(Run)
  BY DEF BacktestTypeOK, QueueOK
<1> QED
  BY <1>1 DEF Waiting

\* The next run of the line is one that waits, and the rest still do once it
\* is taken (claim_next_pending).
LEMMA ClaimTakesOne ==
  ASSUME BacktestTypeOK, Waiting, Claim
  PROVE  Waiting' /\ Head(line) \in Run /\ paid[Head(line)] = 0
<1> USE DEF BacktestTypeOK, QueueOK, LoopOK, Waiting
<1>1. line \in Seq(Run) /\ Len(line) \in Nat /\ Len(line) >= 1 /\ Head(line) = line[1]
  BY DEF Claim
<1>2. line[1] \in Run /\ phase[line[1]] = "pending"
  BY <1>1
<1>3. line' \in Seq(Run) /\ Len(line') = Len(line) - 1
      /\ \A i \in 1..Len(line') : line'[i] = line[i + 1]
  BY <1>1 DEF Claim
<1>4. \A i \in 1..Len(line') : phase'[line'[i]] = "pending"
  <2> SUFFICES ASSUME NEW i \in 1..Len(line') PROVE phase'[line'[i]] = "pending"
    OBVIOUS
  <2>1. i + 1 \in 1..Len(line) /\ line'[i] = line[i + 1] /\ line[i + 1] \in Run
    BY <1>1, <1>3
  <2>2. line[i + 1] # line[1]
    BY <1>1, <2>1
  <2> QED
    BY <1>1, <2>1, <2>2 DEF Claim
<1>5. \A i, j \in 1..Len(line') : line'[i] = line'[j] => i = j
  BY <1>1, <1>3
<1>6. paid' = paid /\ paid[line[1]] = 0
  BY <1>2 DEF Claim, fundVars
<1>7. \A r \in Run : phase'[r] \in {"none", "pending"} => paid'[r] = 0
  BY <1>1, <1>2, <1>6 DEF Claim
<1>8. at' # "idle" => phase'[run'] = "running"
  BY <1>1, <1>2 DEF Claim
<1> QED
  BY <1>1, <1>2, <1>4, <1>5, <1>6, <1>7, <1>8

\* A run pays funding at most once for each hour it has simulated, whatever
\* its decision frequency (backtest/runner.rs:131-158).
THEOREM FundingIsPaced == BacktestSpec => []FundingPaced
<1>1. BacktestInit => Waiting
  BY DEF BacktestInit, Waiting
<1>2. BacktestTypeOK /\ Waiting /\ [BacktestNext]_backtestVars => Waiting'
  <2> SUFFICES ASSUME BacktestTypeOK, Waiting, [BacktestNext]_backtestVars PROVE Waiting'
    OBVIOUS
  <2> USE DEF BacktestTypeOK, QueueOK, LoopOK, TablesOK
  <2>1. ASSUME NEW r \in Run, Request(r) PROVE Waiting'
    <3>1. line' \in Seq(Run) /\ Len(line) \in Nat /\ Len(line') = Len(line) + 1
          /\ line'[Len(line) + 1] = r /\ \A i \in 1..Len(line) : line'[i] = line[i]
      BY <2>1 DEF Request
    <3>0. /\ phase' = [phase EXCEPT ![r] = "pending"] /\ phase[r] = "none"
          /\ UNCHANGED <<at, run, paid>>
      BY <2>1 DEF Request, loopVars, fundVars
    <3>2. \A i \in 1..Len(line) : line[i] \in Run /\ line[i] # r
      BY InLine, <3>0
    <3>3. \A i \in 1..Len(line') : i \in 1..Len(line) \/ i = Len(line) + 1
      BY <3>1
    <3>4. \A i \in 1..Len(line') : phase'[line'[i]] = "pending"
      <4>1. \A q \in Run : q # r => phase'[q] = phase[q]
        BY <3>0
      <4>2. phase'[r] = "pending"
        BY <3>0
      <4> QED
        BY <3>1, <3>2, <3>3, <4>1, <4>2 DEF Waiting
    <3>5. \A i, j \in 1..Len(line') : line'[i] = line'[j] => i = j
      <4> SUFFICES ASSUME NEW i \in 1..Len(line'), NEW j \in 1..Len(line'),
                          line'[i] = line'[j]
                   PROVE  i = j
        OBVIOUS
      <4>1. CASE i \in 1..Len(line) /\ j \in 1..Len(line)
        BY <3>1, <4>1 DEF Waiting
      <4>2. CASE i = Len(line) + 1 \/ j = Len(line) + 1
        BY <3>1, <3>2, <3>3, <4>2
      <4> QED
        BY <3>3, <4>1, <4>2
    <3>6. \A q \in Run : phase'[q] \in {"none", "pending"} => paid'[q] = 0
      BY <2>1 DEF Request, Waiting, fundVars
    <3>7. at' # "idle" => phase'[run'] = "running"
      BY <3>0 DEF Waiting
    <3> QED
      BY <3>4, <3>5, <3>6, <3>7 DEF Waiting
  <2>2. CASE Claim
    BY <2>2, ClaimTakesOne
  <2>3. CASE MarkStatus
    <3>1. run \in Run /\ \A i \in 1..Len(line) : line[i] \in Run /\ line[i] # run
      BY <2>3, InLine DEF MarkStatus, Waiting
    <3> QED
      BY <2>3, <3>1 DEF MarkStatus, Waiting, fundVars
  <2>4. CASE EngineDies
    BY <2>4 DEF EngineDies, Waiting, fundVars
  <2>5. CASE Apply
    BY <2>5 DEF Apply, Pay, Waiting
  <2>6. ASSUME UNCHANGED <<phase, line, run, paid>>, at' # "idle" => at # "idle"
        PROVE  Waiting'
    BY <2>6 DEF Waiting
  <2>7. CASE Fetch \/ Cycle \/ OpenTrade \/ Close \/ AutoFlatten
    BY <2>6, <2>7 DEF Fetch, Cycle, OpenTrade, Close, AutoFlatten, fundVars
  <2>8. CASE Funding \/ Record \/ Advance \/ Flatten
    BY <2>6, <2>8 DEF Funding, FindPosition, Record, Advance, Flatten, fundVars
  <2>9. CASE UNCHANGED backtestVars
    BY <2>6, <2>9 DEF backtestVars, loopVars, fundVars
  <2> QED
    BY <2>1, <2>2, <2>3, <2>4, <2>5, <2>7, <2>8, <2>9 DEF BacktestNext, RunLoop
<1>3. BacktestInit => Paced
  BY BacktestAssumption, OneHour DEF BacktestInit, Paced, Charged, Replaying
<1>4. BacktestTypeOK /\ Waiting /\ Paced /\ [BacktestNext]_backtestVars => Paced'
  <2> SUFFICES ASSUME BacktestTypeOK, Waiting, Paced, [BacktestNext]_backtestVars PROVE Paced'
    OBVIOUS
  <2>0. /\ time \in Nat /\ due \in Nat /\ Hour \in Nat /\ Step \in Nat /\ EndTime \in Nat
        /\ \A r \in Run : Charged(r) \in Nat
        /\ at # "idle" => run \in Run
    BY ChargedTyped, BacktestAssumption DEF BacktestTypeOK, LoopOK
  <2> USE DEF Paced, Replaying
  <2>1. ASSUME paid' = paid PROVE \A r \in Run : Charged(r)' = Charged(r)
    BY <2>1 DEF Charged
  <2>2. ASSUME paid' = paid, at' = "idle", run' = Nobody PROVE Paced'
    BY <2>1, <2>2
  <2>3. CASE Claim
    BY <2>1, <2>3, <2>2, ClaimTakesOne DEF Claim, fundVars
  <2>4. CASE Fetch
    <3>1. paid' = paid /\ time' = 0 /\ due' = Hour /\ run' = run /\ at' \in {"cycle", "failed"}
      BY <2>4 DEF Fetch, fundVars
    <3>2. paid[run] = 0 /\ Charged(run) = 0 /\ run \in Run
      BY <2>0, <2>4, OneHour, BacktestAssumption DEF Fetch, Charged
    <3> QED
      BY <2>0, <2>1, <3>1, <3>2
  <2>5. ASSUME at \in Replaying, at' \in Replaying, UNCHANGED <<run, time, due, paid>>
        PROVE  Paced'
    BY <2>0, <2>1, <2>5
  <2>6. CASE Cycle \/ OpenTrade \/ Close \/ AutoFlatten
    BY <2>5, <2>6 DEF Cycle, OpenTrade, Close, AutoFlatten, CycleFails, CycleDone, fundVars
  <2>7. CASE Funding
    BY <2>0, <2>1, <2>7 DEF Funding, FindPosition, fundVars
  <2>8. CASE Apply
    <3>1. ASSUME UNCHANGED <<run, time, due, paid>>, at = "apply", at' = "step" PROVE Paced'
      BY <2>0, <2>1, <3>1
    <3>2. ASSUME Pay, UNCHANGED <<run, time, due>>, at = "apply", at' \in {"record", "step"}
          PROVE  Paced'
      <4>1. run \in Run /\ paid \in [Run -> Nat]
        BY <2>0, <3>2 DEF BacktestTypeOK, TablesOK
      <4>2. Charged(run)' = Charged(run) + Hour
        BY <3>2, <4>1, OneHour DEF Pay, Charged
      <4>3. \A r \in Run \ {run} : Charged(r)' = Charged(r)
        BY <3>2, <4>1 DEF Pay, Charged
      <4> QED
        BY <2>0, <3>2, <4>1, <4>2, <4>3
    <3> QED
      BY <2>8, <3>1, <3>2 DEF Apply
  <2>9. CASE Record
    BY <2>5, <2>9 DEF Record
  <2>10. CASE Advance
    BY <2>0, <2>1, <2>10 DEF Advance, fundVars
  <2>11. CASE Flatten
    BY <2>0, <2>1, <2>11 DEF Flatten, fundVars
  <2>12. CASE MarkStatus \/ EngineDies
    BY <2>2, <2>12 DEF MarkStatus, EngineDies, fundVars
  <2>13. ASSUME UNCHANGED <<loopVars, paid>> PROVE Paced'
    BY <2>0, <2>1, <2>13 DEF loopVars
  <2>14. ASSUME NEW r \in Run, Request(r) PROVE Paced'
    BY <2>13, <2>14 DEF Request, fundVars
  <2>15. CASE UNCHANGED backtestVars
    BY <2>13, <2>15 DEF backtestVars, fundVars
  <2> QED
    BY <2>3, <2>4, <2>6, <2>7, <2>8, <2>9, <2>10, <2>11, <2>12, <2>14, <2>15 DEF BacktestNext, RunLoop
<1>5. BacktestTypeOK /\ Waiting /\ Paced => FundingPaced
  <2> SUFFICES ASSUME BacktestTypeOK, Paced, NEW r \in Run, r = run PROVE Charged(r) <= time
    BY DEF Paced, FundingPaced, Charged
  <2> QED
    <3>1. time \in Nat /\ Hour \in Nat /\ Charged(r) \in Nat /\ at # "idle"
      BY ChargedTyped, BacktestAssumption DEF BacktestTypeOK, LoopOK, Paced
    <3>2. paid[r] = 0 => Charged(r) = 0
      BY OneHour, BacktestAssumption DEF Charged
    <3>3. at \in Awaits
      BY DEF BacktestTypeOK, LoopOK
    <3> QED
      BY <3>1, <3>2, <3>3 DEF Awaits, Paced, Replaying
<1> QED
  BY <1>1, <1>2, <1>3, <1>4, <1>5, Types, PTL DEF BacktestSpec

-----------------------------------------------------------------------------
(* Both.                                                                   *)

\* What the model checker looks at is a behaviour of each: the one that is not
\* looked at stands still.
LEMMA EachOnItsOwn == SimulatedSpec => Spec /\ BacktestSpec
<1>1. SimulatedInit => Init /\ BacktestInit
  BY DEF SimulatedInit
<1>2. [SimulatedNext]_simulatedVars => [Next]_vars /\ [BacktestNext]_backtestVars
  BY DEF SimulatedNext, Mock, Replay, simulatedVars
<1> QED BY <1>1, <1>2, PTL DEF SimulatedSpec, Spec, BacktestSpec

\* Every variable of the simulated executions keeps its type (execution.rs,
\* supervisor.rs, reconcile.rs, backtest/runner.rs), for any sessions and runs.
THEOREM SimulatedTypes == SimulatedSpec => []SimulatedTypeOK
<1>1. TypeOK /\ BacktestTypeOK => SimulatedTypeOK
  BY DEF SimulatedTypeOK
<1> QED BY <1>1, EachOnItsOwn, TypeCorrect, Types, PTL
=============================================================================
