----------------------- MODULE CucumberHistories_proofs -----------------------
(***************************************************************************)
(* Proofs about the histories of CucumberSystem, for all step runners,     *)
(* feature files and step definitions: what each step runner has handled,  *)
(* that it is what the feature runner has asked, and that what is printed  *)
(* is what it has answered; the same of feature runners one after another, *)
(* of which any may be killed; and, from these, that CucumberSystem        *)
(* implements TestRun.                                                     *)
(***************************************************************************)
EXTENDS CucumberSystem_proofs, CucumberReruns, CucumberRefinement,
        WellFoundedInduction, FiniteSetTheorems

-----------------------------------------------------------------------------
(***************************************************************************)
(* What each step runner has handled: its states and its failures.         *)
(***************************************************************************)
(* What a step runner keeps of the requests it has handled.                *)
LogEntry == [frames : Seq(Frames), state : Nat, fails : BOOLEAN,
             reply : ReplyCommands]

(* The kinds of requests and answers the properties tell apart.            *)
StartHandled(e) == e.frames[1] = "START SCENARIO"
EndHandled(e) == e.frames[1] = "END SCENARIO"
StepHandled(e) == e.frames[1] = "RUN STEP"
AnswersFailed(e) == e.reply = "STEP FAILED"

(* The scenarios of one step runner, that has handled the requests L: each *)
(* starts on a state object of its own, and stays on it.                   *)
Isolated(L) ==
  \A k \in DOMAIN L :
    /\ StartHandled(L[k]) => \A i \in 1..(k - 1) : L[i].state # L[k].state
    /\ StepHandled(L[k]) => k > 1 /\ L[k].state = L[k - 1].state

(* No state object is newer than the one constructed last, the b-th, and   *)
(* the scenario c under way is on that of the last request.                *)
StatesSeen(L, b, c) ==
  /\ \A k \in DOMAIN L : L[k].state <= b
  /\ c # NULL => L # <<>> /\ L[Len(L)].state = c.state

(* The step definition that a request to run a step runs, 0 for none.      *)
RanBy(r, e) == CucumberFindStepDef(CucumberNew(0, Defs[r]), e.frames[3])

(* Since the i-th request, at which the step definition d failed, only     *)
(* steps: so d has failed in the scenario that the last request is of.     *)
FailedSince(r, L, i, k, d) ==
  L[i].fails /\ RanBy(r, L[i]) = d /\ \A j \in i..k : StepHandled(L[j])

FailedIn(r, L, d) == \E i \in 1..Len(L) : FailedSince(r, L, i, Len(L), d)

FailuresShown(r, L) ==
  \A k \in DOMAIN L :
    /\ L[k].fails => StepHandled(L[k]) /\ RanBy(r, L[k]) # 0
    /\ StepHandled(L[k]) =>
         (AnswersFailed(L[k]) <=>
            \E i \in 1..k : FailedSince(r, L, i, k, RanBy(r, L[k])))

(* A step definition of the scenario under way has its reason set exactly  *)
(* when it has failed in it.                                               *)
FailuresSeen(r, L, c) ==
  c # NULL => \A d \in DOMAIN c.step_defs :
                c.step_defs[d].failed <=> FailedIn(r, L, d)

(* Two registries in which a text finds the same step definition.          *)
SearchedAlike(c, d) ==
  \A text : CucumberFindStepDef(c, text) = CucumberFindStepDef(d, text)

(* Every scenario has the step definitions the step runner was given.      *)
SameDefs(r, c) == c # NULL => SearchedAlike(c, CucumberNew(0, Defs[r]))

ScenariosInv ==
  /\ \A r \in Constructing :
       Isolated(log[r]) /\ StatesSeen(log[r], built[r], cucumber[r])
  /\ \A r \in Runners : /\ FailuresShown(r, log[r])
                         /\ FailuresSeen(r, log[r], cucumber[r])
                         /\ SameDefs(r, cucumber[r])

-----------------------------------------------------------------------------
LEMMA LessWellFounded ==
  \E R : IsWellFoundedOn(R, Nat) /\ \A i, j \in Nat : <<i, j>> \in R <=> i < j
<1>1. IsWellFoundedOn(OpToRel(<, Nat), Nat)
  BY NatLessThanWellFounded, Zenon
<1>2. \A i, j \in Nat : <<i, j>> \in OpToRel(<, Nat) <=> i < j
  BY Zenon DEF OpToRel
<1> QED
  BY <1>1, <1>2, Zenon

LEMMA SmallestOf ==
  ASSUME NEW M, M \subseteq Nat, M # {}
  PROVE  \E i \in M : \A j \in M : i <= j
<1>1. PICK R : IsWellFoundedOn(R, Nat) /\ \A i, j \in Nat : <<i, j>> \in R <=> i < j
  BY LessWellFounded
<1>a. IsWellFoundedOn(R, Nat) /\ M \subseteq Nat /\ M # {}
  BY <1>1
<1>2. \E i \in M : \A j \in M : ~(<<j, i>> \in R)
  BY <1>a, WFMin, Zenon
<1>3. \A i, j \in M : i <= j \/ j < i
  OBVIOUS
<1>4. \A i, j \in M : <<j, i>> \in R <=> j < i
  BY <1>1, Zenon
<1> QED
  BY <1>2, <1>3, <1>4, Zenon

(* cucumber_find_step_def finds one of the step definitions, or none.      *)
LEMMA FoundStepDef ==
  ASSUME NEW c \in CucumberType, NEW text, CucumberFindStepDef(c, text) # 0
  PROVE  CucumberFindStepDef(c, text) \in DOMAIN c.step_defs
<1> DEFINE M == {i \in 1..Len(c.step_defs) : CucumberStepDefMatches(c, i, text)}
<1>1. Len(c.step_defs) \in Nat /\ DOMAIN c.step_defs = 1..Len(c.step_defs)
  BY LenProperties DEF CucumberType
<1>2. M \subseteq Nat
  BY <1>1
<1>b. M # {}
  BY Zenon DEF CucumberFindStepDef
<1>3. \E i \in M : \A j \in M : i <= j
  BY <1>2, <1>b, SmallestOf
<1>4. CucumberFindStepDef(c, text) = CHOOSE i \in M : \A j \in M : i <= j
  BY <1>b, Zenon DEF CucumberFindStepDef
<1>5. CucumberFindStepDef(c, text) \in M
  BY <1>3, <1>4, Zenon
<1> QED
  BY <1>1, <1>5

-----------------------------------------------------------------------------
(***************************************************************************)
(* What a handler writes down.                                             *)
(***************************************************************************)
Starts(r, e) ==
  /\ StartHandled(e) /\ ~e.fails /\ e.reply = "SCENARIO STARTED"
  /\ e.state = StateConstructor(r)
  /\ built' = [built EXCEPT ![r] = IF e.state = 0 THEN @ ELSE e.state]
  /\ cucumber' = [cucumber EXCEPT ![r] = CucumberNew(e.state, Defs[r])]

Ends(r, e) ==
  /\ EndHandled(e) /\ ~e.fails /\ e.reply = "SCENARIO ENDED"
  /\ e.state = 0
  /\ built' = built
  /\ cucumber' = [cucumber EXCEPT ![r] = NULL]

Runs(r, e) ==
  /\ StepHandled(e) /\ cucumber[r] # NULL /\ e.state = cucumber[r].state
  /\ built' = built
  /\ \E d \in DOMAIN cucumber[r].step_defs :
       /\ d = CucumberFindStepDef(cucumber[r], e.frames[3])
       /\ cucumber' = [cucumber EXCEPT ![r] = CucumberStepDefRun(cucumber[r], d, e.fails)]
       /\ e.reply = IF e.fails \/ cucumber[r].step_defs[d].failed
                    THEN "STEP FAILED" ELSE "STEP SUCCEEDED"

Misses(r, e) ==
  /\ StepHandled(e) /\ cucumber[r] # NULL /\ e.state = cucumber[r].state
  /\ CucumberFindStepDef(cucumber[r], e.frames[3]) = 0
  /\ ~e.fails /\ e.reply = "STEP NOT FOUND"
  /\ built' = built
  /\ cucumber' = cucumber

LEMMA HandlerWrites ==
  ASSUME StepsTypeOK, TransportTypeOK, NEW r \in Runners, Handler(r),
         requests[r] # <<>> => IsRequest(requests[r])
  PROVE  \E e \in LogEntry :
           /\ log' = [log EXCEPT ![r] = Append(@, e)]
           /\ e.frames = requests[r]
           /\ replies' = [replies EXCEPT ![r] =
                            Append(@, [command |-> e.reply, id |-> requests[r][2]])]
           /\ Starts(r, e) \/ Ends(r, e) \/ Runs(r, e) \/ Misses(r, e)
<1>1. requests[r] # <<>> /\ requests[r] \in Seq(Frames)
  BY HandlerAnswers DEF TransportTypeOK
<1>2. IsRequest(requests[r])
  BY <1>1
<1>a. Head(requests[r]) = requests[r][1]
  BY <1>1, EmptySeq
<1>b. SubSeq(requests[r], 1, Len(requests[r])) = requests[r]
  BY <1>1, SubSeqFull, Zenon
<1>3. /\ Head(requests[r]) = requests[r][1]
      /\ SubSeq(requests[r], 1, Len(requests[r])) = requests[r]
  BY <1>a, <1>b
<1>4. cucumber[r] # NULL => cucumber[r] \in CucumberType
  BY DEF StepsTypeOK
<1> DEFINE Entry1(state, fails, reply) ==
      [frames |-> requests[r], state |-> state, fails |-> fails, reply |-> reply]
<1>5. CASE StartScenario(r)
  <2>1. Len(requests[r]) = 2 /\ requests[r][1] = "START SCENARIO"
    BY <1>2, <1>3, <1>5, FramesOfRequest DEF StartScenario, HasRequest
  <2>2. StateConstructor(r) \in Nat
    BY DEF StateConstructor, StepsTypeOK
  <2>3. Entry1(StateConstructor(r), FALSE, "SCENARIO STARTED") \in LogEntry
    BY <1>1, <2>2 DEF LogEntry, ReplyCommands
  <2>4. log' = [log EXCEPT ![r] = Append(@,
                  Entry1(StateConstructor(r), FALSE, "SCENARIO STARTED"))]
    BY <1>3, <1>5, <2>1 DEF StartScenario, Handled
  <2>5. replies' = [replies EXCEPT ![r] =
                      Append(@, [command |-> "SCENARIO STARTED", id |-> requests[r][2]])]
    BY <1>5 DEF StartScenario, ReadAndAnswer
  <2>6. Starts(r, Entry1(StateConstructor(r), FALSE, "SCENARIO STARTED"))
    BY <1>5, <2>1 DEF Starts, StartScenario, StartHandled
  <2> QED
    BY <2>3, <2>4, <2>5, <2>6
<1>6. CASE EndScenario(r)
  <2>1. Len(requests[r]) = 2 /\ requests[r][1] = "END SCENARIO"
    BY <1>2, <1>3, <1>6, FramesOfRequest DEF EndScenario, HasRequest
  <2>3. Entry1(0, FALSE, "SCENARIO ENDED") \in LogEntry
    BY <1>1 DEF LogEntry, ReplyCommands
  <2>4. log' = [log EXCEPT ![r] = Append(@, Entry1(0, FALSE, "SCENARIO ENDED"))]
    BY <1>3, <1>6, <2>1 DEF EndScenario, Handled
  <2>5. replies' = [replies EXCEPT ![r] =
                      Append(@, [command |-> "SCENARIO ENDED", id |-> requests[r][2]])]
    BY <1>6 DEF EndScenario, ReadAndAnswer
  <2>6. Ends(r, Entry1(0, FALSE, "SCENARIO ENDED"))
    BY <1>6, <2>1 DEF Ends, EndScenario, EndHandled, CucumberDestroy
  <2> QED
    BY <2>3, <2>4, <2>5, <2>6
<1>7. CASE RunStep(r)
  <2>1. /\ Len(requests[r]) = 3 /\ requests[r][1] = "RUN STEP"
        /\ cucumber[r] # NULL /\ cucumber[r] \in CucumberType
    BY <1>2, <1>3, <1>4, <1>7, FramesOfRequest DEF RunStep, StepRequested, HasRequest
  <2>2. StepDefFor(r) \in DOMAIN cucumber[r].step_defs
    BY <1>7, <2>1, FoundStepDef DEF RunStep, StepDefFor
  <2> DEFINE ran(fails) == CucumberStepDefRun(cucumber[r], StepDefFor(r), fails)
             command(fails) == IF CucumberStepDefFailed(ran(fails), StepDefFor(r))
                               THEN "STEP FAILED" ELSE "STEP SUCCEEDED"
  <2>3. PICK fails \in BOOLEAN :
          /\ cucumber' = [cucumber EXCEPT ![r] = ran(fails)]
          /\ Handled(r, 3, cucumber[r].state, fails, command(fails))
          /\ ReadAndAnswer(r, 3, [command |-> command(fails), id |-> requests[r][2]])
    BY <1>7, Zenon DEF RunStep
  <2>4. CucumberStepDefFailed(ran(fails), StepDefFor(r))
          <=> fails \/ cucumber[r].step_defs[StepDefFor(r)].failed
    <3>1. /\ cucumber[r].step_defs \in Seq(StepDef) /\ cucumber[r].state \in Nat
          /\ cucumber[r] = [state |-> cucumber[r].state, step_defs |-> cucumber[r].step_defs]
      BY <2>1 DEF CucumberType
    <3>2. cucumber[r].step_defs[StepDefFor(r)] \in StepDef
      BY <2>2, <3>1, ElementOfSeq, LenProperties
    <3> DEFINE defs == cucumber[r].step_defs
               after == [defs EXCEPT ![StepDefFor(r)].failed = fails \/ @]
    <3>3. ran(fails).step_defs = after
      BY <3>1 DEF CucumberStepDefRun
    <3>4. after[StepDefFor(r)] = [defs[StepDefFor(r)] EXCEPT !.failed = fails \/ @]
      BY <2>2, Zenon
    <3>5. after[StepDefFor(r)].failed = (fails \/ defs[StepDefFor(r)].failed)
      BY <3>2, <3>4 DEF StepDef
    <3> QED
      BY <3>3, <3>5 DEF CucumberStepDefFailed
  <2>5. Entry1(cucumber[r].state, fails, command(fails)) \in LogEntry
    BY <1>1, <2>1 DEF LogEntry, ReplyCommands, StepAnswers, CucumberType
  <2>6. log' = [log EXCEPT ![r] = Append(@,
                  Entry1(cucumber[r].state, fails, command(fails)))]
    BY <1>3, <2>1, <2>3 DEF Handled
  <2>7. replies' = [replies EXCEPT ![r] =
                      Append(@, [command |-> command(fails), id |-> requests[r][2]])]
    BY <2>3 DEF ReadAndAnswer
  <2>8. built' = built
    BY <1>7 DEF RunStep
  <2>9. command(fails) = IF fails \/ cucumber[r].step_defs[StepDefFor(r)].failed
                         THEN "STEP FAILED" ELSE "STEP SUCCEEDED"
    BY <2>4
  <2>10. Runs(r, Entry1(cucumber[r].state, fails, command(fails)))
    BY <2>1, <2>2, <2>3, <2>8, <2>9 DEF Runs, StepHandled, StepDefFor
  <2> QED
    BY <2>5, <2>6, <2>7, <2>10
<1>8. CASE StepNotFound(r)
  <2>1. /\ Len(requests[r]) = 3 /\ requests[r][1] = "RUN STEP"
        /\ cucumber[r] # NULL /\ cucumber[r].state \in Nat
    BY <1>2, <1>3, <1>4, <1>8, FramesOfRequest
       DEF StepNotFound, StepRequested, HasRequest, CucumberType
  <2>3. Entry1(cucumber[r].state, FALSE, "STEP NOT FOUND") \in LogEntry
    BY <1>1, <2>1 DEF LogEntry, ReplyCommands, StepAnswers
  <2>4. log' = [log EXCEPT ![r] = Append(@,
                  Entry1(cucumber[r].state, FALSE, "STEP NOT FOUND"))]
    BY <1>3, <1>8, <2>1 DEF StepNotFound, Handled
  <2>5. replies' = [replies EXCEPT ![r] =
                      Append(@, [command |-> "STEP NOT FOUND", id |-> requests[r][2]])]
    BY <1>8 DEF StepNotFound, ReadAndAnswer
  <2>6. Misses(r, Entry1(cucumber[r].state, FALSE, "STEP NOT FOUND"))
    BY <1>8, <2>1 DEF Misses, StepNotFound, StepHandled, StepDefFor
  <2> QED
    BY <2>3, <2>4, <2>5, <2>6
<1> QED
  BY <1>5, <1>6, <1>7, <1>8 DEF Handler

LEMMA HandlerLogs ==
  ASSUME IInv, NEW r \in Runners, Handler(r)
  PROVE  \E e \in LogEntry :
           /\ log' = [log EXCEPT ![r] = Append(@, e)]
           /\ e.frames = requests[r]
           /\ replies' = [replies EXCEPT ![r] =
                            Append(@, [command |-> e.reply, id |-> requests[r][2]])]
           /\ Starts(r, e) \/ Ends(r, e) \/ Runs(r, e) \/ Misses(r, e)
<1>1. RunnerTypeOK /\ StepsTypeOK /\ TransportTypeOK /\ Positions /\ Wire
  BY DEF IInv, TypeOK
<1>2. requests[r] # <<>> => IsRequest(requests[r])
  BY <1>1, RequestsAreWhole
<1> QED
  BY <1>1, <1>2, HandlerWrites, Zenon

(* All other steps of a step runner only drop scenarios.                   *)
LEMMA OtherSteps ==
  ASSUME StepsTypeOK, NEW r \in Runners, StepRunner(r), ~Handler(r)
  PROVE  /\ log' = log /\ built' = built
         /\ \A q \in Runners : cucumber'[q] \in {cucumber[q], NULL}
BY DEF StepsTypeOK, Handler, StepRunner, MainThread, MainInput,
       ActorThread, RecvApi, RecvPickle, StartActor, ActorStarted, AppSends,
       EndOfInput, DestroyActor, Exit, CucumberStepsNew, RecvVerbose, RecvTerm, RecvInvalid,
       CucumberStepsDestroy, CucumberDestroy, StepCrashes, StepUnscoped,
       IgnoreFrame, Die, stepsVars
-----------------------------------------------------------------------------
(***************************************************************************)
(* What a request more leaves of the properties of a log.                  *)
(***************************************************************************)
LEMMA IsolatedGrows ==
  ASSUME NEW L \in Seq(LogEntry), NEW e \in LogEntry, Isolated(L),
         StartHandled(e) => \A i \in 1..Len(L) : L[i].state # e.state,
         StepHandled(e) => L # <<>> /\ L[Len(L)].state = e.state
  PROVE  Isolated(Append(L, e))
<1> DEFINE M == Append(L, e)
<1>1. /\ Len(L) \in Nat /\ DOMAIN L = 1..Len(L) /\ DOMAIN M = 1..(Len(L) + 1)
      /\ \A k \in 1..Len(L) : M[k] = L[k]
      /\ M[Len(L) + 1] = e
  BY Appended
<1>2. L # <<>> => Len(L) > 0
  BY EmptySeq, <1>1
<1> HIDE DEF M
<1> SUFFICES ASSUME NEW k \in DOMAIN M
             PROVE  /\ StartHandled(M[k]) =>
                         \A i \in 1..(k - 1) : M[i].state # M[k].state
                    /\ StepHandled(M[k]) =>
                         k > 1 /\ M[k].state = M[k - 1].state
  BY DEF Isolated, M
<1>3. CASE k \in 1..Len(L)
  <2>1. M[k] = L[k] /\ \A i \in 1..(k - 1) : M[i] = L[i]
    BY <1>1, <1>3
  <2>2. k > 1 => k - 1 \in 1..(k - 1)
    BY <1>3, <1>1
  <2> QED
    BY <1>1, <1>3, <2>1, <2>2 DEF Isolated
<1>4. CASE k = Len(L) + 1
  <2>1. M[k] = e /\ \A i \in 1..(k - 1) : M[i] = L[i]
    BY <1>1, <1>4
  <2>2. k - 1 = Len(L) /\ (L # <<>> => k > 1 /\ k - 1 \in 1..(k - 1))
    BY <1>1, <1>2, <1>4
  <2> QED
    BY <2>1, <2>2
<1> QED
  BY <1>1, <1>3, <1>4

(* A request more leaves the failures there were; a step adds its own, and *)
(* any other request begins or ends a scenario.                            *)
LEMMA FailuresGrow ==
  ASSUME NEW r, NEW L \in Seq(LogEntry), NEW e \in LogEntry
  PROVE  /\ \A k \in 1..Len(L) : \A i \in 1..k : \A d :
              FailedSince(r, Append(L, e), i, k, d) <=> FailedSince(r, L, i, k, d)
         /\ StepHandled(e) => \A d :
              FailedIn(r, Append(L, e), d) <=>
                FailedIn(r, L, d) \/ (e.fails /\ RanBy(r, e) = d)
         /\ ~StepHandled(e) => \A d : ~FailedIn(r, Append(L, e), d)
<1> DEFINE M == Append(L, e)
<1>1. /\ Len(L) \in Nat /\ Len(M) = Len(L) + 1
      /\ \A k \in 1..Len(L) : M[k] = L[k]
      /\ M[Len(L) + 1] = e
  BY Appended
<1> HIDE DEF M
<1>2. ASSUME NEW k \in 1..Len(L), NEW i \in 1..k, NEW d
      PROVE  FailedSince(r, M, i, k, d) <=> FailedSince(r, L, i, k, d)
  <2>1. i \in 1..Len(L) /\ \A j \in i..k : j \in 1..Len(L)
    BY <1>1
  <2>2. M[i] = L[i] /\ \A j \in i..k : M[j] = L[j]
    BY <1>1, <2>1
  <2> QED
    BY <2>2, Zenon DEF FailedSince
<1>3. ASSUME StepHandled(e), NEW i \in 1..Len(L), NEW d
      PROVE  FailedSince(r, M, i, Len(M), d) <=> FailedSince(r, L, i, Len(L), d)
  <2>1. /\ \A j \in i..Len(M) :
              j = Len(L) + 1 \/ (j \in i..Len(L) /\ j \in 1..Len(L))
        /\ \A j \in i..Len(L) : j \in i..Len(M) /\ j \in 1..Len(L)
    BY <1>1
  <2>2. (\A j \in i..Len(M) : StepHandled(M[j]))
          <=> \A j \in i..Len(L) : StepHandled(L[j])
    BY <1>1, <1>3, <2>1, Zenon
  <2> QED
    BY <1>1, <2>2, Zenon DEF FailedSince
<1>4. ASSUME StepHandled(e), NEW d
      PROVE  FailedSince(r, M, Len(M), Len(M), d) <=> e.fails /\ RanBy(r, e) = d
  <2>1. \A j \in Len(M)..Len(M) : j = Len(L) + 1
    BY <1>1
  <2> QED
    BY <1>1, <1>4, <2>1, Zenon DEF FailedSince
<1>5. \A i \in 1..Len(M) : i \in 1..Len(L) \/ i = Len(M)
  BY <1>1
<1>6. Len(M) \in 1..Len(M) /\ \A i \in 1..Len(L) : i \in 1..Len(M)
  BY <1>1
<1>7. ASSUME StepHandled(e), NEW d
      PROVE  FailedIn(r, M, d) <=> FailedIn(r, L, d) \/ (e.fails /\ RanBy(r, e) = d)
  BY <1>3, <1>4, <1>5, <1>6, <1>7, Zenon DEF FailedIn
<1>8. ASSUME ~StepHandled(e), NEW d
      PROVE  ~FailedIn(r, M, d)
  <2>1. \A i \in 1..Len(M) : Len(M) \in i..Len(M)
    BY <1>1
  <2> QED
    BY <1>1, <1>8, <2>1, Zenon DEF FailedIn, FailedSince
<1> QED
  BY <1>2, <1>7, <1>8, Zenon DEF M

LEMMA FailuresShownGrows ==
  ASSUME NEW r, NEW L \in Seq(LogEntry), NEW e \in LogEntry, FailuresShown(r, L),
         e.fails => StepHandled(e) /\ RanBy(r, e) # 0,
         StepHandled(e) => (AnswersFailed(e) <=>
                              FailedIn(r, L, RanBy(r, e)) \/ e.fails)
  PROVE  FailuresShown(r, Append(L, e))
<1> DEFINE M == Append(L, e)
<1>1. /\ Len(L) \in Nat /\ DOMAIN L = 1..Len(L) /\ DOMAIN M = 1..(Len(L) + 1)
      /\ Len(M) = Len(L) + 1
      /\ \A k \in 1..Len(L) : M[k] = L[k]
      /\ M[Len(L) + 1] = e
  BY Appended
<1>2. /\ \A k \in 1..Len(L) : \A i \in 1..k : \A d :
           FailedSince(r, M, i, k, d) <=> FailedSince(r, L, i, k, d)
      /\ StepHandled(e) => \A d : FailedIn(r, M, d) <=>
           FailedIn(r, L, d) \/ (e.fails /\ RanBy(r, e) = d)
  BY FailuresGrow
<1> HIDE DEF M
<1>3. ASSUME NEW k \in 1..Len(L)
      PROVE  /\ M[k].fails => StepHandled(M[k]) /\ RanBy(r, M[k]) # 0
             /\ StepHandled(M[k]) =>
                  (AnswersFailed(M[k]) <=>
                     \E i \in 1..k : FailedSince(r, M, i, k, RanBy(r, M[k])))
  <2>1. /\ L[k].fails => StepHandled(L[k]) /\ RanBy(r, L[k]) # 0
        /\ StepHandled(L[k]) =>
             (AnswersFailed(L[k]) <=>
                \E i \in 1..k : FailedSince(r, L, i, k, RanBy(r, L[k])))
    BY <1>1, Zenon DEF FailuresShown
  <2> QED
    BY <1>1, <1>2, <2>1, Zenon
<1>4. StepHandled(e) => (AnswersFailed(e) <=> FailedIn(r, M, RanBy(r, e)))
  BY <1>2, Zenon
<1>5. \A k \in DOMAIN M : k \in 1..Len(L) \/ k = Len(M)
  BY <1>1
<1>6. ASSUME NEW k \in DOMAIN M
      PROVE  /\ M[k].fails => StepHandled(M[k]) /\ RanBy(r, M[k]) # 0
             /\ StepHandled(M[k]) =>
                  (AnswersFailed(M[k]) <=>
                     \E i \in 1..k : FailedSince(r, M, i, k, RanBy(r, M[k])))
  <2>1. CASE k \in 1..Len(L)
    BY <1>3, <2>1, Zenon
  <2>2. CASE k = Len(M)
    BY <1>1, <1>4, <2>2, Zenon DEF FailedIn
  <2> QED
    BY <1>5, <2>1, <2>2, Zenon
<1>7. FailuresShown(r, M)
  BY <1>6, Zenon DEF FailuresShown
<1> QED
  BY <1>7, Zenon DEF M

-----------------------------------------------------------------------------
(***************************************************************************)
(* Scenarios are isolated.                                                 *)
(***************************************************************************)

(* The search for a step definition depends on what they match only.       *)
LEMMA SameSearch ==
  ASSUME NEW c, NEW d, Len(c.step_defs) = Len(d.step_defs),
         \A i \in 1..Len(c.step_defs) : c.step_defs[i].matches = d.step_defs[i].matches
  PROVE  SearchedAlike(c, d)
<1> SUFFICES ASSUME NEW text
             PROVE  CucumberFindStepDef(c, text) = CucumberFindStepDef(d, text)
  BY Zenon DEF SearchedAlike
<1> DEFINE Matching(x) ==
      {i \in 1..Len(x.step_defs) : CucumberStepDefMatches(x, i, text)}
<1>1. Matching(c) = Matching(d)
  <2>1. \A i \in 1..Len(c.step_defs) :
          CucumberStepDefMatches(c, i, text) <=> CucumberStepDefMatches(d, i, text)
    BY Zenon DEF CucumberStepDefMatches
  <2> QED
    BY <2>1
<1>2. \A x : CucumberFindStepDef(x, text) =
        IF Matching(x) = {} THEN 0
        ELSE CHOOSE i \in Matching(x) : \A j \in Matching(x) : i <= j
  BY Zenon DEF CucumberFindStepDef
<1> HIDE DEF Matching
<1> QED
  BY <1>1, <1>2, Zenon

(* cucumber_step_def_run leaves the state, and marks its step definition   *)
(* only.                                                                   *)
LEMMA StateOfRun ==
  ASSUME NEW c \in CucumberType, NEW d \in DOMAIN c.step_defs, NEW fails \in BOOLEAN
  PROVE  /\ CucumberStepDefRun(c, d, fails).state = c.state
         /\ CucumberStepDefRun(c, d, fails) # NULL
         /\ DOMAIN CucumberStepDefRun(c, d, fails).step_defs = DOMAIN c.step_defs
         /\ \A j \in DOMAIN c.step_defs :
              CucumberStepDefRun(c, d, fails).step_defs[j].failed <=>
                c.step_defs[j].failed \/ (fails /\ j = d)
         /\ SearchedAlike(CucumberStepDefRun(c, d, fails), c)
<1> DEFINE defs == c.step_defs
           after == [defs EXCEPT ![d].failed = fails \/ @]
<1>1. /\ defs \in Seq(StepDef) /\ c.state \in Nat
      /\ c = [state |-> c.state, step_defs |-> defs]
  BY DEF CucumberType
<1>2. \A j \in DOMAIN defs : defs[j] \in StepDef
  BY <1>1, ElementOfSeq, LenProperties
<1>3. /\ CucumberStepDefRun(c, d, fails).step_defs = after
      /\ CucumberStepDefRun(c, d, fails).state = c.state
  BY <1>1 DEF CucumberStepDefRun
<1>4. /\ DOMAIN after = DOMAIN defs
      /\ after[d] = [defs[d] EXCEPT !.failed = fails \/ @]
      /\ \A j \in DOMAIN defs : j # d => after[j] = defs[j]
  BY Zenon
<1>5. after[d].failed = (fails \/ defs[d].failed) /\ after[d].matches = defs[d].matches
  BY <1>2, <1>4 DEF StepDef
<1>6. CucumberStepDefRun(c, d, fails) # NULL
  BY CucumberRunType, StepsAssumption, Zenon DEF StepsAssumption
<1> HIDE DEF after
<1>7. \A j \in DOMAIN c.step_defs :
        /\ after[j].failed <=> c.step_defs[j].failed \/ (fails /\ j = d)
        /\ after[j].matches = c.step_defs[j].matches
  BY <1>4, <1>5, Zenon
<1>8. DOMAIN defs = 1..Len(defs) /\ Len(after) = Len(defs)
  BY <1>1, <1>4, LenProperties
<1>9. SearchedAlike(CucumberStepDefRun(c, d, fails), c)
  BY <1>3, <1>7, <1>8, SameSearch, Zenon
<1> QED
  BY <1>3, <1>4, <1>6, <1>7, <1>9, Zenon

(* No step definition of a new scenario has failed.                        *)
LEMMA StateOfNew ==
  ASSUME NEW state, NEW defs
  PROVE  /\ CucumberNew(state, defs).state = state
         /\ \A d \in DOMAIN CucumberNew(state, defs).step_defs :
              ~CucumberNew(state, defs).step_defs[d].failed
         /\ SearchedAlike(CucumberNew(state, defs), CucumberNew(0, defs))
<1> DEFINE new == [i \in 1..Len(defs) |-> CucumberStepDefNew(defs[i])]
<1>1. /\ CucumberNew(state, defs).state = state
      /\ CucumberNew(state, defs).step_defs = new
  BY DEF CucumberNew
<1>2. \A i \in DOMAIN new : new[i] = CucumberStepDefNew(defs[i])
  BY Zenon
<1>3. \A matches : ~CucumberStepDefNew(matches).failed
  BY DEF CucumberStepDefNew
<1>4. CucumberNew(0, defs).step_defs = new
  BY DEF CucumberNew
<1> HIDE DEF new
<1>5. SearchedAlike(CucumberNew(state, defs), CucumberNew(0, defs))
  BY <1>1, <1>4, SameSearch, Zenon
<1> QED
  BY <1>1, <1>2, <1>3, <1>5, Zenon

LEMMA ScenariosInit ==
  Init => ScenariosInv
<1> SUFFICES ASSUME Init PROVE ScenariosInv
  OBVIOUS
<1>1. \A r \in Runners : log[r] = <<>> /\ cucumber[r] = NULL
  BY DEF Init, StepsInit
<1>2. Constructing \subseteq Runners
  BY StepsAssumption DEF StepsAssumption
<1>3. DOMAIN <<>> = {}
  OBVIOUS
<1> QED
  BY <1>1, <1>2, <1>3, Zenon
     DEF ScenariosInv, Isolated, StatesSeen, FailuresShown, FailuresSeen, SameDefs

LEMMA ScenariosKeptElsewhere ==
  ASSUME ScenariosInv, log' = log, built' = built,
         \A q \in Runners : cucumber'[q] \in {cucumber[q], NULL}
  PROVE  ScenariosInv'
<1>1. Constructing \subseteq Runners
  BY StepsAssumption DEF StepsAssumption
<1>2. ASSUME NEW r \in Constructing
      PROVE  Isolated(log'[r]) /\ StatesSeen(log'[r], built'[r], cucumber'[r])
  BY <1>1, Zenon DEF ScenariosInv, StatesSeen
<1>3. ASSUME NEW r \in Runners
      PROVE  /\ FailuresShown(r, log'[r]) /\ FailuresSeen(r, log'[r], cucumber'[r])
             /\ SameDefs(r, cucumber'[r])
  BY Zenon DEF ScenariosInv, FailuresSeen, SameDefs
<1> QED
  BY <1>2, <1>3, Zenon DEF ScenariosInv

LEMMA ScenariosKeptByHandler ==
  ASSUME IInv, ScenariosInv, NEW r \in Runners, Handler(r)
  PROVE  ScenariosInv'
<1>1. StepsTypeOK /\ Constructing \subseteq Runners
  BY StepsAssumption DEF IInv, TypeOK, StepsAssumption
<1>2. PICK e \in LogEntry :
        /\ log' = [log EXCEPT ![r] = Append(@, e)]
        /\ Starts(r, e) \/ Ends(r, e) \/ Runs(r, e) \/ Misses(r, e)
  BY HandlerLogs, Zenon
<1>3. /\ log \in [Runners -> Seq(LogEntry)] /\ built \in [Runners -> Nat]
      /\ cucumber \in [Runners -> CucumberType \cup {NULL}]
  BY <1>1, Zenon DEF StepsTypeOK, LogEntry
<1> DEFINE L == log[r]
           M == Append(L, e)
           b == built[r]
           c == cucumber[r]
<1>4. L \in Seq(LogEntry) /\ b \in Nat /\ (c # NULL => c \in CucumberType)
  BY <1>3
<1>5. log'[r] = M
  BY <1>2, <1>3, Zenon
<1>6. \A q \in Runners : q # r =>
        log'[q] = log[q] /\ built'[q] = built[q] /\ cucumber'[q] = cucumber[q]
  <2>1. \A q \in Runners : q # r => log'[q] = log[q]
    BY <1>2, <1>3, Zenon
  <2>2. \A q \in Runners : q # r => built'[q] = built[q] /\ cucumber'[q] = cucumber[q]
    BY <1>2, <1>3, Zenon DEF Starts, Ends, Runs, Misses
  <2> QED
    BY <2>1, <2>2
<1>7. /\ FailuresShown(r, L) /\ FailuresSeen(r, L, c) /\ SameDefs(r, c)
      /\ r \in Constructing => Isolated(L) /\ StatesSeen(L, b, c)
  BY Zenon DEF ScenariosInv
<1>8. /\ Len(L) \in Nat /\ DOMAIN L = 1..Len(L) /\ DOMAIN M = 1..(Len(L) + 1)
      /\ Len(M) = Len(L) + 1 /\ M # <<>> /\ M[Len(M)] = e
      /\ \A k \in 1..Len(L) : M[k] = L[k]
  BY <1>4, Appended
<1> HIDE DEF L, M, b, c
<1>9. SUFFICES /\ FailuresShown(r, M) /\ FailuresSeen(r, M, cucumber'[r])
               /\ SameDefs(r, cucumber'[r])
               /\ r \in Constructing =>
                    Isolated(M) /\ StatesSeen(M, built'[r], cucumber'[r])
  <2>1. ASSUME NEW q \in Constructing, q # r
        PROVE  Isolated(log'[q]) /\ StatesSeen(log'[q], built'[q], cucumber'[q])
    BY <1>1, <1>6, <2>1, Zenon DEF ScenariosInv
  <2>2. ASSUME NEW q \in Runners, q # r
        PROVE  /\ FailuresShown(q, log'[q]) /\ FailuresSeen(q, log'[q], cucumber'[q])
               /\ SameDefs(q, cucumber'[q])
    BY <1>6, <2>2, Zenon DEF ScenariosInv
  <2> QED
    BY <1>5, <2>1, <2>2, Zenon DEF ScenariosInv
<1>10. ASSUME e.state <= built'[r] /\ b <= built'[r] /\ built'[r] \in Nat,
              StatesSeen(L, b, c),
              cucumber'[r] # NULL => e.state = cucumber'[r].state
       PROVE  StatesSeen(M, built'[r], cucumber'[r])
  <2>1. ASSUME NEW k \in DOMAIN M PROVE M[k].state <= built'[r]
    <3>1. CASE k \in 1..Len(L)
      <4>1. M[k] = L[k] /\ L[k].state <= b
        BY <1>8, <1>10, <3>1, Zenon DEF StatesSeen
      <4>2. L[k] \in LogEntry
        BY <1>4, <1>8, <3>1, ElementOfSeq
      <4> QED
        BY <1>4, <1>10, <4>1, <4>2 DEF LogEntry
    <3>2. CASE k = Len(L) + 1
      BY <1>8, <1>10, <3>2
    <3> QED
      BY <1>8, <3>1, <3>2
  <2> QED
    BY <1>8, <1>10, <2>1, Zenon DEF StatesSeen
<1>11. CASE Starts(r, e)
  <2>1. /\ cucumber'[r] = CucumberNew(e.state, Defs[r])
        /\ e.state = StateConstructor(r)
        /\ built'[r] = IF e.state = 0 THEN b ELSE e.state
    BY <1>3, <1>11, Zenon DEF Starts, b
  <2>2. /\ cucumber'[r].state = e.state
        /\ \A d \in DOMAIN cucumber'[r].step_defs : ~cucumber'[r].step_defs[d].failed
        /\ SameDefs(r, cucumber'[r])
    <3>1. /\ CucumberNew(e.state, Defs[r]).state = e.state
          /\ \A d \in DOMAIN CucumberNew(e.state, Defs[r]).step_defs :
               ~CucumberNew(e.state, Defs[r]).step_defs[d].failed
          /\ SearchedAlike(CucumberNew(e.state, Defs[r]), CucumberNew(0, Defs[r]))
      BY StateOfNew, Zenon
    <3> QED
      BY <2>1, <3>1, Zenon DEF SameDefs
  <2>3. ~StepHandled(e) /\ ~AnswersFailed(e) /\ ~e.fails
    BY <1>11, Zenon DEF Starts, StartHandled, StepHandled, AnswersFailed
  <2>4. FailuresShown(r, M)
    BY <1>4, <1>7, <2>3, FailuresShownGrows, Zenon DEF M
  <2>5. FailuresSeen(r, M, cucumber'[r])
    BY <1>4, <2>2, <2>3, FailuresGrow, Zenon DEF FailuresSeen, M
  <2>6. ASSUME r \in Constructing
        PROVE  Isolated(M) /\ StatesSeen(M, built'[r], cucumber'[r])
    <3>1. e.state = b + 1 /\ built'[r] = b + 1
      <4>1. StateConstructor(r) = b + 1
        BY <2>6 DEF StateConstructor, b
      <4> QED
        BY <1>4, <2>1, <4>1
    <3>2. \A i \in 1..Len(L) : L[i].state # e.state
      <4>1. \A i \in 1..Len(L) : L[i].state <= b
        BY <1>7, <1>8, <2>6, Zenon DEF StatesSeen
      <4>2. \A i \in 1..Len(L) : L[i] \in LogEntry
        BY <1>4, <1>8, ElementOfSeq
      <4> QED
        BY <1>4, <3>1, <4>1, <4>2 DEF LogEntry
    <3>3. Isolated(M)
      BY <1>4, <1>7, <2>3, <2>6, <3>2, IsolatedGrows, Zenon DEF M
    <3>4. e.state <= built'[r] /\ b <= built'[r] /\ built'[r] \in Nat
      BY <1>4, <3>1
    <3> QED
      BY <1>7, <1>10, <2>2, <2>6, <3>3, <3>4, Zenon
  <2> QED
    BY <2>2, <2>4, <2>5, <2>6
<1>12. CASE Ends(r, e)
  <2>1. /\ cucumber'[r] = NULL /\ built'[r] = b /\ e.state = 0
    BY <1>3, <1>12, Zenon DEF Ends, b
  <2>2. ~StepHandled(e) /\ ~StartHandled(e) /\ ~AnswersFailed(e) /\ ~e.fails
    BY <1>12, Zenon DEF Ends, EndHandled, StartHandled, StepHandled, AnswersFailed
  <2>3. FailuresShown(r, M)
    BY <1>4, <1>7, <2>2, FailuresShownGrows, Zenon DEF M
  <2>4. FailuresSeen(r, M, cucumber'[r]) /\ SameDefs(r, cucumber'[r])
    BY <2>1, Zenon DEF FailuresSeen, SameDefs
  <2>5. r \in Constructing => Isolated(M)
    BY <1>4, <1>7, <2>2, IsolatedGrows, Zenon DEF M
  <2>6. e.state <= built'[r] /\ b <= built'[r] /\ built'[r] \in Nat
    BY <1>4, <2>1
  <2> QED
    BY <1>7, <1>10, <2>1, <2>3, <2>4, <2>5, <2>6, Zenon
<1>13. CASE Runs(r, e) \/ Misses(r, e)
  <2>1. /\ StepHandled(e) /\ built'[r] = b
        /\ c # NULL /\ c \in CucumberType /\ e.state = c.state
    BY <1>4, <1>13, Zenon DEF Runs, Misses, c, b
  <2>2. ~StartHandled(e)
    BY <2>1, Zenon DEF StartHandled, StepHandled
  <2>3. \A d : FailedIn(r, M, d) <=> FailedIn(r, L, d) \/ (e.fails /\ RanBy(r, e) = d)
    BY <1>4, <2>1, FailuresGrow, Zenon DEF M
  <2>4. CucumberFindStepDef(c, e.frames[3]) = RanBy(r, e)
    BY <1>7, <2>1, Zenon DEF SameDefs, SearchedAlike, RanBy
  <2>5. /\ FailuresShown(r, M) /\ FailuresSeen(r, M, cucumber'[r])
        /\ SameDefs(r, cucumber'[r]) /\ cucumber'[r].state = c.state
    <3>1. CASE Runs(r, e)
      <4>1. PICK d \in DOMAIN c.step_defs :
              /\ d = RanBy(r, e)
              /\ cucumber' = [cucumber EXCEPT ![r] = CucumberStepDefRun(c, d, e.fails)]
              /\ e.reply = IF e.fails \/ c.step_defs[d].failed
                           THEN "STEP FAILED" ELSE "STEP SUCCEEDED"
        BY <2>4, <3>1, Zenon DEF Runs, c
      <4>2. cucumber'[r] = CucumberStepDefRun(c, d, e.fails)
        BY <1>3, <4>1, Zenon
      <4>3. e.fails \in BOOLEAN
        BY DEF LogEntry
      <4>4. /\ cucumber'[r].state = c.state
            /\ DOMAIN cucumber'[r].step_defs = DOMAIN c.step_defs
            /\ \A j \in DOMAIN c.step_defs :
                 cucumber'[r].step_defs[j].failed <=>
                   c.step_defs[j].failed \/ (e.fails /\ j = d)
            /\ SearchedAlike(cucumber'[r], c)
        <5>1. d \in DOMAIN c.step_defs
          OBVIOUS
        <5>2. /\ CucumberStepDefRun(c, d, e.fails).state = c.state
              /\ DOMAIN CucumberStepDefRun(c, d, e.fails).step_defs = DOMAIN c.step_defs
              /\ \A j \in DOMAIN c.step_defs :
                   CucumberStepDefRun(c, d, e.fails).step_defs[j].failed <=>
                     c.step_defs[j].failed \/ (e.fails /\ j = d)
              /\ SearchedAlike(CucumberStepDefRun(c, d, e.fails), c)
          <6>1. /\ CucumberStepDefRun(c, d, e.fails).state = c.state
                /\ DOMAIN CucumberStepDefRun(c, d, e.fails).step_defs = DOMAIN c.step_defs
                /\ SearchedAlike(CucumberStepDefRun(c, d, e.fails), c)
            BY <2>1, <4>3, <5>1, StateOfRun
          <6>2. \A j \in DOMAIN c.step_defs :
                  CucumberStepDefRun(c, d, e.fails).step_defs[j].failed <=>
                    c.step_defs[j].failed \/ (e.fails /\ j = d)
            BY <2>1, <4>3, <5>1, StateOfRun
          <6> QED
            BY <6>1, <6>2
        <5> QED
          BY <4>2, <5>2, Zenon
      <4>5. AnswersFailed(e) <=> e.fails \/ c.step_defs[d].failed
        BY <4>1, Zenon DEF AnswersFailed
      <4>6. c.step_defs[d].failed <=> FailedIn(r, L, d)
        BY <1>7, <2>1, Zenon DEF FailuresSeen
      <4>7. d # 0
        BY <2>1, LenProperties DEF CucumberType
      <4>8. FailuresShown(r, M)
        BY <1>4, <1>7, <2>1, <4>1, <4>5, <4>6, <4>7, FailuresShownGrows, Zenon DEF M
      <4>9. FailuresSeen(r, M, cucumber'[r])
        BY <1>7, <2>1, <2>3, <4>1, <4>4, Zenon DEF FailuresSeen
      <4>10. SameDefs(r, cucumber'[r])
        BY <1>7, <2>1, <4>4, Zenon DEF SameDefs, SearchedAlike
      <4> QED
        BY <4>4, <4>8, <4>9, <4>10
    <3>2. CASE Misses(r, e)
      <4>1. cucumber'[r] = c /\ ~e.fails /\ ~AnswersFailed(e) /\ RanBy(r, e) = 0
        BY <2>4, <3>2, Zenon DEF Misses, AnswersFailed, c
      <4>2. ~FailedIn(r, L, 0)
        BY <1>7, <1>8, Zenon DEF FailedIn, FailedSince, FailuresShown
      <4>3. FailuresShown(r, M)
        BY <1>4, <1>7, <4>1, <4>2, FailuresShownGrows, Zenon DEF M
      <4>4. FailuresSeen(r, M, cucumber'[r])
        BY <1>7, <2>3, <4>1, Zenon DEF FailuresSeen
      <4> QED
        BY <1>7, <4>1, <4>3, <4>4
    <3> QED
      BY <1>13, <3>1, <3>2
  <2>6. ASSUME r \in Constructing
        PROVE  Isolated(M) /\ StatesSeen(M, built'[r], cucumber'[r])
    <3>1. L # <<>> /\ L[Len(L)].state = e.state /\ Len(L) \in DOMAIN L
      <4>1. L # <<>> /\ L[Len(L)].state = e.state
        BY <1>7, <2>1, <2>6, Zenon DEF StatesSeen
      <4> QED
        BY <1>4, <1>8, <4>1, EmptySeq
    <3>2. Isolated(M)
      BY <1>4, <1>7, <2>2, <2>6, <3>1, IsolatedGrows, Zenon DEF M
    <3>3. e.state <= b
      BY <1>7, <2>6, <3>1, Zenon DEF StatesSeen
    <3>4. e.state <= built'[r] /\ b <= built'[r] /\ built'[r] \in Nat
      BY <1>4, <2>1, <3>3
    <3> QED
      BY <1>7, <1>10, <2>1, <2>5, <2>6, <3>2, <3>4, Zenon
  <2> QED
    BY <2>5, <2>6
<1> QED
  BY <1>2, <1>11, <1>12, <1>13

LEMMA ScenariosInvariant ==
  Spec => []ScenariosInv
<1>1. IInv /\ ScenariosInv /\ [Next]_vars => ScenariosInv'
  <2> SUFFICES ASSUME IInv, ScenariosInv, [Next]_vars PROVE ScenariosInv'
    OBVIOUS
  <2>1. CASE UNCHANGED stepsVars
    BY <2>1, ScenariosKeptElsewhere DEF stepsVars
  <2>2. ASSUME NEW r \in Runners, StepRunner(r) PROVE ScenariosInv'
    BY <2>2, ScenariosKeptElsewhere, ScenariosKeptByHandler, OtherSteps
       DEF IInv, TypeOK
  <2> QED
    BY <2>1, <2>2 DEF Next, Finished, vars
<1> QED
  BY <1>1, ScenariosInit, Invariance, PTL DEF Spec

(* A scenario never meets the user's state of another one: each starts on  *)
(* an object of its own, and cucumber_steps_recv_pickle runs all its steps *)
(* on it.                                                                  *)
THEOREM NoStateShared ==
  Spec => []ScenariosIsolated
<1>1. ScenariosInv => ScenariosIsolated
  <2> SUFFICES ASSUME ScenariosInv, NEW r \in Constructing, NEW k \in DOMAIN log[r]
               PROVE  CASE log[r][k].frames[1] = "START SCENARIO" ->
                             \A i \in 1..(k - 1) : log[r][i].state # log[r][k].state
                        [] log[r][k].frames[1] = "RUN STEP" ->
                             k > 1 /\ log[r][k].state = log[r][k - 1].state
                        [] OTHER -> TRUE
    BY Zenon DEF ScenariosIsolated
  <2>1. /\ log[r][k].frames[1] = "START SCENARIO" =>
             \A i \in 1..(k - 1) : log[r][i].state # log[r][k].state
        /\ log[r][k].frames[1] = "RUN STEP" =>
             k > 1 /\ log[r][k].state = log[r][k - 1].state
    BY Zenon DEF ScenariosInv, Isolated, StartHandled, StepHandled
  <2> QED
    BY <2>1, Zenon
<1> QED
  BY <1>1, ScenariosInvariant, PTL

(* STEP FAILED is answered exactly when the step definition that is run    *)
(* fails or has failed earlier in the same scenario.                       *)
THEOREM NoFailureOutlivesScenario ==
  Spec => []FailuresStayInScenario
<1>1. ScenariosInv => FailuresStayInScenario
  <2> SUFFICES ASSUME ScenariosInv, NEW r \in Runners, NEW k \in DOMAIN log[r],
                      StepHandled(log[r][k])
               PROVE  log[r][k].reply = "STEP FAILED" <=>
                        \E i \in 1..k :
                          /\ log[r][i].fails
                          /\ RunBy(r, i) = RunBy(r, k)
                          /\ \A j \in i..k : StepHandled(log[r][j])
    BY Zenon DEF FailuresStayInScenario, StepHandled
  <2>1. AnswersFailed(log[r][k]) <=>
          \E i \in 1..k : FailedSince(r, log[r], i, k, RanBy(r, log[r][k]))
    BY Zenon DEF ScenariosInv, FailuresShown
  <2> QED
    BY <2>1, Zenon DEF AnswersFailed, FailedSince, RanBy, RunBy
<1> QED
  BY <1>1, ScenariosInvariant, PTL

-----------------------------------------------------------------------------
(***************************************************************************)
(* What the feature runner asks is what the step runners handle.           *)
(***************************************************************************)
ScriptEntry == [pickle : Ids, frames : Seq(Frames)]

ScriptAt ==
  /\ pc \in {"list", "collect"} => script = <<>> /\ report = <<>>
  /\ InRound => script # <<>>
  /\ pc \in {"start", "started"} => Last = StartRequest(pickle)
  /\ pc \in {"run", "ran"} => Last = StepRequest(pickle, Head(steps))
  /\ pc \in {"end", "ended"} => Last = EndRequest(pickle)

(* The step runners that have not handled it are those the cursor has to   *)
(* visit, and the one it is at while that has not read it.                 *)
Behind(r) ==
  /\ r \in Elements(cursor)
  /\ \/ pc \in {"start", "run", "end"}
     \/ pc \in Waiting /\ (r = Head(cursor) => requests[r] # <<>>)

Matches(L, S) == \A k \in DOMAIN L : L[k].frames = S[k].frames

Followed(r) ==
  /\ Len(log[r]) = IF Behind(r) THEN Len(script) - 1 ELSE Len(script)
  /\ Matches(log[r], script)

Following ==
  pc # "aborted" =>
    \A r \in Runners :
      /\ r \in Elements(identities) /\ r \in peers => Followed(r)
      /\ r \notin Elements(identities) => log[r] = <<>>

-----------------------------------------------------------------------------
(***************************************************************************)
(* What the steps of the feature runner do to the script: it prepares the  *)
(* run, asks something new, sends it, takes an answer, or goes on.         *)
(***************************************************************************)
Prepares ==
  /\ pc \in {"list", "collect"} /\ pc' \in {"list", "collect", "file"}
  /\ \A r \in Elements(identities) : r \in Elements(identities')
  /\ UNCHANGED <<script, report, isSuccessful, requests, peers>>

Asks ==
  /\ pc \in {"pickle", "step"}
  /\ \E entry \in ScriptEntry :
       /\ script' = Append(script, entry)
       /\ \/ pc' = "start" /\ entry.frames = StartRequest(pickle')
          \/ /\ pc' = "run" /\ entry.frames = StepRequest(pickle', Head(steps'))
             /\ tally' = NoAnswer
          \/ pc' = "end" /\ entry.frames = EndRequest(pickle')
  /\ cursor' = identities
  /\ UNCHANGED <<identities, report, isSuccessful, requests, replies, peers>>

Sends ==
  /\ cursor # <<>>
  /\ \/ pc = "start" /\ pc' = "started"
     \/ pc = "run" /\ pc' = "ran"
     \/ pc = "end" /\ pc' = "ended"
  /\ Head(cursor) \in Elements(identities) /\ Head(cursor) \in Elements(cursor)
  /\ Head(cursor) \in peers => requests'[Head(cursor)] # <<>>
  /\ UNCHANGED <<pickle, steps, cursor, tally, identities, script, report,
                 isSuccessful, replies, peers>>

Accepts(r) ==
  /\ \/ pc = "started" /\ pc' = "start" /\ tally' = tally
     \/ /\ pc = "ran" /\ pc' = "run"
        /\ Head(replies[r]).command \in StepAnswers
        /\ tally' = Count(tally, Head(replies[r]).command)
     \/ pc = "ended" /\ pc' = "end" /\ tally' = tally
  /\ r = Head(cursor) /\ requests[r] = <<>> /\ replies[r] # <<>>
  /\ Elements(cursor) = {r} \cup Elements(cursor')
  /\ r \notin Elements(cursor') /\ r \in Elements(identities)
  /\ cursor # <<>> /\ cursor' = Tail(cursor)
  /\ UNCHANGED <<pickle, steps, identities, script, report, isSuccessful,
                 requests, peers>>

Aborts ==
  /\ pc \in Waiting /\ pc' = "aborted"
  /\ UNCHANGED <<identities, script, report, isSuccessful>>

Passes ==
  /\ \/ pc \in {"start", "run", "end"} /\ cursor = <<>>
     \/ pc \in {"file", "pickle", "errors"}
  /\ pc' \in {"file", "pickle", "errors", "done", "step"}
  /\ IF pc = "run"
     THEN /\ report' = Append(report, [at |-> Len(script), verdict |-> Verdict(tally)])
          /\ isSuccessful' = (isSuccessful /\ Verdict(tally) # "FAILURE")
     ELSE UNCHANGED <<report, isSuccessful>>
  /\ UNCHANGED <<identities, script, requests, peers>>

LEMMA AsksEntry ==
  ASSUME NEW p \in Pickle, NEW frames \in Seq(Frames)
  PROVE  /\ [pickle |-> p.id, frames |-> frames] \in ScriptEntry
         /\ [pickle |-> p.id, frames |-> frames].frames = frames
BY DEF ScriptEntry, Pickle

LEMMA StepsOfRun ==
  ASSUME RunnerTypeOK, TransportTypeOK, Positions, Lists, Wire, Greetings,
         RunnerThread
  PROVE  \/ Prepares \/ Asks \/ Sends \/ Aborts \/ Passes
         \/ \E r \in Runners : Accepts(r)
<1>1. CASE ListFile \/ Listed \/ CallRun
  <2>1. identities' = identities
    BY <1>1 DEF ListFile, Listed, CallRun
  <2> QED
    BY <1>1, <2>1 DEF ListFile, Listed, CallRun, Prepares, transportVars
<1>2. ASSUME NEW r \in Runners, CollectIdentity(r) PROVE Prepares
  <2>1. Elements(identities') = Elements(identities) \cup {r}
    BY <1>2, ElementsOfAppend DEF CollectIdentity, RunnerTypeOK
  <2> QED
    BY <1>2, <2>1 DEF CollectIdentity, Receive, Prepares
<1>3. CASE NextFile \/ PrintError \/ EndDocument \/ Return
  <2>1. /\ pc \in {"file", "pickle", "errors"}
        /\ pc' \in {"file", "pickle", "errors", "done"}
        /\ UNCHANGED <<report, isSuccessful, identities, script, requests, peers>>
    BY <1>3 DEF NextFile, PrintError, EndDocument, Return, transportVars
  <2> QED
    BY <2>1 DEF Passes
<1>4. CASE FirstStep \/ PickleDone
  BY <1>4 DEF FirstStep, PickleDone, Passes, transportVars
<1>5. CASE EndStep
  BY <1>5, Zenon DEF EndStep, Passes, transportVars, Reported
<1>6. CASE NextPickle
  <2>1. /\ pc = "pickle" /\ pc' = "start" /\ pickle' = Head(pickles)
        /\ cursor' = identities
        /\ script' = Append(script, [pickle |-> pickle'.id,
                                     frames |-> StartRequest(pickle')])
        /\ UNCHANGED <<identities, report, isSuccessful, requests, replies, peers>>
    BY <1>6, Zenon DEF NextPickle, Scripted, transportVars
  <2>2. pickle' \in Pickle
    BY <1>6, <2>1, ElementsOfTail DEF NextPickle, RunnerTypeOK
  <2>3. StartRequest(pickle') \in Seq(Frames)
    BY <2>2, ScenarioRequestTypes
  <2>4. pc \in {"pickle", "step"}
    BY <2>1
  <2> QED
    BY <2>1, <2>2, <2>3, <2>4, AsksEntry, Zenon DEF Asks
<1>7. CASE BeginStep
  <2>1. /\ pc = "step" /\ pc' = "run" /\ pickle' = pickle /\ steps' = steps
        /\ steps # <<>> /\ cursor' = identities /\ tally' = NoAnswer
        /\ script' = Append(script, [pickle |-> pickle.id,
                                     frames |-> StepRequest(pickle, Head(steps))])
        /\ UNCHANGED <<identities, report, isSuccessful, requests, replies, peers>>
    BY <1>7, Zenon DEF BeginStep, Scripted, transportVars
  <2>2. pickle \in Pickle
    BY <2>1 DEF Positions
  <2>3. Head(steps) \in Texts
    BY <2>1, ElementsOfTail DEF RunnerTypeOK
  <2>4. StepRequest(pickle, Head(steps)) \in Seq(Frames)
    BY <2>2, <2>3, StepRequestType
  <2>5. pc \in {"pickle", "step"}
    BY <2>1
  <2> QED
    BY <2>1, <2>2, <2>4, <2>5, AsksEntry, Zenon DEF Asks
<1>8. CASE StepsDone
  <2>1. /\ pc = "step" /\ pc' = "end" /\ pickle' = pickle
        /\ cursor' = identities
        /\ script' = Append(script, [pickle |-> pickle.id,
                                     frames |-> EndRequest(pickle)])
        /\ UNCHANGED <<identities, report, isSuccessful, requests, replies, peers>>
    BY <1>8, Zenon DEF StepsDone, Scripted, transportVars
  <2>2. pickle \in Pickle
    BY <2>1 DEF Positions
  <2>3. EndRequest(pickle) \in Seq(Frames)
    BY <2>2, ScenarioRequestTypes
  <2>4. pc \in {"pickle", "step"}
    BY <2>1
  <2> QED
    BY <2>1, <2>2, <2>3, <2>4, AsksEntry, Zenon DEF Asks
<1>9. ASSUME NEW frames \in Seq(Frames), frames # <<>>, NEW waiting,
             SendTo(frames, waiting),
             \/ pc = "start" /\ waiting = "started"
             \/ pc = "run" /\ waiting = "ran"
             \/ pc = "end" /\ waiting = "ended"
      PROVE  Sends
  <2>1. pc \notin Waiting \cup {"aborted"}
    BY <1>9 DEF Waiting
  <2>2. /\ Head(cursor) \in Runners /\ Head(cursor) \in Elements(cursor)
        /\ Head(cursor) \in Elements(identities)
        /\ actor[Head(cursor)] = "loop" => requests'[Head(cursor)] = frames
        /\ pc' = waiting /\ UNCHANGED <<cursor, identities>>
    BY <1>9, <2>1, SentRequest
  <2>3. Head(cursor) \in peers => requests'[Head(cursor)] # <<>>
    <3>1. SUFFICES ASSUME Head(cursor) \in peers PROVE requests'[Head(cursor)] # <<>>
      OBVIOUS
    <3>2. requests' = [requests EXCEPT ![Head(cursor)] = @ \o frames]
      BY <1>9, <3>1 DEF SendTo, Send
    <3>3. requests[Head(cursor)] \in Seq(Frames)
      BY <2>2 DEF TransportTypeOK
    <3>4. requests[Head(cursor)] \o frames # <<>>
      BY <1>9, <3>3, ConcatProperties, EmptySeq
    <3> QED
      BY <2>2, <3>2, <3>4 DEF TransportTypeOK
  <2>4. /\ cursor # <<>>
        /\ UNCHANGED <<pickle, steps, tally, script, report, isSuccessful,
                       replies, peers>>
    BY <1>9, Zenon DEF SendTo, Send
  <2> QED
    BY <1>9, <2>2, <2>3, <2>4, Zenon DEF Sends
<1>10. CASE SendStart
  BY <1>9, <1>10, ScenarioRequestTypes, RequestParts DEF SendStart, Positions
<1>11. CASE SendStep
  BY <1>9, <1>11, ElementsOfTail, StepRequestType, RequestParts
     DEF SendStep, Positions, RunnerTypeOK
<1>12. CASE SendEnd
  BY <1>9, <1>12, ScenarioRequestTypes, RequestParts DEF SendEnd, Positions
<1>13. ASSUME NEW r \in Runners, Receive(r), pc \in Waiting,
              ExpectedId(Head(replies[r])), cursor' = ZlistNext(cursor)
       PROVE  /\ r = Head(cursor) /\ requests[r] = <<>> /\ replies[r] # <<>>
              /\ Elements(cursor) = {r} \cup Elements(cursor')
              /\ r \notin Elements(cursor') /\ r \in Elements(identities)
              /\ cursor # <<>> /\ cursor' = Tail(cursor)
              /\ UNCHANGED <<requests, peers>>
              /\ AnswersAsked(Head(replies[r]))
  <2>1. /\ r = Head(cursor) /\ requests[r] = <<>>
        /\ Elements(cursor) = {r} \cup Elements(cursor')
        /\ r \notin Elements(cursor') /\ r \in Elements(identities)
        /\ requests' = requests
    BY <1>13, ReceivedAnswer
  <2>2. AnswersAsked(Head(replies[r]))
    BY <1>13, AcceptedAnswer
  <2>3. cursor # <<>> /\ cursor' = Tail(cursor) /\ replies[r] # <<>> /\ peers' = peers
    BY <1>13 DEF Positions, ZlistNext, Receive
  <2> QED
    BY <2>1, <2>2, <2>3
<1>14. ASSUME NEW r \in Runners, RecvStarted(r) PROVE Aborts \/ Accepts(r)
  <2>1. /\ pc = "started" /\ Receive(r)
        /\ UNCHANGED <<pickle, steps, identities, tally, script, report, isSuccessful>>
        /\ \/ pc' = "aborted"
           \/ /\ pc' = "start" /\ cursor' = ZlistNext(cursor)
              /\ ExpectedId(Head(replies[r]))
    BY <1>14, Zenon DEF RecvStarted, RecvAnswer
  <2>2. pc \in Waiting
    BY <2>1 DEF Waiting
  <2> QED
    BY <1>13, <2>1, <2>2, Zenon DEF Aborts, Accepts
<1>15. ASSUME NEW r \in Runners, RecvEnded(r) PROVE Aborts \/ Accepts(r)
  <2>1. /\ pc = "ended" /\ Receive(r)
        /\ UNCHANGED <<pickle, steps, identities, tally, script, report, isSuccessful>>
        /\ \/ pc' = "aborted"
           \/ /\ pc' = "end" /\ cursor' = ZlistNext(cursor)
              /\ ExpectedId(Head(replies[r]))
    BY <1>15, Zenon DEF RecvEnded, RecvAnswer
  <2>2. pc \in Waiting
    BY <2>1 DEF Waiting
  <2> QED
    BY <1>13, <2>1, <2>2, Zenon DEF Aborts, Accepts
<1>16. ASSUME NEW r \in Runners, RecvRan(r) PROVE Aborts \/ Accepts(r)
  <2>1. /\ pc = "ran" /\ Receive(r)
        /\ UNCHANGED <<pickle, steps, identities, script, report>>
        /\ \/ pc' = "aborted" /\ isSuccessful' = isSuccessful
           \/ /\ pc' = "run" /\ cursor' = ZlistNext(cursor)
              /\ tally' = Count(tally, Head(replies[r]).command)
              /\ isSuccessful' = (isSuccessful /\ Head(replies[r]).command \in StepAnswers)
              /\ ExpectedId(Head(replies[r]))
    BY <1>16, Zenon DEF RecvRan
  <2>2. pc \in Waiting
    BY <2>1 DEF Waiting
  <2>3. CASE pc' = "aborted"
    BY <2>1, <2>2, <2>3 DEF Aborts
  <2>4. CASE pc' # "aborted"
    <3>1. /\ pc' = "run" /\ cursor' = ZlistNext(cursor)
          /\ tally' = Count(tally, Head(replies[r]).command)
          /\ isSuccessful' = (isSuccessful /\ Head(replies[r]).command \in StepAnswers)
          /\ ExpectedId(Head(replies[r]))
      BY <2>1, <2>4, Zenon
    <3>2. AnswersAsked(Head(replies[r]))
      BY <1>13, <2>1, <2>2, <3>1, Zenon
    <3>3. Head(replies[r]).command \in StepAnswers
      BY <2>1, <3>2, Zenon DEF AnswersAsked
    <3>4. isSuccessful' = isSuccessful
      BY <3>1, <3>3 DEF RunnerTypeOK
    <3> QED
      BY <1>13, <2>1, <2>2, <3>1, <3>3, <3>4, Zenon DEF Accepts
  <2> QED
    BY <2>3, <2>4
<1> QED
  BY <1>1, <1>2, <1>3, <1>4, <1>5, <1>6, <1>7, <1>8, <1>10, <1>11, <1>12,
     <1>14, <1>15, <1>16, Zenon DEF RunnerThread

LEMMA RunnerSteps ==
  ASSUME IInv, RunnerThread
  PROVE  \/ Prepares \/ Asks \/ Sends \/ Aborts \/ Passes
         \/ \E r \in Runners : Accepts(r)
BY StepsOfRun DEF IInv, TypeOK

(* The steps of step runners that handle no request.                       *)
LEMMA OtherTransport ==
  ASSUME NEW r \in Runners, StepRunner(r), ~Handler(r), ~IgnoreFrame(r)
  PROVE  UNCHANGED transportVars \/ Disconnect(r) \/ CucumberStepsNew(r)
<1>1. CASE MainThread(r) \/ MainInput(r)
  BY <1>1 DEF MainThread, MainInput, StartActor, ActorStarted, AppSends, EndOfInput,
              DestroyActor, Exit
<1>2. CASE ActorThread(r)
  <2>1. CASE RecvVerbose(r) \/ RecvTerm(r)
    BY <2>1 DEF RecvVerbose, RecvTerm
  <2>2. CASE RecvInvalid(r) \/ StepCrashes(r) \/ StepUnscoped(r) \/ CucumberStepsDestroy(r)
    BY <2>2 DEF RecvInvalid, StepCrashes, StepUnscoped, CucumberStepsDestroy, Die
  <2> QED
    BY <1>2, <2>1, <2>2 DEF ActorThread, RecvApi, RecvPickle, Handler
<1> QED
  BY <1>1, <1>2 DEF StepRunner

LEMMA QuietSteps ==
  ASSUME IInv, NEW r \in Runners, StepRunner(r), UNCHANGED runnerVars, ~Handler(r)
  PROVE  /\ log' = log
         /\ \A q \in Runners : q \in peers' =>
              (q \in peers /\ requests'[q] = requests[q]) \/ q \notin Elements(identities)
         /\ \A q \in Elements(identities) : replies'[q] # <<>> =>
              replies[q] # <<>> /\ Head(replies'[q]) = Head(replies[q])
<1>0. /\ RunnerTypeOK /\ StepsTypeOK /\ TransportTypeOK /\ Positions /\ Wire /\ Greetings
  BY DEF IInv, TypeOK
<1>1. log' = log
  BY <1>0, OtherSteps
<1>2. \A q \in Elements(identities) : q \in Runners
  BY <1>0, ElementOfSeq, LenProperties DEF RunnerTypeOK, Elements
<1>3. CASE UNCHANGED transportVars
  BY <1>1, <1>3 DEF transportVars
<1>4. CASE Disconnect(r)
  <2>1. /\ peers' = peers \ {r}
        /\ \A q \in Runners : q # r => requests'[q] = requests[q] /\ replies'[q] = replies[q]
        /\ \E n \in 0..Len(replies[r]) : replies'[r] = SubSeq(replies[r], 1, n)
    BY <1>0, <1>4 DEF Disconnect, TransportTypeOK
  <2>2. replies[r] \in Seq(Reply)
    BY <1>0 DEF TransportTypeOK
  <2>3. replies'[r] = <<>> \/ (replies[r] # <<>> /\ Head(replies'[r]) = Head(replies[r]))
    BY <2>1, <2>2, HeadOfPrefix
  <2> QED
    BY <1>1, <1>2, <2>1, <2>3
<1>5. CASE CucumberStepsNew(r)
  <2>1. /\ actor[r] = "init" /\ peers' = peers \cup {r} /\ requests' = requests
        /\ \A q \in Runners : q # r => replies'[q] = replies[q]
    BY <1>0, <1>5 DEF CucumberStepsNew, ConnectAndGreet, TransportTypeOK
  <2>2. r \notin Elements(identities)
    BY <1>0, <2>1 DEF Greetings
  <2> QED
    BY <1>1, <1>2, <2>1, <2>2
<1>6. ~IgnoreFrame(r)
  BY <1>0, RequestsAreWhole, FramesOfRequest DEF IgnoreFrame
<1> QED
  BY <1>3, <1>4, <1>5, <1>6, OtherTransport

-----------------------------------------------------------------------------
(***************************************************************************)
(* The script is followed.                                                 *)
(***************************************************************************)
LEMMA MatchesLonger ==
  ASSUME NEW L \in Seq(LogEntry), NEW S \in Seq(ScriptEntry), NEW s \in ScriptEntry,
         Len(L) <= Len(S), Matches(L, S)
  PROVE  Matches(L, Append(S, s))
<1>1. /\ Len(L) \in Nat /\ DOMAIN L = 1..Len(L) /\ Len(S) \in Nat
      /\ \A k \in 1..Len(S) : Append(S, s)[k] = S[k]
  BY Appended, LenProperties
<1>2. \A k \in DOMAIN L : k \in 1..Len(S)
  BY <1>1
<1> QED
  BY <1>1, <1>2, Zenon DEF Matches

LEMMA MatchesOneMore ==
  ASSUME NEW L \in Seq(LogEntry), NEW e \in LogEntry, NEW S \in Seq(ScriptEntry),
         Len(L) = Len(S) - 1, Matches(L, S), e.frames = S[Len(S)].frames
  PROVE  Len(Append(L, e)) = Len(S) /\ Matches(Append(L, e), S)
<1> DEFINE M == Append(L, e)
<1>1. /\ Len(L) \in Nat /\ DOMAIN L = 1..Len(L) /\ DOMAIN M = 1..(Len(L) + 1)
      /\ Len(M) = Len(L) + 1
      /\ \A k \in 1..Len(L) : M[k] = L[k]
      /\ M[Len(L) + 1] = e
  BY Appended
<1>2. Len(S) \in Nat
  BY LenProperties
<1> HIDE DEF M
<1>3. Len(M) = Len(S) /\ Len(L) + 1 = Len(S)
  BY <1>1, <1>2
<1>4. \A k \in DOMAIN M : k \in 1..Len(L) \/ k = Len(S)
  BY <1>1, <1>3
<1>5. Matches(M, S)
  BY <1>1, <1>3, <1>4, Zenon DEF Matches
<1> QED
  BY <1>3, <1>5 DEF M

LEMMA FollowingInit ==
  Init => ScriptAt /\ Following
<1> SUFFICES ASSUME Init PROVE ScriptAt /\ Following
  OBVIOUS
<1>1. /\ pc = "list" /\ script = <<>> /\ report = <<>> /\ identities = <<>>
      /\ \A r \in Runners : log[r] = <<>>
  BY DEF Init, FeatureRunnerInit, StepsInit
<1>2. ScriptAt
  BY <1>1 DEF ScriptAt, InRound, Waiting
<1>3. \A r \in Runners : r \notin Elements(identities)
  <2>1. DOMAIN identities = {}
    BY <1>1
  <2> QED
    BY <2>1, Zenon DEF Elements
<1> QED
  BY <1>1, <1>2, <1>3, Zenon DEF Following

(* The last request of the script is the one being sent around.            *)
LEMMA ScriptAtNext ==
  ASSUME RunnerTypeOK, ScriptAt,
         \/ Prepares \/ Asks \/ Sends \/ Aborts \/ Passes
         \/ \E r \in Runners : Accepts(r)
  PROVE  ScriptAt'
<1>0. script \in Seq(ScriptEntry)
  BY DEF RunnerTypeOK, ScriptEntry
<1>1. CASE Prepares
  BY <1>1 DEF Prepares, ScriptAt, InRound, Waiting
<1>2. CASE Asks
  <2>1. PICK entry \in ScriptEntry :
          /\ script' = Append(script, entry)
          /\ \/ pc' = "start" /\ entry.frames = StartRequest(pickle')
             \/ pc' = "run" /\ entry.frames = StepRequest(pickle', Head(steps'))
             \/ pc' = "end" /\ entry.frames = EndRequest(pickle')
    BY <1>2, Zenon DEF Asks
  <2>2. script' # <<>> /\ script'[Len(script')] = entry
    <3>1. /\ Len(script') = Len(script) + 1 /\ script'[Len(script) + 1] = entry
          /\ script' # <<>>
      BY <1>0, <2>1, Appended
    <3> QED
      BY <3>1
  <2>3. Last' = entry.frames
    BY <2>2, Zenon DEF Last
  <2> QED
    BY <2>1, <2>2, <2>3 DEF ScriptAt
<1>3. CASE Sends
  BY <1>3 DEF Sends, ScriptAt, InRound, Waiting, Last
<1>4. ASSUME NEW r \in Runners, Accepts(r) PROVE ScriptAt'
  <2>1. /\ UNCHANGED <<pickle, steps, script, report>>
        /\ \/ pc = "started" /\ pc' = "start"
           \/ pc = "ran" /\ pc' = "run"
           \/ pc = "ended" /\ pc' = "end"
    BY <1>4, Zenon DEF Accepts
  <2> QED
    BY <2>1 DEF ScriptAt, InRound, Waiting, Last
<1>5. CASE Aborts
  BY <1>5 DEF Aborts, ScriptAt, InRound, Waiting
<1>6. CASE Passes
  <2>1. pc' \in {"file", "pickle", "errors", "done", "step"}
    BY <1>6, Zenon DEF Passes
  <2> QED
    BY <2>1 DEF ScriptAt, InRound, Waiting
<1> QED
  BY <1>1, <1>2, <1>3, <1>4, <1>5, <1>6, Zenon

LEMMA ScriptAtKept ==
  ASSUME IInv, ScriptAt, RunnerThread
  PROVE  ScriptAt'
<1>1. RunnerTypeOK
  BY DEF IInv, TypeOK
<1> QED
  BY <1>1, RunnerSteps, ScriptAtNext, Zenon

LEMMA FollowingKeptByRunner ==
  ASSUME IInv, ScriptAt, Following, RunnerThread, UNCHANGED stepsVars
  PROVE  Following'
<1>0. /\ script \in Seq(ScriptEntry) /\ Len(script) \in Nat
      /\ \A r \in Runners : log[r] \in Seq(LogEntry) /\ Len(log[r]) \in Nat
  <2>1. script \in Seq(ScriptEntry) /\ \A r \in Runners : log[r] \in Seq(LogEntry)
    BY DEF IInv, TypeOK, RunnerTypeOK, StepsTypeOK, ScriptEntry, LogEntry
  <2> QED
    BY <2>1, LenProperties
<1>1. log' = log
  BY DEF stepsVars
<1>2. SUFFICES ASSUME pc' # "aborted"
               PROVE  \A r \in Runners :
                        /\ r \in Elements(identities') /\ r \in peers' => Followed(r)'
                        /\ r \notin Elements(identities') => log[r] = <<>>
  BY <1>1, Zenon DEF Following, Elements
<1>3. pc # "aborted"
  BY RunnerSteps DEF Prepares, Asks, Sends, Accepts, Aborts, Passes, Waiting
<1>4. \A r \in Runners :
        /\ r \in Elements(identities) /\ r \in peers => Followed(r)
        /\ r \notin Elements(identities) => log[r] = <<>>
  BY <1>3, Zenon DEF Following
<1>5. ASSUME UNCHANGED <<identities, script, peers>>,
             \A r \in Elements(identities) :
               r \in peers => (Behind(r)' <=> Behind(r))
      PROVE  \A r \in Runners :
               /\ r \in Elements(identities') /\ r \in peers' => Followed(r)'
               /\ r \notin Elements(identities') => log[r] = <<>>
  BY <1>1, <1>4, <1>5, Zenon DEF Followed
<1>6. CASE Prepares
  <2>1. /\ script = <<>> /\ script' = <<>> /\ peers' = peers
        /\ \A r : ~Behind(r) /\ ~Behind(r)'
        /\ \A r \in Elements(identities) : r \in Elements(identities')
    BY <1>6 DEF Prepares, ScriptAt, Behind, Waiting
  <2>2. ASSUME NEW r \in Runners, r \in peers'
        PROVE  Followed(r)'
    <3>1. Len(log[r]) = Len(script)
      BY <1>4, <2>1, <2>2, Zenon DEF Followed
    <3>2. log[r] = <<>>
      BY <1>0, <2>1, <3>1, EmptySeq
    <3>3. DOMAIN log'[r] = {} /\ Len(log'[r]) = Len(script')
      BY <1>1, <2>1, <3>2
    <3> QED
      BY <2>1, <3>3, Zenon DEF Followed, Matches
  <2> QED
    BY <1>4, <2>1, <2>2, Zenon
<1>7. CASE Asks
  <2>1. PICK entry \in ScriptEntry : script' = Append(script, entry)
    BY <1>7, Zenon DEF Asks
  <2>2. /\ pc' \in {"start", "run", "end"} /\ pc \in {"pickle", "step"}
        /\ cursor' = identities /\ identities' = identities /\ peers' = peers
    BY <1>7 DEF Asks
  <2>3. \A r : ~Behind(r) /\ (r \in Elements(identities) => Behind(r)')
    BY <2>2 DEF Behind, Elements, Waiting
  <2>4. Len(script') = Len(script) + 1
    BY <1>0, <2>1, Appended
  <2>5. ASSUME NEW r \in Runners, r \in Elements(identities), r \in peers
        PROVE  Followed(r)'
    <3>1. Len(log[r]) = Len(script) /\ Matches(log[r], script)
      BY <1>4, <2>3, <2>5, Zenon DEF Followed
    <3>2. Len(log[r]) <= Len(script) /\ log[r] \in Seq(LogEntry)
      BY <1>0, <3>1
    <3>3. Matches(log[r], script')
      BY <1>0, <2>1, <3>1, <3>2, MatchesLonger, Zenon
    <3>4. Len(log[r]) = Len(script') - 1
      BY <1>0, <2>4, <3>1
    <3>5. Behind(r)'
      BY <2>3, <2>5
    <3> QED
      BY <1>1, <3>3, <3>4, <3>5, Zenon DEF Followed
  <2> QED
    BY <1>4, <2>2, <2>5, Zenon
<1>8. CASE Sends
  <2>1. /\ UNCHANGED <<identities, script, peers, cursor>>
        /\ pc \in {"start", "run", "end"} /\ pc' \in Waiting
        /\ Head(cursor) \in peers => requests'[Head(cursor)] # <<>>
    BY <1>8 DEF Sends, Waiting
  <2>2. \A r \in peers : Behind(r)' <=> Behind(r)
    BY <2>1 DEF Behind, Waiting, Elements
  <2> QED
    BY <1>5, <2>1, <2>2
<1>9. ASSUME NEW h \in Runners, Accepts(h)
      PROVE  \A r \in Runners :
               /\ r \in Elements(identities') /\ r \in peers' => Followed(r)'
               /\ r \notin Elements(identities') => log[r] = <<>>
  <2>1. /\ UNCHANGED <<identities, script, peers>>
        /\ pc \in Waiting /\ pc' \in {"start", "run", "end"}
        /\ h = Head(cursor) /\ requests[h] = <<>>
        /\ Elements(cursor) = {h} \cup Elements(cursor')
        /\ h \notin Elements(cursor')
    BY <1>9, Zenon DEF Accepts, Waiting
  <2>2. \A r : Behind(r)' <=> Behind(r)
    <3>1. Elements(cursor)' = Elements(cursor')
      BY DEF Elements
    <3>2. pc \notin {"start", "run", "end"} /\ pc' \notin Waiting
      BY <2>1 DEF Waiting
    <3> QED
      BY <2>1, <3>1, <3>2, Zenon DEF Behind
  <2> QED
    BY <1>5, <2>1, <2>2
<1>10. CASE Passes
  <2>1. /\ UNCHANGED <<identities, script, peers>>
        /\ pc' \in {"file", "pickle", "errors", "done", "step"}
        /\ \/ pc \in {"start", "run", "end"} /\ cursor = <<>>
           \/ pc \in {"file", "pickle", "errors"}
    BY <1>10, Zenon DEF Passes
  <2>2. \A r : ~Behind(r)' /\ ~Behind(r)
    BY <2>1 DEF Behind, Elements, Waiting
  <2> QED
    BY <1>5, <2>1, <2>2
<1>11. ~Aborts
  BY <1>2, Zenon DEF Aborts
<1> QED
  BY <1>6, <1>7, <1>8, <1>9, <1>10, <1>11, RunnerSteps, Zenon

(* A handler is called with the last request of the script, by the step    *)
(* runner at the cursor, that is one request behind.                       *)
LEMMA HandlesLast ==
  ASSUME IInv, ScriptAt, Following, NEW r \in Runners, Handler(r), pc # "aborted"
  PROVE  /\ pc \in Waiting /\ r = Head(cursor) /\ cursor # <<>>
         /\ r \in Elements(cursor) /\ r \in Elements(identities)
         /\ r \in peers /\ requests[r] = Last
         /\ script # <<>>
         /\ Behind(r) /\ Len(log[r]) = Len(script) - 1 /\ Matches(log[r], script)
         /\ requests'[r] = <<>> /\ peers' = peers
         /\ \A q \in Runners : q # r => requests'[q] = requests[q]
         /\ replies[r] = <<>>
<1>0. /\ RunnerTypeOK /\ StepsTypeOK /\ TransportTypeOK /\ Positions /\ Wire
      /\ Greetings /\ Lists
  BY DEF IInv, TypeOK
<1>1. /\ actor[r] = "loop" /\ requests[r] # <<>> /\ requests'[r] = <<>>
      /\ \A q \in Runners : q # r => requests'[q] = requests[q]
      /\ peers' = peers
  BY <1>0, RequestsAreWhole, HandlerAnswers
<1>2. pc \in Waiting /\ r = Head(cursor)
  BY <1>0, <1>1, RequestedAt
<1>3. cursor # <<>>
  BY <1>0, <1>2 DEF Positions
<1>4. r \in Elements(cursor) /\ r \in Elements(identities)
  <2>1. cursor \in Seq(Runners)
    BY <1>0 DEF RunnerTypeOK
  <2>2. Head(cursor) \in Elements(cursor)
    BY <1>3, <2>1, ElementsOfTail
  <2> QED
    BY <1>0, <1>2, <2>2 DEF Lists
<1>5. r \in peers
  BY <1>0, <1>1 DEF Greetings
<1>6. requests[r] = Asked /\ replies[r] \in {<<>>, <<Greeting>>}
  BY <1>0, <1>1, <1>2, Zenon DEF Wire, Asking
<1>7. replies[r] = <<>>
  <2>1. Head(<<Greeting>>) = Greeting /\ <<Greeting>> # <<>>
    OBVIOUS
  <2> QED
    BY <1>0, <1>4, <1>6, <2>1 DEF Greetings
<1>8. Asked = Last
  <2>1. CASE pc = "started"
    BY <2>1 DEF Asked, ScriptAt
  <2>2. CASE pc = "ran"
    BY <2>2 DEF Asked, ScriptAt
  <2>3. CASE pc = "ended"
    BY <2>3 DEF Asked, ScriptAt
  <2> QED
    BY <1>2, <2>1, <2>2, <2>3 DEF Waiting
<1>9. script # <<>>
  BY <1>2 DEF ScriptAt, InRound
<1>10. Behind(r)
  BY <1>1, <1>2, <1>4 DEF Behind
<1>11. Followed(r)
  BY <1>4, <1>5, Zenon DEF Following
<1> QED
  BY <1>1, <1>2, <1>3, <1>4, <1>5, <1>6, <1>7, <1>8, <1>9, <1>10, <1>11, Zenon
     DEF Followed

LEMMA FollowingKeptBySteps ==
  ASSUME IInv, ScriptAt, Following, NEW r \in Runners, StepRunner(r),
         UNCHANGED runnerVars
  PROVE  Following'
<1>0. /\ script \in Seq(ScriptEntry)
      /\ log \in [Runners -> Seq(LogEntry)]
  BY DEF IInv, TypeOK, RunnerTypeOK, StepsTypeOK, ScriptEntry, LogEntry
<1>1. UNCHANGED <<pc, cursor, identities, script>>
  BY DEF runnerVars
<1>2. SUFFICES ASSUME pc # "aborted"
               PROVE  \A q \in Runners :
                        /\ q \in Elements(identities) /\ q \in peers' => Followed(q)'
                        /\ q \notin Elements(identities) => log'[q] = <<>>
  BY <1>1, Zenon DEF Following, Elements
<1>3. \A q \in Runners :
        /\ q \in Elements(identities) /\ q \in peers => Followed(q)
        /\ q \notin Elements(identities) => log[q] = <<>>
  BY <1>2, Zenon DEF Following
<1>4. ASSUME NEW q \in Runners, q \in Elements(identities), q \in peers,
             requests'[q] = requests[q], log'[q] = log[q]
      PROVE  Followed(q)'
  BY <1>1, <1>3, <1>4, Zenon DEF Followed, Behind, Elements
<1>5. CASE Handler(r)
  <2>1. /\ pc \in Waiting /\ r = Head(cursor) /\ r \in Elements(identities)
        /\ requests[r] = Last /\ script # <<>>
        /\ Len(log[r]) = Len(script) - 1 /\ Matches(log[r], script)
        /\ requests'[r] = <<>> /\ peers' = peers
        /\ \A q \in Runners : q # r => requests'[q] = requests[q]
    BY <1>2, <1>5, HandlesLast
  <2>2. PICK e \in LogEntry :
          log' = [log EXCEPT ![r] = Append(@, e)] /\ e.frames = requests[r]
    BY <1>5, HandlerLogs, Zenon
  <2>3. log'[r] = Append(log[r], e) /\ \A q \in Runners : q # r => log'[q] = log[q]
    BY <1>0, <2>2, Zenon
  <2>4. e.frames = script[Len(script)].frames
    BY <2>1, <2>2, Zenon DEF Last
  <2>5. Len(log'[r]) = Len(script) /\ Matches(log'[r], script)
    <3>1. log[r] \in Seq(LogEntry)
      BY <1>0
    <3>2. /\ Len(Append(log[r], e)) = Len(script)
          /\ Matches(Append(log[r], e), script)
      BY <1>0, <2>1, <2>4, <3>1, MatchesOneMore
    <3> QED
      BY <2>3, <3>2, Zenon
  <2>6. ~Behind(r)'
    <3>1. pc' \in Waiting /\ Head(cursor') = r /\ requests'[r] = <<>>
      BY <1>1, <2>1
    <3> QED
      BY <3>1 DEF Behind, Waiting
  <2>7. Followed(r)'
    BY <1>1, <2>5, <2>6, Zenon DEF Followed
  <2> QED
    BY <1>3, <1>4, <2>1, <2>3, <2>7, Zenon
<1>6. CASE ~Handler(r)
  <2>1. /\ log' = log
        /\ \A q \in Runners : q \in peers' =>
             (q \in peers /\ requests'[q] = requests[q]) \/ q \notin Elements(identities)
    BY <1>6, QuietSteps, Zenon
  <2> QED
    BY <1>3, <1>4, <2>1, Zenon
<1> QED
  BY <1>5, <1>6

LEMMA ScriptInvariant ==
  Spec => [](ScriptAt /\ Following)
<1>1. IInv /\ ScriptAt /\ Following /\ [Next]_vars => (ScriptAt /\ Following)'
  <2> SUFFICES ASSUME IInv, ScriptAt, Following, [Next]_vars
               PROVE  ScriptAt' /\ Following'
    OBVIOUS
  <2>1. CASE UNCHANGED vars
    BY <2>1 DEF vars, runnerVars, stepsVars, transportVars, ScriptAt, InRound, Last,
                Following, Followed, Behind, Matches, Elements
  <2>2. CASE RunnerThread /\ UNCHANGED stepsVars
    BY <2>2, ScriptAtKept, FollowingKeptByRunner
  <2>3. ASSUME NEW r \in Runners, StepRunner(r), UNCHANGED runnerVars
        PROVE  ScriptAt' /\ Following'
    <3>1. ScriptAt'
      BY <2>3 DEF runnerVars, ScriptAt, InRound, Last
    <3> QED
      BY <2>3, <3>1, FollowingKeptBySteps
  <2> QED
    BY <2>1, <2>2, <2>3 DEF Next, Finished
<1> QED
  BY <1>1, FollowingInit, Invariance, PTL DEF Spec

(* When the caller awaits them all, every connected step runner handles    *)
(* the whole feature, in its order and each request once.                  *)
THEOREM ScriptFollowed ==
  ASSUME Awaited = Runners
  PROVE  Spec => []FollowsScript
<1>1. ASSUME IInv, ScriptAt, Following, Running, NEW r \in peers
      PROVE  /\ Len(log[r]) <= Len(script)
             /\ Len(script) - Len(log[r]) <=
                  IF pc \in {"start", "run", "end"} \cup Waiting THEN 1 ELSE 0
             /\ \A k \in DOMAIN log[r] : log[r][k].frames = script[k].frames
  <2>1. r \in Runners /\ Len(script) \in Nat
    BY <1>1, LenProperties DEF IInv, TypeOK, TransportTypeOK, RunnerTypeOK
  <2>2. r \in Elements(identities) /\ pc # "aborted"
    BY <1>1, <2>1 DEF IInv, Collected, AllAwaited, Running
  <2>3. Followed(r)
    BY <1>1, <2>1, <2>2, Zenon DEF Following
  <2>4. Behind(r) => pc \in {"start", "run", "end"} \cup Waiting
    BY DEF Behind
  <2>5. \A k \in DOMAIN log[r] : log[r][k].frames = script[k].frames
    BY <2>3, Zenon DEF Followed, Matches
  <2>6. Len(log[r]) = IF Behind(r) THEN Len(script) - 1 ELSE Len(script)
    BY <2>3, Zenon DEF Followed
  <2>7. CASE Behind(r)
    <3>1. Len(log[r]) <= Len(script) /\ Len(script) - Len(log[r]) <= 1
      BY <2>1, <2>6, <2>7
    <3> QED
      BY <2>4, <2>5, <2>7, <3>1, Zenon
  <2>8. CASE ~Behind(r)
    <3>1. /\ Len(log[r]) <= Len(script)
          /\ Len(script) - Len(log[r]) <= 0 /\ Len(script) - Len(log[r]) <= 1
      BY <2>1, <2>6, <2>8
    <3> QED
      BY <2>5, <3>1, Zenon
  <2> QED
    BY <2>7, <2>8
<1>2. IInv /\ ScriptAt /\ Following => FollowsScript
  BY <1>1, Zenon DEF FollowsScript
<1> QED
  BY <1>2, ScriptInvariant, Invariance, PTL

-----------------------------------------------------------------------------
(***************************************************************************)
(* The answers to the request that is being sent around.                   *)
(***************************************************************************)

(* Those before the cursor have handled it, and what the one at the cursor *)
(* has sent is its answer.                                                 *)
Answered ==
  InRound =>
    \A r \in Elements(identities) :
      /\ r \notin Elements(cursor) => Len(log[r]) = Len(script)
      /\ pc \in Waiting /\ r = Head(cursor) /\ replies[r] # <<>> =>
           /\ Len(log[r]) = Len(script)
           /\ log[r][Len(script)].reply = Head(replies[r]).command

(* The tally is of the answers of those before the cursor.                 *)
GaveSome(answer) == \E r \in Before : log[r][Len(script)].reply = answer

Counted ==
  pc \in {"run", "ran"} =>
    /\ Sum(tally) = Len(identities) - Len(cursor)
    /\ tally.succeeded > 0 <=> GaveSome(Success)
    /\ tally.failed > 0 <=> GaveSome(Failure)
    /\ \A r \in Before : log[r][Len(script)].reply \in StepAnswers

LEMMA AnsweredKeptByRunner ==
  ASSUME IInv, Answered, RunnerThread, UNCHANGED stepsVars
  PROVE  Answered'
<1>0. /\ log' = log /\ Wire /\ Greetings /\ RunnerTypeOK
  BY DEF stepsVars, IInv, TypeOK
<1>1. CASE Prepares \/ Aborts
  BY <1>1 DEF Prepares, Aborts, Answered, InRound, Waiting
<1>2. CASE Passes
  <2>1. pc' \in {"file", "pickle", "errors", "done", "step"}
    BY <1>2, Zenon DEF Passes
  <2> QED
    BY <2>1 DEF Answered, InRound, Waiting
<1>3. CASE Asks
  <2>1. cursor' = identities /\ identities' = identities
        /\ pc' \in {"start", "run", "end"}
    BY <1>3 DEF Asks
  <2>2. pc' \notin Waiting
    BY <2>1 DEF Waiting
  <2> QED
    BY <2>1, <2>2, Zenon DEF Answered, Elements
<1>4. CASE Sends
  <2>1. /\ pc \in {"start", "run", "end"} /\ pc' \in Waiting
        /\ UNCHANGED <<cursor, identities, script, replies>>
    BY <1>4 DEF Sends, Waiting
  <2>2. InRound /\ pc \notin Waiting /\ pc # "aborted"
    BY <2>1 DEF InRound, Waiting
  <2>3. ASSUME NEW r \in Elements(identities) PROVE replies[r] = <<>>
    <3>1. r \in Runners
      BY <1>0, ElementOfSeq, LenProperties DEF RunnerTypeOK, Elements
    <3>2. replies[r] \in {<<>>, <<Greeting>>}
      BY <1>0, <2>2, <3>1, Zenon DEF Wire, Quiet
    <3>3. Head(<<Greeting>>) = Greeting /\ <<Greeting>> # <<>>
      OBVIOUS
    <3> QED
      BY <1>0, <3>1, <3>2, <3>3 DEF Greetings
  <2> QED
    BY <1>0, <2>1, <2>2, <2>3, Zenon DEF Answered, Elements
<1>5. ASSUME NEW h \in Runners, Accepts(h) PROVE Answered'
  <2>1. /\ pc \in Waiting /\ pc' \in {"start", "run", "end"}
        /\ h = Head(cursor) /\ replies[h] # <<>>
        /\ Elements(cursor) = {h} \cup Elements(cursor')
        /\ UNCHANGED <<identities, script>>
    BY <1>5, Zenon DEF Accepts, Waiting
  <2>2. InRound /\ pc' \notin Waiting
    BY <2>1 DEF InRound, Waiting
  <2>3. Elements(cursor)' = Elements(cursor') /\ Elements(identities)' = Elements(identities')
    BY DEF Elements
  <2> QED
    BY <1>0, <2>1, <2>2, <2>3, Zenon DEF Answered
<1> QED
  BY <1>1, <1>2, <1>3, <1>4, <1>5, RunnerSteps, Zenon

(* What a handler adds, when the feature runner listens.                   *)
LEMMA HandlerAdds ==
  ASSUME IInv, ScriptAt, Following, NEW r \in Runners, Handler(r), pc # "aborted",
         UNCHANGED runnerVars
  PROVE  /\ r \in Elements(cursor)
         /\ Len(log'[r]) = Len(script) /\ Len(log[r]) = Len(script) - 1
         /\ \A k \in 1..Len(log[r]) : log'[r][k] = log[r][k]
         /\ \A q \in Runners : q # r => log'[q] = log[q] /\ replies'[q] = replies[q]
         /\ log'[r][Len(script)].reply = Head(replies'[r]).command
<1>0. /\ log \in [Runners -> Seq(LogEntry)] /\ replies \in [Runners -> Seq(Reply)]
      /\ Len(script) \in Nat
  BY LenProperties DEF IInv, TypeOK, StepsTypeOK, TransportTypeOK, RunnerTypeOK, LogEntry
<1>1. /\ r \in Elements(cursor) /\ Len(log[r]) = Len(script) - 1
      /\ replies[r] = <<>>
  BY HandlesLast
<1>2. PICK e \in LogEntry :
        /\ log' = [log EXCEPT ![r] = Append(@, e)]
        /\ replies' = [replies EXCEPT ![r] =
                         Append(@, [command |-> e.reply, id |-> requests[r][2]])]
  BY HandlerLogs, Zenon
<1>3. /\ log'[r] = Append(log[r], e)
      /\ replies'[r] = Append(<<>>, [command |-> e.reply, id |-> requests[r][2]])
      /\ \A q \in Runners : q # r => log'[q] = log[q] /\ replies'[q] = replies[q]
  BY <1>0, <1>1, <1>2, Zenon
<1>4. /\ Len(log'[r]) = Len(log[r]) + 1 /\ log'[r][Len(log[r]) + 1] = e
      /\ \A k \in 1..Len(log[r]) : log'[r][k] = log[r][k]
  <2>1. log[r] \in Seq(LogEntry)
    BY <1>0
  <2> QED
    BY <1>3, <2>1, Appended
<1>5. Len(log'[r]) = Len(script) /\ log'[r][Len(script)] = e
  BY <1>0, <1>1, <1>4
<1>6. Head(replies'[r]).command = e.reply
  BY <1>3
<1> QED
  BY <1>1, <1>3, <1>4, <1>5, <1>6, Zenon

LEMMA AnsweredKeptBySteps ==
  ASSUME IInv, ScriptAt, Following, Answered, NEW r \in Runners, StepRunner(r),
         UNCHANGED runnerVars
  PROVE  Answered'
<1>0. UNCHANGED <<pc, cursor, identities, script>>
  BY DEF runnerVars
<1>1. \A q \in Elements(identities) : q \in Runners
  BY ElementOfSeq, LenProperties DEF IInv, TypeOK, RunnerTypeOK, Elements
<1>2. CASE pc = "aborted"
  BY <1>0, <1>2 DEF Answered, InRound, Waiting
<1>3. CASE pc # "aborted" /\ Handler(r)
  <2>1. /\ r \in Elements(cursor) /\ Len(log'[r]) = Len(script)
        /\ \A q \in Runners : q # r => log'[q] = log[q] /\ replies'[q] = replies[q]
        /\ log'[r][Len(script)].reply = Head(replies'[r]).command
    BY <1>3, HandlerAdds
  <2> QED
    BY <1>0, <1>1, <2>1 DEF Answered, Elements, InRound
<1>4. CASE ~Handler(r)
  <2>1. /\ log' = log
        /\ \A q \in Elements(identities) : replies'[q] # <<>> =>
             replies[q] # <<>> /\ Head(replies'[q]) = Head(replies[q])
    BY <1>4, QuietSteps, Zenon
  <2> QED
    BY <1>0, <2>1 DEF Answered, Elements, InRound
<1> QED
  BY <1>2, <1>3, <1>4

LEMMA CountedKeptByRunner ==
  ASSUME IInv, Answered, Counted, RunnerThread, UNCHANGED stepsVars
  PROVE  Counted'
<1>0. /\ log' = log /\ tally \in Tallies
      /\ Len(cursor) \in Nat /\ Len(identities) \in Nat /\ cursor \in Seq(Runners)
  BY LenProperties DEF stepsVars, IInv, TypeOK, RunnerTypeOK, Tallies
<1>1. CASE Prepares \/ Aborts
  BY <1>1 DEF Prepares, Aborts, Counted
<1>2. CASE Passes
  <2>1. pc' \in {"file", "pickle", "errors", "done", "step"}
    BY <1>2, Zenon DEF Passes
  <2> QED
    BY <2>1 DEF Counted
<1>3. CASE Asks
  <2>1. /\ cursor' = identities /\ identities' = identities
        /\ pc' \in {"run", "ran"} => tally' = NoAnswer
    BY <1>3 DEF Asks
  <2>2. Before' = {}
    BY <2>1 DEF Before, Elements
  <2>3. Sum(NoAnswer) = 0 /\ ~(NoAnswer.succeeded > 0) /\ ~(NoAnswer.failed > 0)
    BY DEF Sum, NoAnswer
  <2>4. Len(identities') - Len(cursor') = 0
    BY <1>0, <2>1
  <2>5. \A answer : ~GaveSome(answer)'
    BY <2>2, Zenon DEF GaveSome
  <2> QED
    BY <2>1, <2>2, <2>3, <2>4, <2>5, Zenon DEF Counted
<1>4. CASE Sends
  <2>1. /\ UNCHANGED <<cursor, identities, script, tally>>
        /\ pc' \in {"run", "ran"} => pc \in {"run", "ran"}
    BY <1>4 DEF Sends
  <2> QED
    BY <1>0, <2>1 DEF Counted, GaveSome, Before, Elements
<1>5. ASSUME NEW h \in Runners, Accepts(h), pc' \in {"run", "ran"} PROVE Counted'
  <2> DEFINE command == Head(replies[h]).command
  <2>1. /\ pc = "ran" /\ pc' = "run" /\ command \in StepAnswers
        /\ tally' = Count(tally, command)
        /\ h = Head(cursor) /\ replies[h] # <<>>
        /\ Elements(cursor) = {h} \cup Elements(cursor')
        /\ h \notin Elements(cursor') /\ h \in Elements(identities)
        /\ cursor # <<>> /\ cursor' = Tail(cursor)
        /\ UNCHANGED <<identities, script>>
    <3>1. pc' = "run"
      BY <1>5 DEF Accepts
    <3> QED
      BY <1>5, <3>1 DEF Accepts
  <2>2. pc \in Waiting /\ InRound
    BY <2>1 DEF InRound, Waiting
  <2>3. log[h][Len(script)].reply = command
    BY <2>1, <2>2, Zenon DEF Answered
  <2>4. /\ Sum(tally) = Len(identities) - Len(cursor)
        /\ tally.succeeded > 0 <=> GaveSome(Success)
        /\ tally.failed > 0 <=> GaveSome(Failure)
        /\ \A r \in Before : log[r][Len(script)].reply \in StepAnswers
    BY <2>1 DEF Counted
  <2>5. Elements(cursor)' = Elements(cursor') /\ Elements(identities)' = Elements(identities)
    BY <2>1, Zenon DEF Elements
  <2>6. Before' = {h} \cup Before
    BY <2>1, <2>5 DEF Before
  <2>7. \A answer : GaveSome(answer)' <=> (GaveSome(answer) \/ command = answer)
    BY <1>0, <2>1, <2>3, <2>6, Zenon DEF GaveSome
  <2>8. Sum(tally') = Len(identities') - Len(cursor')
    <3>1. Len(cursor') = Len(cursor) - 1
      BY <1>0, <2>1
    <3>2. Sum(tally') = Sum(tally) + 1
      BY <1>0, <2>1, CountAdds, Zenon
    <3> QED
      BY <1>0, <2>1, <2>4, <3>1, <3>2
  <2>9. /\ tally'.succeeded > 0 <=> GaveSome(Success)'
        /\ tally'.failed > 0 <=> GaveSome(Failure)'
    BY <1>0, <2>1, <2>4, <2>7, CountAdds, Zenon
  <2>10. \A r \in Before' : log'[r][Len(script')].reply \in StepAnswers
    BY <1>0, <2>1, <2>3, <2>4, <2>6
  <2>11. Sum(tally)' = Sum(tally')
    BY DEF Sum
  <2> QED
    BY <2>8, <2>9, <2>10, <2>11 DEF Counted
<1>6. ASSUME NEW h \in Runners, Accepts(h), pc' \notin {"run", "ran"} PROVE Counted'
  BY <1>6, Zenon DEF Counted
<1> QED
  BY <1>1, <1>2, <1>3, <1>4, <1>5, <1>6, RunnerSteps, Zenon

LEMMA CountedKeptBySteps ==
  ASSUME IInv, ScriptAt, Following, Counted, NEW r \in Runners, StepRunner(r),
         UNCHANGED runnerVars
  PROVE  Counted'
<1>0. UNCHANGED <<pc, cursor, identities, script, tally>>
  BY DEF runnerVars
<1>1. \A q \in Elements(identities) : q \in Runners
  BY ElementOfSeq, LenProperties DEF IInv, TypeOK, RunnerTypeOK, Elements
<1>2. ASSUME pc # "aborted", NEW q \in Before
      PROVE  log'[q] = log[q]
  <2>1. CASE Handler(r)
    BY <1>1, <1>2, <2>1, HandlerAdds, Zenon DEF Before
  <2>2. CASE ~Handler(r)
    BY <2>2, OtherSteps, Zenon DEF IInv, TypeOK
  <2> QED
    BY <2>1, <2>2
<1>3. CASE pc \in {"run", "ran"}
  <2>1. pc # "aborted"
    BY <1>3
  <2>2. Before' = Before
    BY <1>0 DEF Before, Elements
  <2>3. \A answer : GaveSome(answer)' <=> GaveSome(answer)
    BY <1>0, <1>2, <2>1, <2>2 DEF GaveSome
  <2>4. Sum(tally)' = Sum(tally)
    BY <1>0 DEF Sum
  <2> QED
    BY <1>0, <1>2, <1>3, <2>1, <2>2, <2>3, <2>4 DEF Counted
<1>4. CASE pc \notin {"run", "ran"}
  BY <1>0, <1>4, Zenon DEF Counted
<1> QED
  BY <1>3, <1>4

LEMMA CountedInvariant ==
  Spec => [](Answered /\ Counted)
<1>1. /\ IInv /\ ScriptAt /\ Following /\ Answered /\ Counted /\ [Next]_vars
           => (Answered /\ Counted)'
  <2> SUFFICES ASSUME IInv, ScriptAt, Following, Answered, Counted, [Next]_vars
               PROVE  Answered' /\ Counted'
    OBVIOUS
  <2>1. CASE UNCHANGED vars
    <3>1. UNCHANGED <<pc, cursor, identities, script, tally, log, replies>>
      BY <2>1 DEF vars, runnerVars, stepsVars, transportVars
    <3> QED
      BY <3>1 DEF Answered, Counted, InRound, Elements, GaveSome, Before, Sum
  <2>2. CASE RunnerThread /\ UNCHANGED stepsVars
    BY <2>2, AnsweredKeptByRunner, CountedKeptByRunner
  <2>3. ASSUME NEW r \in Runners, StepRunner(r), UNCHANGED runnerVars
        PROVE  Answered' /\ Counted'
    BY <2>3, AnsweredKeptBySteps, CountedKeptBySteps
  <2> QED
    BY <2>1, <2>2, <2>3 DEF Next, Finished
<1>2. Init => Answered /\ Counted
  BY DEF Init, FeatureRunnerInit, Answered, Counted, InRound, Waiting
<1> QED
  BY <1>1, <1>2, ScriptInvariant, Invariance, PTL DEF Spec

-----------------------------------------------------------------------------
(***************************************************************************)
(* The verdicts.                                                           *)
(***************************************************************************)
GaveAt(p, answer) == \E r \in Elements(identities) : log[r][p].reply = answer

(* A verdict agrees with the answers to its step.                          *)
Agrees(v) ==
  /\ StepAskedAt(v.at)
  /\ v.verdict = Ok <=> GaveAt(v.at, Success)
  /\ v.verdict = NotOk <=> GaveAt(v.at, Failure) /\ ~GaveAt(v.at, Success)
  /\ v.verdict = Unknown <=>
       \A r \in Elements(identities) : log[r][v.at].reply = NotFound

(* It is on a request everyone has handled, and no longer under way.       *)
Settled(v) ==
  /\ v.at \in 1..Len(script)
  /\ pc \in {"run", "ran"} => v.at # Len(script)
  /\ \A r \in Elements(identities) : v.at \in 1..Len(log[r])

Reports ==
  /\ \A k \in DOMAIN report : Settled(report[k]) /\ Agrees(report[k])
  /\ \A j, k \in DOMAIN report : j < k => report[j].at < report[k].at

AllJudged ==
  \A p \in 1..Len(script) : StepAskedAt(p) =>
    \/ \E k \in DOMAIN report : report[k].at = p
    \/ p = Len(script) /\ pc \in {"run", "ran", "aborted"}

ResultOfReport ==
  isSuccessful <=> \A k \in DOMAIN report : report[k].verdict # NotOk

VerdictsInv == Reports /\ AllJudged /\ ResultOfReport

(* The verdict on the tally of all step runners.                           *)
LEMMA VerdictOfTally ==
  ASSUME IInv, Counted, pc = "run", cursor = <<>>, NEW p, p = Len(script)
  PROVE  /\ Verdict(tally) = Ok <=> GaveAt(p, Success)
         /\ Verdict(tally) = NotOk <=> GaveAt(p, Failure) /\ ~GaveAt(p, Success)
         /\ Verdict(tally) = Unknown <=>
              \A r \in Elements(identities) : log[r][p].reply = NotFound
<1>1. /\ tally \in Tallies /\ Len(identities) \in Nat /\ Len(cursor) = 0
  BY LenProperties DEF IInv, TypeOK, RunnerTypeOK, Tallies
<1>2. Before = Elements(identities)
  <2>1. DOMAIN cursor = {}
    OBVIOUS
  <2> QED
    BY <2>1, Zenon DEF Before, Elements
<1>3. /\ Sum(tally) = Len(identities) - Len(cursor)
      /\ tally.succeeded > 0 <=> GaveAt(p, Success)
      /\ tally.failed > 0 <=> GaveAt(p, Failure)
      /\ \A r \in Elements(identities) : log[r][p].reply \in StepAnswers
  BY <1>2 DEF Counted, GaveSome, GaveAt
<1>4. ~(tally.succeeded > 0) /\ ~(tally.failed > 0) => tally.missing = Len(identities)
  BY <1>1, <1>3 DEF Sum, Tallies
<1>5. (\A r \in Elements(identities) : log[r][p].reply = NotFound)
        <=> ~GaveAt(p, Success) /\ ~GaveAt(p, Failure)
  BY <1>3, AnswersDiffer, Zenon DEF GaveAt
<1> QED
  BY <1>1, <1>3, <1>4, <1>5, VerdictCases, Zenon

(* Verdicts stay true of logs that grow, and of a script that grows.       *)
LEMMA AgreesStill ==
  ASSUME NEW v, v.at \in 1..Len(script), Agrees(v),
         \A r \in Elements(identities) : v.at \in 1..Len(log[r]),
         identities' = identities,
         \A r \in Elements(identities) :
           \A k \in 1..Len(log[r]) : log'[r][k] = log[r][k],
         \A p \in 1..Len(script) : script'[p] = script[p]
  PROVE  Agrees(v)'
<1>1. \A r \in Elements(identities) : log'[r][v.at] = log[r][v.at]
  OBVIOUS
<1>2. Elements(identities)' = Elements(identities)
  BY DEF Elements
<1>3. \A answer : GaveAt(v.at, answer)' <=> GaveAt(v.at, answer)
  BY <1>1, <1>2, Zenon DEF GaveAt
<1>4. StepAskedAt(v.at)' <=> StepAskedAt(v.at)
  BY Zenon DEF StepAskedAt
<1> QED
  BY <1>1, <1>2, <1>3, <1>4, Zenon DEF Agrees

LEMMA VerdictsInit ==
  Init => VerdictsInv
<1> SUFFICES ASSUME Init PROVE VerdictsInv
  OBVIOUS
<1>1. /\ report = <<>> /\ script = <<>> /\ isSuccessful = TRUE
  BY DEF Init, FeatureRunnerInit
<1>2. DOMAIN report = {} /\ 1..Len(script) = {}
  BY <1>1
<1> QED
  BY <1>1, <1>2, Zenon DEF VerdictsInv, Reports, AllJudged, ResultOfReport

(* What the steps of step runners and most of the feature runner keep.     *)
LEMMA VerdictsKeptElsewhere ==
  ASSUME VerdictsInv, UNCHANGED <<identities, script, report, isSuccessful>>,
         \A r \in Elements(identities) :
           /\ Len(log[r]) \in Nat /\ Len(log'[r]) \in Nat
           /\ Len(log[r]) <= Len(log'[r])
           /\ \A k \in 1..Len(log[r]) : log'[r][k] = log[r][k],
         pc' \in {"run", "ran"} => pc \in {"run", "ran"},
         pc \in {"run", "ran", "aborted"} => pc' \in {"run", "ran", "aborted"}
  PROVE  VerdictsInv'
<1>1. ASSUME NEW k \in DOMAIN report
      PROVE  Settled(report[k])' /\ Agrees(report[k])'
  <2>1. Settled(report[k]) /\ Agrees(report[k])
    BY Zenon DEF VerdictsInv, Reports
  <2>2. Agrees(report[k])'
    BY <2>1, AgreesStill DEF Settled
  <2>3. Settled(report[k])'
    BY <2>1 DEF Settled, Elements
  <2> QED
    BY <2>2, <2>3
<1>2. Reports'
  BY <1>1, Zenon DEF VerdictsInv, Reports
<1>3. AllJudged'
  <2>1. \A p : StepAskedAt(p)' <=> StepAskedAt(p)
    BY Zenon DEF StepAskedAt
  <2> QED
    BY <2>1 DEF VerdictsInv, AllJudged
<1>4. ResultOfReport'
  BY Zenon DEF VerdictsInv, ResultOfReport
<1> QED
  BY <1>2, <1>3, <1>4 DEF VerdictsInv

(* A verdict that is true of the next state is one on what report is then. *)
LEMMA ReportsNext ==
  ASSUME \A k \in DOMAIN report' : \E x : x = report'[k] /\ Settled(x)' /\ Agrees(x)',
         \A j, k \in DOMAIN report' : j < k => report'[j].at < report'[k].at
  PROVE  Reports'
<1>1. ASSUME NEW k \in DOMAIN report', NEW x, x = report'[k], Settled(x)', Agrees(x)'
      PROVE  Settled(report[k])' /\ Agrees(report[k])'
  <2>1. Settled(report[k])'
    BY <1>1, Zenon DEF Settled, Elements
  <2>2. Agrees(report[k])'
    BY <1>1, Zenon DEF Agrees, GaveAt, StepAskedAt, Elements
  <2> QED
    BY <2>1, <2>2
<1> QED
  BY <1>1, Zenon DEF Reports

LEMMA VerdictsKeptByRunner ==
  ASSUME IInv, ScriptAt, Answered, Counted, VerdictsInv, RunnerThread,
         UNCHANGED stepsVars
  PROVE  VerdictsInv'
<1>0. /\ log' = log /\ script \in Seq(ScriptEntry) /\ Len(script) \in Nat
      /\ report \in Seq(Report) /\ Len(report) \in Nat
      /\ DOMAIN report = 1..Len(report)
      /\ isSuccessful \in BOOLEAN
      /\ \A r \in Elements(identities) : log[r] \in Seq(LogEntry) /\ Len(log[r]) \in Nat
  <2>1. /\ script \in Seq(ScriptEntry) /\ report \in Seq(Report)
        /\ identities \in Seq(Runners) /\ log' = log /\ isSuccessful \in BOOLEAN
        /\ log \in [Runners -> Seq(LogEntry)]
    BY DEF IInv, TypeOK, RunnerTypeOK, StepsTypeOK, ScriptEntry, LogEntry, stepsVars
  <2>2. \A r \in Elements(identities) : r \in Runners
    BY <2>1, ElementOfSeq, LenProperties DEF Elements
  <2> QED
    BY <2>1, <2>2, LenProperties
<1>1. /\ Reports /\ AllJudged /\ ResultOfReport
  BY DEF VerdictsInv
<1>2. ASSUME UNCHANGED <<identities, script, report, isSuccessful>>,
             pc' \in {"run", "ran"} => pc \in {"run", "ran"},
             pc \in {"run", "ran", "aborted"} => pc' \in {"run", "ran", "aborted"}
      PROVE  VerdictsInv'
  BY <1>0, <1>2, VerdictsKeptElsewhere
<1>3. CASE Prepares
  <2>1. /\ script' = <<>> /\ report' = <<>> /\ report = <<>>
        /\ isSuccessful' = isSuccessful
    BY <1>3 DEF Prepares, ScriptAt
  <2>2. DOMAIN report' = {} /\ DOMAIN report = {} /\ 1..Len(script') = {}
    BY <2>1
  <2> QED
    BY <1>1, <2>1, <2>2, Zenon DEF VerdictsInv, Reports, AllJudged, ResultOfReport
<1>4. CASE Sends
  BY <1>2, <1>4 DEF Sends
<1>5. ASSUME NEW h \in Runners, Accepts(h) PROVE VerdictsInv'
  <2>1. /\ UNCHANGED <<identities, script, report, isSuccessful>>
        /\ \/ pc = "started" /\ pc' = "start"
           \/ pc = "ran" /\ pc' = "run"
           \/ pc = "ended" /\ pc' = "end"
    BY <1>5, Zenon DEF Accepts
  <2> QED
    BY <1>2, <2>1
<1>6. CASE Aborts
  BY <1>2, <1>6 DEF Aborts
<1>7. CASE Asks
  <2>1. PICK entry \in ScriptEntry :
          /\ script' = Append(script, entry)
          /\ \/ pc' = "start" /\ entry.frames = StartRequest(pickle')
             \/ pc' = "run"
             \/ pc' = "end" /\ entry.frames = EndRequest(pickle')
    BY <1>7, Zenon DEF Asks
  <2>2. /\ UNCHANGED <<identities, report, isSuccessful>>
        /\ pc \in {"pickle", "step"}
    BY <1>7 DEF Asks
  <2>3. /\ Len(script') = Len(script) + 1 /\ script'[Len(script) + 1] = entry
        /\ \A p \in 1..Len(script) : script'[p] = script[p]
    BY <1>0, <2>1, Appended
  <2>4. ASSUME NEW k \in DOMAIN report
        PROVE  Settled(report[k])' /\ Agrees(report[k])'
    <3>1. Settled(report[k]) /\ Agrees(report[k])
      BY <1>1, Zenon DEF Reports
    <3>2. Agrees(report[k])'
      BY <1>0, <2>2, <2>3, <3>1, AgreesStill DEF Settled
    <3>3. Settled(report[k])'
      BY <1>0, <2>2, <2>3, <3>1 DEF Settled, Elements
    <3> QED
      BY <3>2, <3>3
  <2>5. Reports'
    BY <1>1, <2>2, <2>4, Zenon DEF Reports
  <2>6. AllJudged'
    <3>1. ASSUME NEW p \in 1..Len(script), StepAskedAt(p)'
          PROVE  \E k \in DOMAIN report : report[k].at = p
      <4>1. StepAskedAt(p)
        BY <2>3, <3>1, Zenon DEF StepAskedAt
      <4>2. pc \notin {"run", "ran", "aborted"}
        BY <2>2
      <4> QED
        BY <1>1, <4>1, <4>2, Zenon DEF AllJudged
    <3>2. ASSUME NEW n, n = Len(script) + 1, StepAskedAt(n)'
          PROVE  pc' = "run"
      <4>1. entry.frames[1] = "RUN STEP"
        BY <2>3, <3>2, Zenon DEF StepAskedAt
      <4>2. /\ StartRequest(pickle')[1] = "START SCENARIO"
            /\ EndRequest(pickle')[1] = "END SCENARIO"
        BY TupleParts, Zenon DEF StartRequest, EndRequest
      <4>3. /\ "START SCENARIO" # "RUN STEP" /\ "END SCENARIO" # "RUN STEP"
        BY Zenon
      <4> QED
        BY <2>1, <4>1, <4>2, <4>3, Zenon
    <3>3. \A p \in 1..Len(script') : p \in 1..Len(script) \/ p = Len(script) + 1
      BY <1>0, <2>3
    <3>4. "run" \in {"run", "ran", "aborted"}
      OBVIOUS
    <3> QED
      BY <2>2, <2>3, <3>1, <3>2, <3>3, <3>4, Zenon DEF AllJudged
  <2>7. ResultOfReport'
    BY <1>1, <2>2, Zenon DEF ResultOfReport
  <2> QED
    BY <2>5, <2>6, <2>7 DEF VerdictsInv
<1>8. CASE Passes /\ pc # "run"
  <2>1. /\ UNCHANGED <<identities, script, report, isSuccessful>>
        /\ pc' \in {"file", "pickle", "errors", "done", "step"}
        /\ pc \in {"start", "end", "file", "pickle", "errors"}
    <3>1. UNCHANGED <<identities, script, report, isSuccessful>>
      BY <1>8, Zenon DEF Passes
    <3> QED
      BY <1>8, <3>1 DEF Passes
  <2> QED
    BY <1>2, <2>1
<1>9. CASE Passes /\ pc = "run"
  <2>2. PICK v : v = [at |-> Len(script), verdict |-> Verdict(tally)]
    OBVIOUS
  <2>3. v.at = Len(script) /\ v.verdict = Verdict(tally) /\ v \in Report
    <3>1. Verdict(tally) \in Verdicts
      BY Zenon DEF Verdict, Verdicts
    <3> QED
      BY <1>0, <2>2, <3>1, Zenon DEF Report
  <2>1. /\ UNCHANGED <<identities, script>> /\ cursor = <<>>
        /\ pc' \in {"file", "pickle", "errors", "done", "step"}
        /\ report' = Append(report, v)
        /\ isSuccessful' = (isSuccessful /\ Verdict(tally) # NotOk)
    <3>1. /\ report' = Append(report, v)
          /\ isSuccessful' = (isSuccessful /\ Verdict(tally) # NotOk)
          /\ UNCHANGED <<identities, script>>
      BY <1>9, <2>2, Zenon DEF Passes, NotOk
    <3>2. /\ pc' \in {"file", "pickle", "errors", "done", "step"}
          /\ cursor = <<>> \/ pc \in {"file", "pickle", "errors"}
      BY <1>9, Zenon DEF Passes
    <3> QED
      BY <1>9, <3>1, <3>2
  <2>4. /\ DOMAIN report' = 1..(Len(report) + 1) /\ report'[Len(report) + 1] = v
        /\ \A k \in DOMAIN report : report'[k] = report[k]
    BY <1>0, <2>1, <2>3, Appended
  <2>5. InRound /\ pc \notin Waiting /\ script # <<>> /\ Len(script) \in 1..Len(script)
    <3>1. InRound /\ pc \notin Waiting
      BY <1>9 DEF InRound, Waiting
    <3>2. script # <<>>
      BY <3>1 DEF ScriptAt
    <3> QED
      BY <1>0, <3>1, <3>2, EmptySeq
  <2>6. \A r \in Elements(identities) : Len(log[r]) = Len(script)
    <3>1. Elements(cursor) = {}
      <4>1. DOMAIN cursor = {}
        BY <2>1
      <4> QED
        BY <4>1, Zenon DEF Elements
    <3> QED
      BY <2>5, <3>1, Zenon DEF Answered
  <2>7. StepAskedAt(Len(script))
    <3>1. script[Len(script)].frames = StepRequest(pickle, Head(steps))
      BY <1>9 DEF ScriptAt, Last
    <3>2. StepRequest(pickle, Head(steps))[1] = "RUN STEP"
      BY Zenon DEF StepRequest
    <3> QED
      BY <3>1, <3>2, Zenon DEF StepAskedAt
  <2>8. Agrees(v)
    BY <1>9, <2>1, <2>3, <2>7, VerdictOfTally, Zenon DEF Agrees
  <2>9. pc' \notin {"run", "ran", "aborted"}
    BY <2>1
  <2>10. Settled(v)'
    BY <1>0, <2>1, <2>3, <2>5, <2>6, <2>9 DEF Settled, Elements
  <2>11. Agrees(v)'
    BY <1>0, <2>1, <2>3, <2>5, <2>6, <2>8, AgreesStill
  <2>12. ASSUME NEW k \in DOMAIN report, NEW x, x = report[k]
         PROVE  Settled(x)' /\ Agrees(x)' /\ x.at < Len(script)
    <3>1. Settled(x) /\ Agrees(x)
      BY <1>1, <2>12, Zenon DEF Reports
    <3>2. Agrees(x)'
      BY <1>0, <2>1, <3>1, AgreesStill DEF Settled
    <3>3. Settled(x)' /\ x.at < Len(script)
      BY <1>0, <1>9, <2>1, <2>9, <3>1 DEF Settled, Elements
    <3> QED
      BY <3>2, <3>3
  <2>13. \A k \in DOMAIN report' : k \in DOMAIN report \/ k = Len(report) + 1
    BY <1>0, <2>4
  <2>14. /\ \A k \in DOMAIN report : k \in DOMAIN report'
         /\ Len(report) + 1 \in DOMAIN report'
         /\ \A k \in DOMAIN report : ~(Len(report) + 1 < k)
         /\ ~(Len(report) + 1 < Len(report) + 1)
    BY <1>0, <2>4
  <2>15. Reports'
    <3>1. \A k \in DOMAIN report' : \E x : x = report'[k] /\ Settled(x)' /\ Agrees(x)'
      BY <2>4, <2>10, <2>11, <2>12, <2>13, Zenon
    <3>2. \A j, k \in DOMAIN report' : j < k => report'[j].at < report'[k].at
      BY <1>1, <2>3, <2>4, <2>12, <2>13, <2>14, Zenon DEF Reports
    <3> QED
      BY <3>1, <3>2, ReportsNext
  <2>16. AllJudged'
    BY <1>1, <2>1, <2>3, <2>4, <2>14, Zenon DEF AllJudged, StepAskedAt
  <2>17. ResultOfReport'
    <3>1. (\A k \in DOMAIN report' : report'[k].verdict # NotOk) <=>
            /\ \A k \in DOMAIN report : report[k].verdict # NotOk
            /\ v.verdict # NotOk
      BY <2>4, <2>13, <2>14, Zenon
    <3> QED
      BY <1>1, <2>1, <2>3, <3>1, Zenon DEF ResultOfReport
  <2> QED
    BY <2>15, <2>16, <2>17 DEF VerdictsInv
<1> QED
  BY <1>3, <1>4, <1>5, <1>6, <1>7, <1>8, <1>9, RunnerSteps, Zenon

LEMMA VerdictsKeptBySteps ==
  ASSUME IInv, VerdictsInv, NEW r \in Runners, StepRunner(r), UNCHANGED runnerVars
  PROVE  VerdictsInv'
<1>0. /\ UNCHANGED <<pc, identities, script, report, isSuccessful>>
      /\ log \in [Runners -> Seq(LogEntry)]
      /\ \A q \in Elements(identities) : q \in Runners
  <2>1. identities \in Seq(Runners) /\ log \in [Runners -> Seq(LogEntry)]
    BY DEF IInv, TypeOK, RunnerTypeOK, StepsTypeOK, LogEntry
  <2> QED
    BY <2>1, ElementOfSeq, LenProperties DEF runnerVars, Elements
<1>1. ASSUME NEW q \in Elements(identities)
      PROVE  /\ Len(log[q]) \in Nat /\ Len(log'[q]) \in Nat
             /\ Len(log[q]) <= Len(log'[q])
             /\ \A k \in 1..Len(log[q]) : log'[q][k] = log[q][k]
  <2>0. log[q] \in Seq(LogEntry) /\ Len(log[q]) \in Nat
    BY <1>0, LenProperties
  <2>1. CASE Handler(r) /\ q = r
    <3>1. PICK e \in LogEntry : log' = [log EXCEPT ![r] = Append(@, e)]
      BY <2>1, HandlerLogs, Zenon
    <3>2. log'[q] = Append(log[q], e)
      BY <1>0, <2>1, <3>1, Zenon
    <3> QED
      BY <2>0, <3>2, Appended
  <2>2. CASE Handler(r) /\ q # r
    <3>1. PICK e \in LogEntry : log' = [log EXCEPT ![r] = Append(@, e)]
      BY <2>2, HandlerLogs, Zenon
    <3>2. log'[q] = log[q]
      BY <1>0, <2>2, <3>1, Zenon
    <3> QED
      BY <2>0, <3>2
  <2>3. CASE ~Handler(r)
    <3>1. log' = log
      BY <2>3, OtherSteps DEF IInv, TypeOK
    <3> QED
      BY <2>0, <3>1
  <2> QED
    BY <2>1, <2>2, <2>3
<1> QED
  BY <1>0, <1>1, VerdictsKeptElsewhere

LEMMA VerdictsInvariant ==
  Spec => []VerdictsInv
<1>1. IInv /\ ScriptAt /\ Answered /\ Counted /\ VerdictsInv /\ [Next]_vars => VerdictsInv'
  <2> SUFFICES ASSUME IInv, ScriptAt, Answered, Counted, VerdictsInv, [Next]_vars
               PROVE  VerdictsInv'
    OBVIOUS
  <2>1. CASE UNCHANGED vars
    <3>1. UNCHANGED <<pc, identities, script, report, isSuccessful, log>>
      BY <2>1 DEF vars, runnerVars, stepsVars, transportVars
    <3>2. \A q \in Elements(identities) : log[q] \in Seq(LogEntry) /\ Len(log[q]) \in Nat
      <4>1. identities \in Seq(Runners) /\ log \in [Runners -> Seq(LogEntry)]
        BY DEF IInv, TypeOK, RunnerTypeOK, StepsTypeOK, LogEntry
      <4> QED
        BY <4>1, ElementOfSeq, LenProperties DEF Elements
    <3> QED
      BY <3>1, <3>2, VerdictsKeptElsewhere
  <2>2. CASE RunnerThread /\ UNCHANGED stepsVars
    BY <2>2, VerdictsKeptByRunner
  <2>3. ASSUME NEW r \in Runners, StepRunner(r), UNCHANGED runnerVars
        PROVE  VerdictsInv'
    BY <2>3, VerdictsKeptBySteps
  <2> QED
    BY <2>1, <2>2, <2>3 DEF Next, Finished
<1> QED
  BY <1>1, VerdictsInit, CountedInvariant, ScriptInvariant, Invariance, PTL DEF Spec

(* What is printed for each step is what the step runners of the run have  *)
(* answered to it, and no step is left out, whoever dies or joins late.    *)
THEOREM VerdictsTrue ==
  Spec => []VerdictsAgree
<1>1. ASSUME VerdictsInv, NEW k \in DOMAIN report
      PROVE  /\ script[report[k].at].frames[1] = "RUN STEP"
             /\ report[k].verdict = "OK" <=> "STEP SUCCEEDED" \in Answers(k)
             /\ report[k].verdict = "FAILURE" <=>
                  "STEP FAILED" \in Answers(k) /\ "STEP SUCCEEDED" \notin Answers(k)
             /\ report[k].verdict = "NOT FOUND" <=> Answers(k) \subseteq {"STEP NOT FOUND"}
  <2>1. Agrees(report[k])
    BY <1>1, Zenon DEF VerdictsInv, Reports
  <2>2. \A x : x \in Answers(k) <=> GaveAt(report[k].at, x)
    BY Zenon DEF Answers, GaveAt
  <2>3. Answers(k) \subseteq {NotFound} <=>
          \A r \in Elements(identities) : log[r][report[k].at].reply = NotFound
    BY Zenon DEF Answers
  <2> QED
    BY <2>1, <2>2, <2>3, Zenon
       DEF Agrees, StepAskedAt, Ok, NotOk, Unknown, Success, Failure, NotFound
<1>2. ASSUME VerdictsInv, IInv, NEW p \in 1..(Len(script) - 1),
             script[p].frames[1] = "RUN STEP"
      PROVE  \E k \in DOMAIN report : report[k].at = p
  <2>1. Len(script) \in Nat
    BY <1>2, LenProperties DEF IInv, TypeOK, RunnerTypeOK
  <2>2. p \in 1..Len(script) /\ p # Len(script)
    BY <2>1
  <2> QED
    BY <1>2, <2>2, Zenon DEF VerdictsInv, AllJudged, StepAskedAt
<1>3. VerdictsInv /\ IInv => VerdictsAgree
  BY <1>1, <1>2, Zenon DEF VerdictsAgree, VerdictsInv, Reports
<1> QED
  BY <1>3, VerdictsInvariant, Invariance, PTL

(* run returns true exactly when each step that failed at a step runner    *)
(* succeeded at another.                                                   *)
THEOREM ResultTrue ==
  Spec => []ResultAgrees
<1>1. ASSUME VerdictsInv
      PROVE  isSuccessful <=>
               \A k \in DOMAIN report :
                 "STEP FAILED" \in Answers(k) => "STEP SUCCEEDED" \in Answers(k)
  <2>1. \A k \in DOMAIN report : Agrees(report[k])
    BY <1>1, Zenon DEF VerdictsInv, Reports
  <2>2. \A k \in DOMAIN report : \A x : x \in Answers(k) <=> GaveAt(report[k].at, x)
    BY Zenon DEF Answers, GaveAt
  <2>3. \A k \in DOMAIN report :
          report[k].verdict # NotOk <=>
            ("STEP FAILED" \in Answers(k) => "STEP SUCCEEDED" \in Answers(k))
    BY <2>1, <2>2, Zenon DEF Agrees, Success, Failure
  <2> QED
    BY <1>1, <2>3, Zenon DEF VerdictsInv, ResultOfReport
<1>2. VerdictsInv => ResultAgrees
  BY <1>1, Zenon DEF ResultAgrees
<1> QED
  BY <1>2, VerdictsInvariant, PTL

-----------------------------------------------------------------------------
(***************************************************************************)
(* Feature runners one after another.                                      *)
(***************************************************************************)
Preparing == pc \in {"list", "collect"}

(* What a step runner can have on its way while a feature runner is being  *)
(* prepared: a greeting or an answer, or one request of an earlier one.    *)
Leftover(r) ==
  /\ requests[r] # <<>> => IsRequest(requests[r]) /\ replies[r] = <<>>
  /\ Len(replies[r]) <= 1
  /\ r \in Elements(identities) => requests[r] = <<>> /\ replies[r] = <<>>

Connected(r) ==
  /\ main[r] = "boot" => actor[r] = "none"
  /\ r \in peers <=> actor[r] \in {"loop", "terminated"}
  /\ actor[r] \in {"none", "init"} =>
       /\ requests[r] = <<>>
       /\ replies[r] = <<>>
       /\ r \notin Elements(identities)

(* Once run is called all of it was collected, and what IInv says of the   *)
(* wire holds of this run as of the first.                                 *)
Carried ==
  IF Preparing
  THEN \A r \in Runners : Leftover(r) /\ Connected(r)
  ELSE Wire /\ Greetings

RerunInv ==
  /\ TypeOK /\ Positions /\ Lists /\ Collected
  /\ AssertionsHold
  /\ Carried

(* What r handled since run was called, once it was. *)
Done(r) == Len(log[r]) - mark[r]

FollowedSince(r) ==
  /\ mark[r] <= Len(log[r])
  /\ \A k \in 1..Done(r) : log[r][mark[r] + k].frames = script[k].frames
  /\ ~InRound \/ r \notin Elements(cursor) => Done(r) = Len(script)
  /\ InRound /\ r \in Elements(cursor) =>
       IF pc \in Waiting /\ r = Head(cursor)
       THEN /\ Done(r) \in {Len(script) - 1, Len(script)}
            /\ requests[r] # <<>> => Done(r) = Len(script) - 1
            /\ replies[r] # <<>> => Done(r) = Len(script)
       ELSE Done(r) = Len(script) - 1

FollowingSince ==
  /\ ScriptAt
  /\ mark \in [Runners -> Nat]
  /\ ~Preparing => \A r \in Runners : FollowedSince(r)

(* Who has handled a request of this run has a scenario where Opened says. *)
ScenariosSince ==
  ~Preparing =>
    \A r \in Runners :
      actor[r] = "loop" /\ Done(r) > 0 => (cucumber[r] # NULL <=> Opened(r))

(* The states no scenario has, those about to be, and a START SCENARIO of  *)
(* an earlier run that was not read yet.                                   *)
Fresh(r) == Preparing \/ Done(r) = 0
LostStates(r) == live[r] \ (IF cucumber[r] = NULL THEN {} ELSE {cucumber[r].state})
OpenToLose(r) == cucumber[r] # NULL /\ Fresh(r)
StartToCome(r) ==
  Preparing /\ actor[r] = "loop" /\ requests[r] # <<>>
            /\ Head(requests[r]) = "START SCENARIO"

One(condition) == IF condition THEN 1 ELSE 0

Losses(r) ==
  /\ IsFiniteSet(live[r])
  /\ \A s \in live[r] : s <= built[r]
  /\ Cardinality(LostStates(r)) + One(OpenToLose(r)) + One(StartToCome(r)) < life

LossesCounted ==
  /\ life \in Nat
  /\ \A r \in Constructing \cap Destructing : Losses(r)

(* Each feature runner starts as the first one did.                        *)
LEMMA NewFeatureRunnerTypes ==
  NewFeatureRunner => (RunnerTypeOK /\ Positions /\ Lists /\ Collected /\ Preparing
                       /\ identities = <<>> /\ ScriptAt /\ script = <<>>)'
<1>1. NewFeatureRunner => FeatureRunnerInit'
  BY DEF NewFeatureRunner, FeatureRunnerInit
<1>2. FeatureRunnerInit => Preparing /\ identities = <<>> /\ ScriptAt /\ script = <<>>
  BY DEF FeatureRunnerInit, Preparing, ScriptAt, InRound, Waiting
<1> QED
  BY <1>1, <1>2, FeatureRunnerTypes, PTL

(* In a run, too, no step runner has more than one message on its way.     *)
LEMMA LeftoverAlways ==
  ASSUME Awaited = Runners, RerunInv, NEW r \in Runners
  PROVE  /\ requests[r] # <<>> => IsRequest(requests[r]) /\ replies[r] = <<>>
         /\ Len(replies[r]) <= 1
         /\ Preparing \/ r \in Elements(identities)
         /\ main[r] = "boot" => actor[r] = "none"
         /\ r \in peers <=> actor[r] \in {"loop", "terminated"}
         /\ actor[r] \in {"none", "init"} => requests[r] = <<>> /\ replies[r] = <<>>
<1>0. RunnerTypeOK /\ Positions /\ Collected /\ AssertionsHold
  BY DEF RerunInv, TypeOK
<1>1. CASE Preparing
  BY <1>1 DEF RerunInv, Carried, Leftover, Connected
<1>2. CASE ~Preparing
  <2>1. Wire /\ Greetings
    BY <1>2 DEF RerunInv, Carried
  <2>2. r \in Elements(identities)
    BY <1>0, <1>2 DEF Preparing, Collected, AllAwaited
  <2>3. replies[r] = <<>> \/ Head(replies[r]) # Greeting
    BY <2>1, <2>2 DEF Greetings
  <2>4. requests[r] # <<>> => IsRequest(requests[r])
    BY <1>0, <2>1, RequestsAreWhole
  <2>5. CASE replies[r] = <<>>
    BY <2>1, <2>2, <2>4, <2>5 DEF Greetings
  <2>6. CASE replies[r] # <<>>
    <3>1. requests[r] = <<>> /\ replies[r] = <<Head(replies[r])>>
      BY <1>0, <2>1, <2>3, <2>6, FirstMessage DEF AssertionsHold
    <3>2. Len(replies[r]) = 1
      BY <3>1, ShortTypes, Zenon
    <3> QED
      BY <2>1, <2>2, <3>1, <3>2 DEF Greetings
  <2> QED
    BY <2>5, <2>6
<1> QED
  BY <1>1, <1>2

(* What is left of at most one message when a part of it is taken.         *)
LEMMA LastOfOne ==
  ASSUME NEW S, NEW s \in Seq(S), Len(s) <= 1
  PROVE  /\ s = <<>> \/ (Len(s) = 1 /\ Tail(s) = <<>>)
         /\ \A n \in 0..Len(s) : /\ SubSeq(s, 1, n) \in {<<>>, s}
                                 /\ SubSeq(s, n + 1, Len(s)) \in {<<>>, s}
<1>1. CASE s = <<>>
  BY <1>1
<1>2. CASE s # <<>>
  <2>1. Len(s) \in Nat \ {0}
    BY <1>2, EmptySeq, Zenon
  <2>2. Len(s) = 1
    <3>1. \A n \in Nat \ {0} : n <= 1 => n = 1
      OBVIOUS
    <3> QED
      BY <2>1, <3>1, Zenon
  <2>3. Tail(s) \in Seq(S) /\ Len(Tail(s)) = 0
    BY <1>2, <2>2, HeadTailProperties
  <2>4. Tail(s) = <<>>
    <3>1. Tail(s) # <<>> => Len(Tail(s)) \in Nat \ {0}
      BY <2>3, EmptySeq, Zenon
    <3> QED
      BY <2>3, <3>1
  <2>5. \A n \in 0..Len(s) : n = 0 \/ n = 1
    BY <2>2
  <2>6. SubSeq(s, 1, 0) = <<>> /\ SubSeq(s, 2, 1) = <<>>
    BY SubSeqEmpty
  <2>7. SubSeq(s, 1, 1) = s
    BY <2>2, SubSeqFull
  <2> QED
    BY <2>2, <2>4, <2>5, <2>6, <2>7
<1> QED
  BY <1>1, <1>2

(* It stays so when a step runner greets, answers, leaves or dies.         *)
LEMMA LeftoverKept ==
  ASSUME StepsTypeOK, TransportTypeOK, NEW r \in Runners, StepRunner(r),
         UNCHANGED runnerVars, Leftover(r), Connected(r)
  PROVE  Leftover(r)' /\ Connected(r)'
<1>0. /\ identities' = identities /\ Elements(identities)' = Elements(identities)
      /\ replies[r] \in Seq(Reply)
  BY DEF runnerVars, Elements, TransportTypeOK
<1>1. CASE UNCHANGED <<actor, transportVars>>
           /\ (main'[r] = "boot" => main[r] = "boot")
  BY <1>0, <1>1 DEF Leftover, Connected, transportVars
<1>2. CASE StartActor(r)
  BY <1>0, <1>2 DEF StartActor, Leftover, Connected, transportVars, StepsTypeOK
<1>3. CASE CucumberStepsNew(r)
  <2>1. /\ actor[r] = "init" /\ actor'[r] = "loop" /\ main' = main /\ r \in peers'
        /\ requests' = requests /\ replies'[r] = Append(replies[r], Greeting)
    BY <1>3 DEF CucumberStepsNew, ConnectAndGreet, TransportTypeOK, StepsTypeOK
  <2>2. /\ requests[r] = <<>> /\ replies[r] = <<>> /\ r \notin Elements(identities)
        /\ main[r] # "boot"
    BY <2>1 DEF Connected
  <2>3. replies'[r] = <<Greeting>>
    BY <2>1, <2>2, ShortQueues
  <2>4. Len(replies'[r]) <= 1
    BY <2>3, ShortTypes
  <2> QED
    BY <1>0, <2>1, <2>2, <2>4 DEF Leftover, Connected
<1>4. CASE RecvTerm(r)
  BY <1>0, <1>4 DEF RecvTerm, HasCommand, Leftover, Connected, transportVars,
                    StepsTypeOK
<1>5. CASE Disconnect(r) /\ actor'[r] \in {"gone", "dead"} /\ main'[r] # "boot"
  <2>1. PICK n \in 0..Len(replies[r]) : replies'[r] = SubSeq(replies[r], 1, n)
    BY <1>5 DEF Disconnect, TransportTypeOK
  <2>2. replies'[r] \in {<<>>, replies[r]}
    BY <1>0, <2>1, LastOfOne DEF Leftover
  <2>3. r \notin peers' /\ requests'[r] = <<>>
    BY <1>5 DEF Disconnect, TransportTypeOK
  <2>4. Len(<<>>) <= 1
    BY LenProperties
  <2> QED
    BY <1>0, <1>5, <2>2, <2>3, <2>4 DEF Leftover, Connected
<1>6. CASE Handler(r)
  <2>1. /\ actor[r] = "loop" /\ requests[r] # <<>> /\ requests'[r] = <<>>
        /\ UNCHANGED <<main, actor, peers>>
    BY <1>6, HandlerAnswers DEF Leftover
  <2>2. PICK reply \in Reply : replies' = [replies EXCEPT ![r] = Append(@, reply)]
    BY <1>6, HandlerAnswers DEF Leftover
  <2>3. replies'[r] = <<reply>>
    BY <2>1, <2>2, ShortQueues DEF Leftover, TransportTypeOK
  <2>4. Len(replies'[r]) <= 1
    BY <2>3, ShortTypes
  <2> QED
    BY <1>0, <2>1, <2>4 DEF Leftover, Connected
<1>7. CASE IgnoreFrame(r)
  BY <1>7, FramesOfRequest DEF IgnoreFrame, Leftover
<1>8. CASE MainThread(r) \/ MainInput(r)
  <2>1. CASE ActorStarted(r) \/ DestroyActor(r) \/ Exit(r) \/ AppSends(r) \/ EndOfInput(r)
    BY <1>1, <2>1 DEF ActorStarted, DestroyActor, Exit, AppSends, EndOfInput, StepsTypeOK
  <2> QED
    BY <1>2, <1>8, <2>1 DEF MainThread, MainInput
<1>9. CASE ActorThread(r)
  <2>1. CASE RecvVerbose(r)
    BY <1>1, <2>1 DEF RecvVerbose
  <2>2. CASE Die(r)
    BY <1>5, <2>2 DEF Die, StepsTypeOK
  <2>3. CASE CucumberStepsDestroy(r)
    <3>1. main[r] # "boot" /\ main' = main /\ Disconnect(r) /\ actor'[r] = "gone"
      BY <2>3 DEF CucumberStepsDestroy, Connected, StepsTypeOK
    <3> QED
      BY <1>5, <3>1
  <2> QED
    BY <1>3, <1>4, <1>6, <1>7, <1>9, <2>1, <2>2, <2>3
       DEF ActorThread, RecvApi, RecvPickle, Handler, RecvInvalid, StepCrashes, StepUnscoped
<1> QED
  BY <1>8, <1>9 DEF StepRunner

(* A step runner changes nothing of another.                               *)
LEMMA OthersKeep ==
  ASSUME StepsTypeOK, TransportTypeOK, NEW r \in Runners, StepRunner(r),
         requests[r] # <<>> => IsRequest(requests[r])
  PROVE  \A q \in Runners : q # r =>
           /\ requests'[q] = requests[q] /\ replies'[q] = replies[q]
           /\ q \in peers' <=> q \in peers
           /\ main'[q] = main[q] /\ actor'[q] = actor[q]
           /\ cucumber'[q] = cucumber[q] /\ built'[q] = built[q]
           /\ live'[q] = live[q] /\ log'[q] = log[q]
<1> USE DEF StepsTypeOK, TransportTypeOK
<1>1. CASE MainThread(r) \/ MainInput(r)
  BY <1>1 DEF MainThread, MainInput, StartActor, ActorStarted, AppSends, EndOfInput,
              DestroyActor, Exit, transportVars
<1>2. CASE CucumberStepsNew(r) \/ RecvVerbose(r) \/ RecvTerm(r)
  BY <1>2 DEF CucumberStepsNew, ConnectAndGreet, RecvVerbose, RecvTerm, transportVars
<1>3. CASE Die(r) \/ CucumberStepsDestroy(r)
  BY <1>3 DEF Die, CucumberStepsDestroy, CucumberDestroy, Disconnect
<1>4. CASE Handler(r)
  <2>1. PICK e : /\ log' = [log EXCEPT ![r] = Append(@, e)]
                 /\ Starts(r, e) \/ Ends(r, e) \/ Runs(r, e) \/ Misses(r, e)
    BY <1>4, HandlerWrites, Zenon
  <2>2. \A q \in Runners : q # r => cucumber'[q] = cucumber[q] /\ built'[q] = built[q]
    BY <2>1 DEF Starts, Ends, Runs, Misses
  <2>3. \A q \in Runners : q # r => live'[q] = live[q]
    BY <1>4 DEF Handler, StartScenario, EndScenario, CucumberDestroy, RunStep,
                StepNotFound
  <2>4. \A q \in Runners : q # r =>
          /\ requests'[q] = requests[q] /\ replies'[q] = replies[q]
          /\ q \in peers' <=> q \in peers
          /\ main'[q] = main[q] /\ actor'[q] = actor[q]
    BY <1>4, HandlerAnswers
  <2> QED
    BY <2>1, <2>2, <2>3, <2>4
<1>5. CASE IgnoreFrame(r)
  BY <1>5 DEF IgnoreFrame, stepsVars
<1> QED
  BY <1>1, <1>2, <1>3, <1>4, <1>5
     DEF StepRunner, ActorThread, RecvApi, RecvPickle, Handler, RecvInvalid, StepCrashes, StepUnscoped

(* Until run is called the feature runner lists files and collects.        *)
LEMMA PreparingSteps ==
  ASSUME Preparing, RunnerThread
  PROVE  \/ /\ pc' \in {"list", "collect"}
            /\ pc' = "list" => pc = "list"
            /\ UNCHANGED <<identities, cursor, transportVars>>
         \/ \E r \in Runners : CollectIdentity(r)
         \/ CallRun
<1>1. CASE ListFile \/ Listed
  BY <1>1 DEF ListFile, Listed
<1>2. CASE ~(ListFile \/ Listed)
  BY <1>2 DEF RunnerThread, Preparing, Waiting, CallRun, NextFile, PrintError,
              EndDocument, Return, NextPickle, SendStart, SendStep, SendEnd,
              RecvStarted, RecvRan, RecvEnded, RecvAnswer, FirstStep, BeginStep,
              EndStep, StepsDone, PickleDone
<1> QED
  BY <1>1, <1>2

(* A message that is collected is the only one of its step runner, so      *)
(* each is collected once.                                                 *)
LEMMA CollectKeeps ==
  ASSUME RerunInv, Preparing, NEW r \in Runners, CollectIdentity(r),
         UNCHANGED stepsVars
  PROVE  /\ Lists' /\ pc' = "collect"
         /\ \A q \in Runners : Leftover(q)' /\ Connected(q)'
<1>1. /\ pc = "collect" /\ pc' = "collect" /\ identities' = Append(identities, r)
      /\ replies[r] # <<>> /\ replies' = [replies EXCEPT ![r] = Tail(@)]
      /\ UNCHANGED <<requests, peers, cursor, main, actor>>
  BY DEF CollectIdentity, Receive, stepsVars
<1>2. /\ identities \in Seq(Runners) /\ cursor \in Seq(Runners) /\ Lists
      /\ replies \in [Runners -> Seq(Reply)]
      /\ \A q \in Runners : Leftover(q) /\ Connected(q)
  BY DEF RerunInv, TypeOK, RunnerTypeOK, TransportTypeOK, Carried
<1>3. /\ r \notin Elements(identities) /\ requests[r] = <<>>
      /\ actor[r] \notin {"none", "init"}
  BY <1>1, <1>2 DEF Leftover, Connected
<1>4. /\ Elements(identities') = Elements(identities) \cup {r}
      /\ IsInjective(identities')
  BY <1>1, <1>2, <1>3, ElementsOfAppend DEF Lists
<1>5. replies'[r] = <<>> /\ \A q \in Runners : q # r => replies'[q] = replies[q]
  <2>1. replies[r] \in Seq(Reply) /\ Len(replies[r]) <= 1
    BY <1>2 DEF Leftover
  <2>2. Tail(replies[r]) = <<>>
    BY <1>1, <2>1, LastOfOne
  <2> QED
    BY <1>1, <1>2, <2>2
<1>6. Lists'
  BY <1>1, <1>2, <1>4 DEF Lists, Elements
<1>7. \A q \in Runners : q \in Elements(identities)' <=> q \in Elements(identities) \/ q = r
  BY <1>4 DEF Elements
<1>8. Len(<<>>) <= 1
  BY LenProperties
<1>9. ASSUME NEW q \in Runners
      PROVE  Leftover(q)' /\ Connected(q)'
  <2>1. CASE q = r
    BY <1>1, <1>2, <1>3, <1>5, <1>8, <2>1 DEF Leftover, Connected
  <2>2. CASE q # r
    BY <1>1, <1>2, <1>5, <1>7, <2>2 DEF Leftover, Connected
  <2> QED
    BY <2>1, <2>2
<1> QED
  BY <1>1, <1>6, <1>9

(* When run is called nothing is left on the way.                          *)
LEMMA CallKeeps ==
  ASSUME Awaited = Runners, RerunInv, Preparing, CallRun, UNCHANGED stepsVars
  PROVE  Lists' /\ pc' = "file" /\ Wire' /\ Greetings'
<1>1. /\ pc' = "file" /\ AllAwaited
      /\ UNCHANGED <<identities, cursor, requests, replies, peers, main, actor>>
  BY DEF CallRun, transportVars, stepsVars
<1>2. \A q \in Runners : /\ q \in Elements(identities) /\ Leftover(q) /\ Connected(q)
                         /\ requests[q] = <<>> /\ replies[q] = <<>>
  BY <1>1 DEF AllAwaited, RerunInv, Carried, Leftover
<1>3. Lists'
  BY <1>1 DEF RerunInv, Lists, Elements, IsInjective
<1>4. Wire'
  <2>1. \A q \in Runners : Quiet(q)'
    BY <1>1, <1>2 DEF Quiet
  <2>2. pc' \notin Waiting /\ pc' # "aborted"
    BY <1>1 DEF Waiting
  <2> QED
    BY <2>1, <2>2, Zenon DEF Wire
<1>5. Greetings'
  BY <1>1, <1>2 DEF Greetings, Connected, Elements
<1> QED
  BY <1>1, <1>3, <1>4, <1>5

(* Nobody greets after run was called, so no assertion of it fails.        *)
LEMMA RunSteps ==
  ASSUME Awaited = Runners, RerunInv, ~Preparing, RunnerThread
  PROVE  /\ pc' \notin {"list", "collect", "aborted"}
         /\ Asks \/ Sends \/ Passes \/ \E r \in Runners : Accepts(r)
<1>1. /\ RunnerTypeOK /\ TransportTypeOK /\ Positions /\ Lists /\ Wire /\ Greetings
      /\ \A r \in Runners : r \in Elements(identities)
  BY DEF RerunInv, TypeOK, Carried, Collected, Preparing, AllAwaited
<1>2. ~Aborts
  <2>1. SUFFICES ASSUME Aborts PROVE FALSE
    OBVIOUS
  <2>2. PICK r \in Runners : RecvStarted(r) \/ RecvEnded(r) \/ RecvRan(r)
    BY <2>1 DEF Aborts, Waiting, RunnerThread, ListFile, Listed, CollectIdentity,
                CallRun, NextFile, PrintError, EndDocument, Return, NextPickle,
                SendStart, SendStep, SendEnd, SendTo, FirstStep, BeginStep, EndStep,
                StepsDone, PickleDone
  <2> QED
    BY <1>1, <2>1, <2>2, AbortedByGreeting DEF Aborts
<1>3. ~Prepares
  BY DEF Prepares, Preparing
<1>4. Asks \/ Sends \/ Passes \/ \E r \in Runners : Accepts(r)
  BY <1>1, <1>2, <1>3, StepsOfRun
<1> QED
  BY <1>4 DEF Asks, Sends, Passes, Accepts

(* The invariant is kept by the feature runner, by the step runners, and   *)
(* when a feature runner is replaced.                                      *)
LEMMA RerunInvByRunner ==
  ASSUME Awaited = Runners, RerunInv, RunnerThread, UNCHANGED stepsVars
  PROVE  RerunInv'
<1>0. /\ RunnerTypeOK /\ StepsTypeOK /\ TransportTypeOK /\ Positions /\ Lists
      /\ Collected /\ pc # "aborted"
  BY DEF RerunInv, TypeOK, AssertionsHold
<1>1. RunnerTypeOK' /\ TransportTypeOK' /\ StepsTypeOK'
  BY <1>0, RunnerTypes DEF StepsTypeOK, stepsVars
<1>2. Positions' /\ Collected'
  BY <1>0, PositionsKept, CollectedKept
<1>3. CASE Preparing
  <2>1. CASE /\ pc' \in {"list", "collect"}
             /\ pc' = "list" => pc = "list"
             /\ UNCHANGED <<identities, cursor, transportVars>>
    <3>1. Lists'
      BY <1>0, <2>1 DEF Lists, Elements, IsInjective
    <3>2. Carried'
      <4>1. \A r \in Runners : Leftover(r) /\ Connected(r)
        BY <1>3 DEF RerunInv, Carried
      <4>2. \A r \in Runners : Leftover(r)' /\ Connected(r)'
        BY <2>1, <4>1 DEF Leftover, Connected, Elements, transportVars, stepsVars
      <4> QED
        BY <2>1, <4>2 DEF Carried, Preparing
    <3> QED
      BY <1>1, <1>2, <2>1, <3>1, <3>2 DEF RerunInv, TypeOK, AssertionsHold
  <2>2. ASSUME NEW r \in Runners, CollectIdentity(r)
        PROVE  RerunInv'
    <3>1. /\ Lists' /\ pc' = "collect"
          /\ \A q \in Runners : Leftover(q)' /\ Connected(q)'
      BY <1>3, <2>2, CollectKeeps
    <3>2. Carried' /\ AssertionsHold'
      BY <3>1 DEF Carried, Preparing, AssertionsHold
    <3> QED
      BY <1>1, <1>2, <3>1, <3>2 DEF RerunInv, TypeOK
  <2>3. CASE CallRun
    <3>1. Lists' /\ pc' = "file" /\ Wire' /\ Greetings'
      BY <1>3, <2>3, CallKeeps
    <3>2. Carried' /\ AssertionsHold'
      BY <3>1 DEF Carried, Preparing, AssertionsHold
    <3> QED
      BY <1>1, <1>2, <3>1, <3>2 DEF RerunInv, TypeOK
  <2> QED
    BY <1>3, <2>1, <2>2, <2>3, PreparingSteps
<1>4. CASE ~Preparing
  <2>1. Wire /\ Greetings
    BY <1>4 DEF RerunInv, Carried
  <2>2. Lists' /\ Wire' /\ Greetings'
    BY <1>0, <2>1, ListsKept, WireKeptByRunner, GreetingsKeptByRunner
  <2>3. pc' \notin {"list", "collect", "aborted"}
    BY <1>4, RunSteps
  <2>4. Carried' /\ AssertionsHold'
    BY <2>2, <2>3 DEF Carried, Preparing, AssertionsHold
  <2> QED
    BY <1>1, <1>2, <2>2, <2>4 DEF RerunInv, TypeOK
<1> QED
  BY <1>3, <1>4

LEMMA RerunInvBySteps ==
  ASSUME Awaited = Runners, RerunInv, NEW r \in Runners, StepRunner(r),
         UNCHANGED runnerVars
  PROVE  RerunInv'
<1>0. /\ RunnerTypeOK /\ StepsTypeOK /\ TransportTypeOK /\ Positions /\ Lists
      /\ Collected /\ AssertionsHold
  BY DEF RerunInv, TypeOK
<1>1. requests[r] # <<>> => IsRequest(requests[r])
  BY LeftoverAlways
<1>2. StepsTypeOK' /\ TransportTypeOK'
  <2>1. CASE MainThread(r) \/ MainInput(r)
    BY <1>0, <2>1, MainTypes
  <2>2. CASE ActorThread(r)
    BY <1>0, <1>1, <2>2, ActorTypes
  <2> QED
    BY <2>1, <2>2 DEF StepRunner
<1>3. /\ RunnerTypeOK' /\ Positions' /\ Lists' /\ Collected' /\ AssertionsHold'
      /\ Elements(identities)' = Elements(identities) /\ (Preparing' <=> Preparing)
  <2>1. RunnerTypeOK'
    BY <1>0 DEF runnerVars, RunnerTypeOK
  <2>2. Positions' /\ Lists' /\ Collected'
    BY <1>0 DEF Positions, Lists, Collected, AllAwaited, Elements, IsInjective,
                runnerVars
  <2> QED
    BY <1>0, <2>1, <2>2 DEF runnerVars, AssertionsHold, Elements, Preparing
<1>4. Carried'
  <2>1. CASE Preparing
    <3>1. \A q \in Runners : Leftover(q) /\ Connected(q)
      BY <2>1 DEF RerunInv, Carried
    <3>2. Leftover(r)' /\ Connected(r)'
      BY <1>0, <3>1, LeftoverKept
    <3>3. ASSUME NEW q \in Runners, q # r
          PROVE  Leftover(q)' /\ Connected(q)'
      <4>1. /\ requests'[q] = requests[q] /\ replies'[q] = replies[q]
            /\ q \in peers' <=> q \in peers
            /\ main'[q] = main[q] /\ actor'[q] = actor[q]
        BY <1>0, <1>1, <3>3, OthersKeep
      <4> QED
        BY <1>3, <3>1, <4>1 DEF Leftover, Connected
    <3> QED
      BY <1>3, <2>1, <3>2, <3>3 DEF Carried
  <2>2. CASE ~Preparing
    <3>1. Wire /\ Greetings
      BY <2>2 DEF RerunInv, Carried
    <3>2. Wire' /\ Greetings'
      BY <1>0, <3>1, WireKeptBySteps, GreetingsKeptBySteps
    <3> QED
      BY <1>3, <2>2, <3>2 DEF Carried
  <2> QED
    BY <2>1, <2>2
<1> QED
  BY <1>2, <1>3, <1>4 DEF RerunInv, TypeOK

(* The step runners as the next feature runner finds them.                 *)
LEMMA ConnectedAgain ==
  ASSUME Awaited = Runners, RerunInv, NewConnections
  PROVE  /\ TransportTypeOK' /\ peers' = peers
         /\ \A r \in Runners : /\ requests'[r] \in {<<>>, requests[r]}
                               /\ replies'[r] \in {<<>>, replies[r]}
<1>1. /\ requests \in [Runners -> Seq(Frames)] /\ replies \in [Runners -> Seq(Reply)]
      /\ peers \subseteq Runners
  BY DEF RerunInv, TypeOK, TransportTypeOK
<1>2. PICK delivered \in SUBSET Runners :
        requests' = [r \in Runners |-> IF r \in delivered THEN requests[r] ELSE <<>>]
  BY DEF NewConnections
<1>3. PICK taken \in [Runners -> 0..2] :
        /\ \A r \in Runners : taken[r] <= Len(replies[r])
        /\ replies' = [r \in Runners |-> SubSeq(replies[r], taken[r] + 1, Len(replies[r]))]
  BY DEF NewConnections
<1>4. ASSUME NEW r \in Runners
      PROVE  replies'[r] \in {<<>>, replies[r]} /\ replies'[r] \in Seq(Reply)
  <2>1. replies[r] \in Seq(Reply) /\ Len(replies[r]) <= 1
    BY <1>1, LeftoverAlways
  <2>2. taken[r] \in 0..Len(replies[r])
    BY <1>3, <2>1, LenProperties
  <2>3. SubSeq(replies[r], taken[r] + 1, Len(replies[r])) \in {<<>>, replies[r]}
    BY <2>1, <2>2, LastOfOne
  <2> QED
    BY <1>3, <2>1, <2>3
<1>5. \A r \in Runners : /\ requests'[r] \in {<<>>, requests[r]}
                         /\ requests'[r] \in Seq(Frames)
  BY <1>1, <1>2
<1>6. peers' = peers
  BY DEF NewConnections
<1> QED
  BY <1>1, <1>2, <1>3, <1>4, <1>5, <1>6 DEF TransportTypeOK

LEMMA RerunInvByRerun ==
  ASSUME Awaited = Runners, RerunInv, NewFeatureRunner, NewConnections,
         UNCHANGED stepsVars
  PROVE  RerunInv'
<1>1. /\ RunnerTypeOK' /\ Positions' /\ Lists' /\ Collected' /\ Preparing'
      /\ identities' = <<>> /\ pc' = "list"
  BY NewFeatureRunnerTypes DEF NewFeatureRunner
<1>2. /\ TransportTypeOK' /\ peers' = peers
      /\ \A r \in Runners : /\ requests'[r] \in {<<>>, requests[r]}
                            /\ replies'[r] \in {<<>>, replies[r]}
  BY ConnectedAgain
<1>3. StepsTypeOK'
  BY DEF RerunInv, TypeOK, StepsTypeOK, stepsVars
<1>4. Elements(identities)' = {}
  BY <1>1 DEF Elements
<1>5. ASSUME NEW r \in Runners
      PROVE  Leftover(r)' /\ Connected(r)'
  <2>1. /\ requests[r] # <<>> => IsRequest(requests[r]) /\ replies[r] = <<>>
        /\ Len(replies[r]) <= 1
        /\ main[r] = "boot" => actor[r] = "none"
        /\ r \in peers <=> actor[r] \in {"loop", "terminated"}
        /\ actor[r] \in {"none", "init"} => requests[r] = <<>> /\ replies[r] = <<>>
    BY LeftoverAlways
  <2>2. main' = main /\ actor' = actor
    BY DEF stepsVars
  <2>3. Len(<<>>) <= 1
    BY LenProperties
  <2>4. Leftover(r)'
    BY <1>2, <1>4, <2>1, <2>3 DEF Leftover
  <2>5. Connected(r)'
    BY <1>2, <1>4, <2>1, <2>2 DEF Connected
  <2> QED
    BY <2>4, <2>5
<1>6. Carried' /\ AssertionsHold'
  BY <1>1, <1>5 DEF Carried, AssertionsHold
<1> QED
  BY <1>1, <1>2, <1>3, <1>6 DEF RerunInv, TypeOK

LEMMA RerunInvInit ==
  Init => RerunInv
<1> SUFFICES ASSUME Init PROVE RerunInv
  OBVIOUS
<1>1. IInv /\ pc = "list"
  BY InvInit DEF Init, FeatureRunnerInit
<1>2. Lists /\ Wire /\ Greetings /\ Collected /\ TypeOK /\ Positions
  BY <1>1 DEF IInv
<1>3. \A r \in Runners : requests[r] = <<>> /\ replies[r] = <<>>
  BY DEF Init, TransportInit
<1>4. Elements(identities) = {} /\ Len(<<>>) <= 1
  BY LenProperties DEF Init, FeatureRunnerInit, Elements
<1>5. Carried /\ AssertionsHold
  BY <1>1, <1>2, <1>3, <1>4
     DEF Carried, Preparing, AssertionsHold, Leftover, Connected, Greetings
<1> QED
  BY <1>2, <1>5 DEF RerunInv

(* A step runner that stays keeps its scenario, its states and requests.   *)
LEMMA StaysSame ==
  ASSUME StepsTypeOK, NEW r \in Runners, StepRunner(r), ~Handler(r), ~IgnoreFrame(r),
         actor'[r] = "loop"
  PROVE  /\ UNCHANGED <<cucumber, live, requests>>
         /\ actor[r] = "loop" \/ CucumberStepsNew(r)
<1>1. CASE MainThread(r) \/ MainInput(r)
  <2>1. ~StartActor(r)
    BY DEF StartActor, StepsTypeOK
  <2> QED
    BY <1>1, <2>1 DEF MainThread, MainInput, ActorStarted, AppSends, EndOfInput,
                      DestroyActor, Exit, transportVars
<1>2. CASE ActorThread(r)
  <2>1. ~RecvTerm(r) /\ ~Die(r) /\ ~CucumberStepsDestroy(r)
    BY DEF RecvTerm, Die, CucumberStepsDestroy, StepsTypeOK
  <2>2. CASE RecvVerbose(r) \/ CucumberStepsNew(r)
    BY <2>2 DEF RecvVerbose, HasCommand, CucumberStepsNew, ConnectAndGreet,
                transportVars
  <2> QED
    BY <1>2, <2>1, <2>2
       DEF ActorThread, RecvApi, RecvPickle, Handler, RecvInvalid, StepCrashes, StepUnscoped
<1> QED
  BY <1>1, <1>2 DEF StepRunner

LEMMA NothingIgnored ==
  ASSUME Awaited = Runners, RerunInv, NEW r \in Runners
  PROVE  ~IgnoreFrame(r) /\ (requests[r] # <<>> => IsRequest(requests[r]))
BY LeftoverAlways, FramesOfRequest DEF IgnoreFrame

-----------------------------------------------------------------------------
(***************************************************************************)
(* Each run is followed, and scenarios are lost between runs only.         *)
(***************************************************************************)

LEMMA ScriptAtSince ==
  ASSUME Awaited = Runners, RerunInv, ScriptAt, RunnerThread
  PROVE  ScriptAt'
<1>1. RunnerTypeOK
  BY DEF RerunInv, TypeOK
<1>2. CASE Preparing
  <2>1. /\ pc \in {"list", "collect"} /\ pc' \in {"list", "collect", "file"}
        /\ UNCHANGED <<script, report>>
    BY <1>2 DEF Preparing, RunnerThread, Waiting, ListFile, Listed, CollectIdentity,
       CallRun, NextFile, PrintError, EndDocument, Return, NextPickle, SendStart,
       SendStep, SendEnd, RecvStarted, RecvRan, RecvEnded, RecvAnswer, FirstStep,
       BeginStep, EndStep, StepsDone, PickleDone
  <2> QED
    BY <2>1 DEF ScriptAt, InRound, Waiting
<1>3. CASE ~Preparing
  BY <1>1, <1>3, RunSteps, ScriptAtNext
<1> QED
  BY <1>2, <1>3

LEMMA FollowedOn ==
  ASSUME NEW r \in Runners, FollowedSince(r), UNCHANGED <<runnerVars, mark>>,
         log'[r] = log[r], requests'[r] # <<>> => requests[r] # <<>>,
         replies'[r] # <<>> => replies[r] # <<>>
  PROVE  FollowedSince(r)'
BY DEF FollowedSince, Done, InRound, Elements, runnerVars

(* The request that is handled is the last one of the script.              *)
LEMMA FollowedByHandler ==
  ASSUME Awaited = Runners, RerunInv, FollowingSince, ~Preparing,
         NEW r \in Runners, Handler(r), UNCHANGED <<runnerVars, mark>>
  PROVE  FollowedSince(r)' /\ Done(r)' > 0
<1>1. /\ StepsTypeOK /\ TransportTypeOK /\ RunnerTypeOK /\ Positions /\ Wire /\ Greetings
      /\ pc # "aborted" /\ r \in Elements(identities)
      /\ script \in Seq(ScriptEntry) /\ log[r] \in Seq(LogEntry)
      /\ mark[r] \in Nat /\ ScriptAt /\ FollowedSince(r)
  BY DEF RerunInv, TypeOK, Carried, AssertionsHold, Collected, AllAwaited, Preparing,
         RunnerTypeOK, StepsTypeOK, ScriptEntry, LogEntry, FollowingSince
<1>2. actor[r] = "loop" /\ requests[r] # <<>> /\ requests'[r] = <<>>
  BY <1>1, NothingIgnored, HandlerAnswers
<1>3. pc \in Waiting /\ r = Head(cursor) /\ cursor # <<>>
  BY <1>1, <1>2, RequestedAt DEF Positions
<1>4. r \in Elements(cursor)
  BY <1>1, <1>3, ElementsOfTail DEF RunnerTypeOK
<1>5. requests[r] = Asked
  BY <1>1, <1>2, <1>3, Zenon DEF Wire, Asking
<1>6. Asked = Last /\ script # <<>>
  BY <1>1, <1>3 DEF ScriptAt, Asked, Waiting, InRound
<1>7. PICK e \in LogEntry : log' = [log EXCEPT ![r] = Append(@, e)] /\ e.frames = requests[r]
  BY <1>1, NothingIgnored, HandlerWrites, Zenon
<1>8. log'[r] = Append(log[r], e)
  BY <1>1, <1>7 DEF StepsTypeOK
<1>9. Done(r) = Len(script) - 1 /\ mark[r] <= Len(log[r])
  BY <1>1, <1>2, <1>3, <1>4 DEF FollowedSince, InRound
<1>10. /\ Len(script) \in Nat \ {0} /\ Len(log[r]) \in Nat
       /\ Len(log'[r]) = Len(log[r]) + 1
       /\ \A k \in 1..Len(log[r]) : log'[r][k] = log[r][k]
       /\ log'[r][Len(log[r]) + 1] = e
  BY <1>1, <1>6, <1>8, Appended, EmptySeq
<1>11. Done(r)' = Len(script) /\ mark' = mark /\ Len(log[r]) = mark[r] + Len(script) - 1
  BY <1>1, <1>9, <1>10 DEF Done
<1>12. ASSUME NEW k \in 1..Len(script)
       PROVE  log'[r][mark[r] + k].frames = script[k].frames
  <2>1. CASE k = Len(script)
    <3>1. log'[r][mark[r] + k] = e
      BY <1>1, <1>10, <1>11, <2>1
    <3> QED
      BY <1>5, <1>6, <1>7, <2>1, <3>1, Zenon DEF Last
  <2>2. CASE k # Len(script)
    <3>1. k \in 1..Done(r) /\ mark[r] + k \in 1..Len(log[r])
      BY <1>1, <1>9, <1>10, <1>11, <2>2
    <3> QED
      BY <1>1, <1>10, <3>1 DEF FollowedSince
  <2> QED
    BY <2>1, <2>2
<1>13. UNCHANGED <<pc, cursor, script>> /\ (InRound <=> InRound')
       /\ Elements(cursor)' = Elements(cursor)
  BY DEF runnerVars, InRound, Elements
<1>14. mark'[r] <= Len(log'[r])
  BY <1>1, <1>9, <1>10, <1>11
<1> QED
  BY <1>2, <1>3, <1>10, <1>11, <1>12, <1>13, <1>14 DEF FollowedSince

LEMMA FollowingBySteps ==
  ASSUME Awaited = Runners, RerunInv, FollowingSince, NEW r \in Runners,
         StepRunner(r), UNCHANGED <<runnerVars, mark>>
  PROVE  FollowingSince'
<1>1. /\ StepsTypeOK /\ TransportTypeOK
      /\ requests[r] # <<>> => IsRequest(requests[r])
  BY NothingIgnored DEF RerunInv, TypeOK
<1>2. ScriptAt' /\ (Preparing' <=> Preparing) /\ mark' \in [Runners -> Nat]
  BY DEF FollowingSince, runnerVars, ScriptAt, InRound, Last, Preparing
<1>3. SUFFICES ASSUME ~Preparing, NEW q \in Runners
               PROVE  FollowedSince(q)'
  BY <1>2 DEF FollowingSince
<1>4. FollowedSince(q)
  BY <1>3 DEF FollowingSince
<1>5. CASE q # r
  BY <1>1, <1>4, <1>5, OthersKeep, FollowedOn
<1>6. CASE q = r /\ Handler(r)
  BY <1>3, <1>6, FollowedByHandler
<1>7. CASE q = r /\ ~Handler(r)
  <2>1. log' = log
    BY <1>1, <1>7, OtherSteps
  <2>2. /\ requests'[r] # <<>> => requests[r] # <<>>
        /\ replies'[r] # <<>> => replies[r] # <<>>
    <3>1. CASE UNCHANGED transportVars
      BY <3>1 DEF transportVars
    <3>2. CASE Disconnect(r)
      <4>1. PICK n \in 0..Len(replies[r]) : replies'[r] = SubSeq(replies[r], 1, n)
        BY <1>1, <3>2 DEF Disconnect, TransportTypeOK
      <4>2. replies[r] \in Seq(Reply)
        BY <1>1 DEF TransportTypeOK
      <4>3. replies'[r] # <<>> => replies[r] # <<>>
        BY <4>1, <4>2, HeadOfPrefix
      <4>4. requests'[r] = <<>>
        BY <1>1, <3>2 DEF Disconnect, TransportTypeOK
      <4> QED
        BY <4>3, <4>4
    <3>3. ~CucumberStepsNew(r)
      BY <1>3 DEF CucumberStepsNew, RerunInv, Carried, Collected, AllAwaited,
                  Preparing, Greetings
    <3> QED
      BY <1>7, <3>1, <3>2, <3>3, NothingIgnored, OtherTransport
  <2> QED
    BY <1>4, <1>7, <2>1, <2>2, FollowedOn
<1> QED
  BY <1>5, <1>6, <1>7

LEMMA FollowingByRunner ==
  ASSUME Awaited = Runners, RerunInv, FollowingSince, RunnerThread,
         UNCHANGED stepsVars,
         mark' = IF RunCalled THEN [r \in Runners |-> Len(log[r])] ELSE mark
  PROVE  FollowingSince'
<1>1. /\ RunnerTypeOK /\ Positions /\ script \in Seq(ScriptEntry) /\ cursor \in Seq(Runners)
      /\ ScriptAt /\ mark \in [Runners -> Nat]
      /\ \A r \in Runners : log[r] \in Seq(LogEntry) /\ Len(log[r]) \in Nat
  <2>1. \A r \in Runners : log[r] \in Seq(LogEntry)
    BY DEF RerunInv, TypeOK, StepsTypeOK, LogEntry
  <2> QED
    BY <2>1, LenProperties
       DEF RerunInv, TypeOK, RunnerTypeOK, ScriptEntry, FollowingSince
<1>2. ScriptAt' /\ log' = log
  BY <1>1, ScriptAtSince DEF stepsVars
<1>3. mark' \in [Runners -> Nat]
  BY <1>1
<1>4. SUFFICES ASSUME ~Preparing', NEW r \in Runners
               PROVE  FollowedSince(r)'
  BY <1>2, <1>3 DEF FollowingSince
<1>5. CASE Preparing
  <2>1. CallRun
    <3>1. \A q \in Runners : ~CollectIdentity(q)
      BY <1>4 DEF CollectIdentity, Preparing
    <3> QED
      BY <1>4, <1>5, <3>1, PreparingSteps DEF Preparing
  <2>2. /\ pc = "collect" /\ pc' = "file" /\ script' = script
        /\ mark'[r] = Len(log[r])
    BY <2>1 DEF CallRun, RunCalled
  <2>3. script' = <<>> /\ ~InRound'
    BY <1>1, <2>2 DEF ScriptAt, InRound, Waiting
  <2>4. Done(r)' = 0 /\ Len(script') = 0 /\ mark'[r] <= Len(log'[r])
    BY <1>1, <1>2, <2>2, <2>3, LenProperties DEF Done
  <2> QED
    BY <2>3, <2>4 DEF FollowedSince
<1>6. CASE ~Preparing
  <2>1. Asks \/ Sends \/ Passes \/ \E q \in Runners : Accepts(q)
    BY <1>6, RunSteps
  <2>2. mark' = mark /\ FollowedSince(r)
    BY <1>6 DEF RunCalled, Preparing, FollowingSince
  <2>3. Done(r)' = Done(r) /\ r \in Elements(identities)
        /\ Done(r) \in Int /\ Len(script) \in Nat
    BY <1>1, <1>2, <1>6, <2>2, LenProperties
       DEF Done, RerunInv, Collected, AllAwaited, Preparing
  <2>4. CASE script' = script
             /\ (~InRound' \/ r \notin Elements(cursor)' => Done(r) = Len(script))
             /\ (InRound' /\ r \in Elements(cursor)' =>
                   /\ Done(r) = Len(script) - 1
                   /\ pc' \in Waiting /\ r = Head(cursor') => replies'[r] = <<>>)
    BY <1>2, <2>2, <2>3, <2>4 DEF FollowedSince
  <2>5. CASE Asks
    <3>1. PICK entry \in ScriptEntry : script' = Append(script, entry)
      BY <2>5 DEF Asks
    <3>2. /\ ~InRound /\ InRound' /\ pc' \notin Waiting /\ cursor' = identities
      BY <2>5, Zenon DEF Asks, InRound, Waiting
    <3>3. r \in Elements(cursor)'
      BY <2>3, <3>2 DEF Elements
    <3>4. Done(r) = Len(script)
      BY <2>2, <3>2 DEF FollowedSince
    <3>5. /\ Len(script') = Len(script) + 1
          /\ \A k \in 1..Len(script) : script'[k] = script[k]
      BY <1>1, <3>1, Appended
    <3>6. \A k \in 1..Done(r) : log'[r][mark'[r] + k].frames = script'[k].frames
      BY <1>2, <2>2, <3>4, <3>5 DEF FollowedSince
    <3>7. Done(r)' = Len(script') - 1
      BY <2>3, <3>4, <3>5
    <3> QED
      BY <1>2, <2>2, <2>3, <3>2, <3>3, <3>6, <3>7 DEF FollowedSince
  <2>6. CASE Sends
    <3>1. /\ pc \in {"start", "run", "end"} /\ pc' \in Waiting
          /\ UNCHANGED <<cursor, script, replies>>
      BY <2>6 DEF Sends, Waiting
    <3>2. InRound /\ InRound' /\ pc \notin Waiting /\ pc # "aborted"
      BY <3>1 DEF InRound, Waiting
    <3>3. replies[r] = <<>>
      <4>1. replies[r] \in {<<>>, <<Greeting>>} /\ (replies[r] # <<>> => Head(replies[r]) # Greeting)
        BY <1>6, <2>3, <3>2 DEF RerunInv, Carried, Wire, Quiet, Greetings
      <4>2. Head(<<Greeting>>) = Greeting
        OBVIOUS
      <4> QED
        BY <4>1, <4>2
    <3>4. Elements(cursor)' = Elements(cursor)
      BY <3>1 DEF Elements
    <3> QED
      BY <2>2, <2>4, <3>1, <3>2, <3>3, <3>4 DEF FollowedSince
  <2>7. CASE Passes
    <3>1. /\ script' = script /\ ~InRound'
          /\ ~InRound \/ cursor = <<>>
      BY <2>7 DEF Passes, InRound, Waiting
    <3>2. cursor = <<>> => Elements(cursor) = {}
      BY DEF Elements
    <3> QED
      BY <2>2, <2>4, <3>1, <3>2 DEF FollowedSince
  <2>8. ASSUME NEW q \in Runners, Accepts(q)
        PROVE  FollowedSince(r)'
    <3>1. /\ pc \in Waiting /\ pc' \in {"start", "run", "end"} /\ q = Head(cursor)
          /\ replies[q] # <<>> /\ script' = script
          /\ Elements(cursor) = {q} \cup Elements(cursor')
          /\ q \notin Elements(cursor')
      BY <2>8 DEF Accepts, Waiting
    <3>2. InRound /\ InRound' /\ pc' \notin Waiting
      BY <3>1 DEF InRound, Waiting
    <3>3. Elements(cursor)' = Elements(cursor')
      BY DEF Elements
    <3>4. CASE r = q
      BY <2>2, <2>4, <3>1, <3>2, <3>3, <3>4 DEF FollowedSince
    <3>5. CASE r # q
      BY <2>2, <2>4, <3>1, <3>2, <3>3, <3>5 DEF FollowedSince
    <3> QED
      BY <3>4, <3>5
  <2> QED
    BY <2>1, <2>5, <2>6, <2>7, <2>8
<1> QED
  BY <1>5, <1>6

LEMMA ScenariosSinceByRunner ==
  ASSUME Awaited = Runners, RerunInv, FollowingSince, ScenariosSince, RunnerThread,
         UNCHANGED stepsVars,
         mark' = IF RunCalled THEN [r \in Runners |-> Len(log[r])] ELSE mark
  PROVE  ScenariosSince'
<1>1. \A r \in Runners : Len(log[r]) \in Nat
  <2>1. \A r \in Runners : log[r] \in Seq(LogEntry)
    BY DEF RerunInv, TypeOK, StepsTypeOK, LogEntry
  <2> QED
    BY <2>1, LenProperties
<1>2. SUFFICES ASSUME ~Preparing', NEW r \in Runners, actor[r] = "loop", Done(r)' > 0
               PROVE  cucumber[r] # NULL <=> Opened(r)'
  BY DEF ScenariosSince, stepsVars
<1>3. CASE Preparing
  <2>1. CallRun
    <3>1. \A q \in Runners : ~CollectIdentity(q)
      BY <1>2 DEF CollectIdentity, Preparing
    <3> QED
      BY <1>2, <1>3, <3>1, PreparingSteps DEF Preparing
  <2>2. Done(r)' = 0
    BY <1>1, <2>1 DEF CallRun, RunCalled, Done, stepsVars
  <2> QED
    BY <1>2, <2>2
<1>4. CASE ~Preparing
  <2>1. pc' # "aborted"
    BY <1>4, RunSteps
  <2>2. Opened(r) <=> Opened(r)'
    BY <1>2, <1>4, <2>1, OpenedKeptByRunner DEF RerunInv, TypeOK, Carried
  <2>3. Done(r)' = Done(r)
    BY <1>4 DEF RunCalled, Preparing, Done, stepsVars
  <2> QED
    BY <1>2, <1>4, <2>2, <2>3 DEF ScenariosSince
<1> QED
  BY <1>3, <1>4

LEMMA ScenariosSinceBySteps ==
  ASSUME Awaited = Runners, RerunInv, ScenariosSince, NEW r \in Runners,
         StepRunner(r), UNCHANGED <<runnerVars, mark>>
  PROVE  ScenariosSince'
<1>1. /\ StepsTypeOK /\ TransportTypeOK
      /\ requests[r] # <<>> => IsRequest(requests[r])
      /\ ~IgnoreFrame(r)
  BY NothingIgnored DEF RerunInv, TypeOK
<1>2. SUFFICES ASSUME ~Preparing, NEW q \in Runners, actor'[q] = "loop", Done(q)' > 0
               PROVE  cucumber'[q] # NULL <=> Opened(q)'
  BY DEF ScenariosSince, Preparing, runnerVars
<1>3. /\ Wire /\ Greetings /\ RunnerTypeOK /\ Positions /\ Lists /\ pc # "aborted"
      /\ q \in Elements(identities)
  BY <1>2 DEF RerunInv, TypeOK, Carried, AssertionsHold, Collected, Preparing,
              AllAwaited
<1>4. ASSUME actor[q] = "loop", cucumber'[q] = cucumber[q], requests'[q] = requests[q],
             log'[q] = log[q]
      PROVE  cucumber'[q] # NULL <=> Opened(q)'
  BY <1>2, <1>4 DEF ScenariosSince, Done, Opened, Elements, runnerVars
<1>5. CASE q # r
  BY <1>1, <1>2, <1>4, <1>5, OthersKeep
<1>6. CASE q = r /\ Handler(r)
  BY <1>1, <1>3, <1>6, OpenedByHandler
<1>7. CASE q = r /\ ~Handler(r)
  <2>1. log' = log
    BY <1>1, <1>7, OtherSteps
  <2>2. ~CucumberStepsNew(r)
    BY <1>3, <1>7 DEF CucumberStepsNew, Greetings
  <2>3. actor[r] = "loop" /\ UNCHANGED <<cucumber, requests>>
    BY <1>1, <1>2, <1>7, <2>2, StaysSame
  <2> QED
    BY <1>4, <1>7, <2>1, <2>3
<1> QED
  BY <1>5, <1>6, <1>7

-----------------------------------------------------------------------------
(***************************************************************************)
(* The states that are lost.                                               *)
(***************************************************************************)

LEMMA OneOf ==
  /\ \A condition : One(condition) \in 0..1
  /\ One(TRUE) = 1 /\ One(FALSE) = 0
BY DEF One

LEMMA LostTypes ==
  ASSUME NEW r, IsFiniteSet(live[r])
  PROVE  IsFiniteSet(LostStates(r)) /\ Cardinality(LostStates(r)) \in Nat
BY FS_Difference, FS_CardinalityType DEF LostStates

(* The START SCENARIO that overwrites a scenario loses its state, if any.  *)
LEMMA StateOverwritten ==
  ASSUME NEW r, IsFiniteSet(live[r])
  PROVE  Cardinality(live[r]) <= Cardinality(LostStates(r)) + One(cucumber[r] # NULL)
<1>1. CASE cucumber[r] = NULL
  <2>1. LostStates(r) = live[r]
    BY <1>1 DEF LostStates
  <2> QED
    BY <1>1, <2>1, LostTypes DEF One
<1>2. CASE cucumber[r] # NULL
  <2>1. LostStates(r) = live[r] \ {cucumber[r].state}
    BY <1>2 DEF LostStates
  <2>2. Cardinality(LostStates(r)) = IF cucumber[r].state \in live[r]
                                     THEN Cardinality(live[r]) - 1
                                     ELSE Cardinality(live[r])
    BY <2>1, FS_RemoveElement
  <2>3. Cardinality(live[r]) \in Nat
    BY FS_CardinalityType
  <2> QED
    BY <1>2, <2>2, <2>3 DEF One
<1> QED
  BY <1>1, <1>2

(* What loses nothing more keeps the count.                                *)
LEMMA LossesLess ==
  ASSUME NEW r, Losses(r), life \in Nat, life' = life,
         IsFiniteSet(live'[r]), \A s \in live'[r] : s <= built'[r],
         Cardinality(LostStates(r)') <= Cardinality(LostStates(r)),
         OpenToLose(r)' => OpenToLose(r), StartToCome(r)' => StartToCome(r)
  PROVE  Losses(r)'
<1>1. Cardinality(LostStates(r)) \in Nat
  BY LostTypes DEF Losses
<1>2. Cardinality(LostStates(r)') \in Nat
  BY FS_Difference, FS_CardinalityType DEF LostStates
<1>3. /\ One(OpenToLose(r)') <= One(OpenToLose(r))
      /\ One(StartToCome(r)') <= One(StartToCome(r))
  BY DEF One
<1>4. /\ One(OpenToLose(r)) \in 0..1 /\ One(OpenToLose(r)') \in 0..1
      /\ One(StartToCome(r)) \in 0..1 /\ One(StartToCome(r)') \in 0..1
  BY OneOf
<1>5. Cardinality(LostStates(r)') + One(OpenToLose(r)') + One(StartToCome(r)') < life'
  BY <1>1, <1>2, <1>3, <1>4 DEF Losses
<1>6. Cardinality(LostStates(r))' = Cardinality(LostStates(r)')
      /\ One(OpenToLose(r))' = One(OpenToLose(r)')
      /\ One(StartToCome(r))' = One(StartToCome(r)')
  BY DEF One
<1> QED
  BY <1>5, <1>6 DEF Losses

LEMMA LossesSame ==
  ASSUME NEW r, Losses(r), life \in Nat, life' = life,
         live'[r] = live[r], built'[r] = built[r], cucumber'[r] = cucumber[r],
         OpenToLose(r)' => OpenToLose(r), StartToCome(r)' => StartToCome(r)
  PROVE  Losses(r)'
<1>1. /\ IsFiniteSet(live'[r]) /\ \A s \in live'[r] : s <= built'[r]
      /\ LostStates(r)' = LostStates(r)
  BY DEF Losses, LostStates
<1>2. Cardinality(LostStates(r)') <= Cardinality(LostStates(r))
  BY <1>1, LostTypes DEF Losses
<1> QED
  BY <1>1, <1>2, LossesLess

(* A state is lost to the START SCENARIO of a run that finds a scenario    *)
(* open, and none is open where a run goes on.                             *)
LEMMA LossesByHandler ==
  ASSUME Awaited = Runners, RerunInv, FollowingSince, ScenariosSince,
         NEW r \in Runners, r \in Constructing \cap Destructing, Handler(r),
         UNCHANGED <<runnerVars, mark, life>>, life \in Nat, Losses(r)
  PROVE  Losses(r)'
<1>1. /\ StepsTypeOK /\ TransportTypeOK
      /\ requests[r] # <<>> => IsRequest(requests[r])
      /\ IsFiniteSet(live[r]) /\ live[r] \subseteq Nat /\ built[r] \in Nat
      /\ \A s \in live[r] : s <= built[r]
  BY NothingIgnored DEF RerunInv, TypeOK, StepsTypeOK, Losses
<1>2. actor[r] = "loop" /\ requests[r] # <<>> /\ requests'[r] = <<>>
  BY <1>1, HandlerAnswers
<1>3. ~StartToCome(r)' /\ (Preparing' <=> Preparing)
  BY <1>2 DEF StartToCome, Preparing, runnerVars
<1>4. ~Preparing => ~OpenToLose(r)'
  BY <1>3, FollowedByHandler DEF OpenToLose, Fresh
<1>5. CASE StartScenario(r)
  <2> DEFINE state == StateConstructor(r)
  <2>1. state = built[r] + 1 /\ state # 0 /\ state \in Nat /\ state \notin live[r]
    BY <1>1 DEF StateConstructor
  <2>2. /\ cucumber' = [cucumber EXCEPT ![r] = CucumberNew(state, Defs[r])]
        /\ live' = [live EXCEPT ![r] = @ \cup ({state} \ {0})]
        /\ built' = [built EXCEPT ![r] = IF state = 0 THEN @ ELSE state]
        /\ Head(requests[r]) = "START SCENARIO"
    BY <1>5 DEF StartScenario, HasRequest
  <2>3. CucumberNew(state, Defs[r]) # NULL /\ CucumberNew(state, Defs[r]).state = state
    BY <2>1, CucumberNewType, StepsAssumption DEF StepsAssumption, CucumberNew
  <2> HIDE DEF state
  <2>4. /\ cucumber'[r] # NULL /\ cucumber'[r].state = state
        /\ live'[r] = live[r] \cup {state} /\ built'[r] = state
    BY <1>1, <2>1, <2>2, <2>3 DEF StepsTypeOK
  <2>5. IsFiniteSet(live'[r])
    <3>1. IsFiniteSet(live[r] \cup {state})
      BY <1>1, FS_AddElement
    <3> QED
      BY <2>4, <3>1
  <2>6. \A s \in live'[r] : s <= built'[r]
    BY <1>1, <2>1, <2>4
  <2>7. LostStates(r)' = live[r]
    BY <2>1, <2>4 DEF LostStates
  <2>8. One(cucumber[r] # NULL) + One(OpenToLose(r)')
          <= One(OpenToLose(r)) + One(StartToCome(r))
    <3>1. CASE Preparing
      <4>1. StartToCome(r) /\ (OpenToLose(r) <=> cucumber[r] # NULL)
        BY <1>2, <2>2, <3>1 DEF StartToCome, OpenToLose, Fresh
      <4> QED
        BY <4>1 DEF One
    <3>2. CASE ~Preparing
      <4>1. /\ Wire /\ pc # "aborted" /\ FollowedSince(r)
            /\ Positions /\ cursor \in Seq(Runners)
        BY <3>2 DEF RerunInv, TypeOK, RunnerTypeOK, Carried, AssertionsHold,
                    FollowingSince
      <4>2. pc = "started" /\ r = Head(cursor) /\ r \in Elements(cursor)
        BY <1>2, <2>2, <4>1, RequestedAt, ElementsOfTail DEF Positions
      <4>3. ~Opened(r)
        BY <1>2, <4>2 DEF Opened
      <4>4. Done(r) = 0 \/ Done(r) > 0
        <5>1. log[r] \in Seq(LogEntry) /\ mark[r] \in Nat
          BY DEF RerunInv, TypeOK, StepsTypeOK, LogEntry, FollowingSince
        <5> QED
          BY <4>1, <5>1, LenProperties DEF Done, FollowedSince
      <4>5. cucumber[r] # NULL => OpenToLose(r)
        BY <1>2, <3>2, <4>3, <4>4 DEF ScenariosSince, OpenToLose, Fresh
      <4> QED
        BY <1>4, <3>2, <4>5 DEF One
    <3> QED
      BY <3>1, <3>2
  <2>9. Cardinality(live[r]) <= Cardinality(LostStates(r)) + One(cucumber[r] # NULL)
    BY <1>1, StateOverwritten
  <2>10. /\ Cardinality(live[r]) \in Nat /\ Cardinality(LostStates(r)) \in Nat
         /\ One(cucumber[r] # NULL) \in 0..1 /\ One(OpenToLose(r)') \in 0..1
         /\ One(OpenToLose(r)) \in 0..1 /\ One(StartToCome(r)) \in 0..1
    BY <1>1, LostTypes, FS_CardinalityType, OneOf
  <2>11. Cardinality(live[r]) + One(OpenToLose(r)') < life
    BY <2>8, <2>9, <2>10 DEF Losses
  <2>12. Cardinality(LostStates(r))' = Cardinality(live[r])
    BY <2>7
  <2>13. One(OpenToLose(r))' = One(OpenToLose(r)') /\ One(StartToCome(r))' = 0
    BY <1>3 DEF One
  <2>14. (Cardinality(LostStates(r)) + One(OpenToLose(r)) + One(StartToCome(r)) < life)'
    BY <2>10, <2>11, <2>12, <2>13
  <2> QED
    BY <2>5, <2>6, <2>14 DEF Losses
<1>6. CASE EndScenario(r)
  <2>1. /\ cucumber'[r] = NULL /\ built' = built
        /\ live'[r] = LostStates(r)
    BY <1>1, <1>6 DEF EndScenario, CucumberDestroy, StepsTypeOK, LostStates
  <2>2. LostStates(r)' = LostStates(r) /\ IsFiniteSet(LostStates(r))
    BY <1>1, <2>1, LostTypes DEF LostStates
  <2>3. Cardinality(LostStates(r)') <= Cardinality(LostStates(r))
    BY <1>1, <2>2, LostTypes
  <2>4. \A s \in live'[r] : s <= built'[r]
    BY <1>1, <2>1 DEF LostStates
  <2>5. ~OpenToLose(r)'
    BY <2>1 DEF OpenToLose
  <2> QED
    BY <1>3, <2>1, <2>2, <2>3, <2>4, <2>5, LossesLess
<1>7. CASE RunStep(r) \/ StepNotFound(r)
  <2>1. /\ cucumber[r] # NULL /\ cucumber'[r] # NULL
        /\ cucumber'[r].state = cucumber[r].state
        /\ live' = live /\ built' = built
    <3>1. CASE StepNotFound(r)
      BY <3>1 DEF StepNotFound, StepRequested
    <3>2. CASE RunStep(r)
      <4>1. cucumber[r] # NULL /\ cucumber[r] \in CucumberType /\ UNCHANGED <<live, built>>
        BY <1>1, <3>2 DEF RunStep, StepRequested, StepsTypeOK
      <4>2. PICK fails \in BOOLEAN :
              cucumber' = [cucumber EXCEPT ![r] =
                             CucumberStepDefRun(cucumber[r], StepDefFor(r), fails)]
        BY <3>2, Zenon DEF RunStep
      <4>3. cucumber'[r] \in CucumberType /\ cucumber'[r].state = cucumber[r].state
        BY <1>1, <4>1, <4>2, CucumberRunType DEF StepsTypeOK
      <4>4. cucumber'[r] # NULL
        BY <4>3, StepsAssumption DEF StepsAssumption
      <4> QED
        BY <4>1, <4>3, <4>4
    <3> QED
      BY <1>7, <3>1, <3>2
  <2>2. LostStates(r)' = LostStates(r)
    BY <2>1 DEF LostStates
  <2>3. Cardinality(LostStates(r)') <= Cardinality(LostStates(r))
    BY <1>1, <2>2, LostTypes
  <2>4. OpenToLose(r)' => OpenToLose(r)
    BY <1>4, <2>1 DEF OpenToLose, Fresh
  <2> QED
    BY <1>1, <1>3, <2>1, <2>3, <2>4, LossesLess
<1> QED
  BY <1>5, <1>6, <1>7 DEF Handler

(* What the other steps of a step runner do to its scenario and states.    *)
LEMMA OtherDrops ==
  ASSUME StepsTypeOK, NEW r \in Runners, StepRunner(r), ~Handler(r), ~IgnoreFrame(r)
  PROVE  \/ UNCHANGED <<cucumber, live>>
         \/ cucumber'[r] = NULL /\ live'[r] = {}
         \/ CucumberDestroy(r)
<1>1. CASE MainThread(r) \/ MainInput(r)
  BY <1>1 DEF MainThread, MainInput, StartActor, ActorStarted, AppSends, EndOfInput,
              DestroyActor, Exit
<1>2. CASE ActorThread(r)
  <2>1. CASE RecvVerbose(r) \/ RecvTerm(r) \/ CucumberStepsNew(r)
    BY <2>1 DEF RecvVerbose, RecvTerm, CucumberStepsNew
  <2>2. CASE Die(r)
    BY <2>2 DEF Die, StepsTypeOK
  <2>3. CASE CucumberStepsDestroy(r)
    BY <2>3 DEF CucumberStepsDestroy
  <2> QED
    BY <1>2, <2>1, <2>2, <2>3
       DEF ActorThread, RecvApi, RecvPickle, Handler, RecvInvalid, StepCrashes, StepUnscoped
<1> QED
  BY <1>1, <1>2 DEF StepRunner

LEMMA LossesByOther ==
  ASSUME Awaited = Runners, RerunInv, NEW r \in Runners,
         r \in Constructing \cap Destructing, StepRunner(r), ~Handler(r),
         UNCHANGED <<runnerVars, mark, life>>, life \in Nat, Losses(r)
  PROVE  Losses(r)'
<1>1. StepsTypeOK /\ ~IgnoreFrame(r) /\ log' = log /\ built' = built
      /\ (Preparing' <=> Preparing)
  BY NothingIgnored, OtherSteps DEF RerunInv, TypeOK, Preparing, runnerVars
<1>2. StartToCome(r)' => StartToCome(r)
  <2>1. SUFFICES ASSUME StartToCome(r)' PROVE StartToCome(r)
    OBVIOUS
  <2>2. Preparing /\ actor'[r] = "loop" /\ requests'[r] # <<>>
    BY <1>1, <2>1 DEF StartToCome
  <2>3. requests' = requests /\ (actor[r] = "loop" \/ CucumberStepsNew(r))
    BY <1>1, <2>2, StaysSame
  <2>4. ~CucumberStepsNew(r)
    BY <2>2, <2>3 DEF CucumberStepsNew, RerunInv, Carried, Connected
  <2> QED
    BY <2>1, <2>2, <2>3, <2>4 DEF StartToCome
<1>3. CASE UNCHANGED <<cucumber, live>>
  <2>1. OpenToLose(r)' => OpenToLose(r)
    BY <1>1, <1>3 DEF OpenToLose, Fresh, Done
  <2> QED
    BY <1>1, <1>2, <1>3, <2>1, LossesSame
<1>4. CASE cucumber'[r] = NULL /\ (live'[r] = {} \/ live'[r] = LostStates(r))
  <2>1. IsFiniteSet({}) /\ Cardinality({}) = 0
    BY FS_EmptySet
  <2>2. IsFiniteSet(LostStates(r)) /\ Cardinality(LostStates(r)) \in Nat
    BY LostTypes DEF Losses
  <2>3. LostStates(r)' = live'[r] /\ ~OpenToLose(r)'
    BY <1>4 DEF LostStates, OpenToLose
  <2>4. Cardinality(LostStates(r)') <= Cardinality(LostStates(r)) /\ IsFiniteSet(live'[r])
    BY <1>4, <2>1, <2>2, <2>3
  <2>5. \A s \in live'[r] : s <= built'[r]
    BY <1>1, <1>4 DEF Losses, LostStates
  <2> QED
    BY <1>2, <2>3, <2>4, <2>5, LossesLess
<1>5. CASE CucumberDestroy(r)
  BY <1>1, <1>4, <1>5 DEF CucumberDestroy, StepsTypeOK, LostStates
<1> QED
  BY <1>1, <1>3, <1>4, <1>5, OtherDrops

LEMMA LossesBySteps ==
  ASSUME Awaited = Runners, RerunInv, FollowingSince, ScenariosSince, LossesCounted,
         NEW r \in Runners, StepRunner(r), UNCHANGED <<runnerVars, mark, life>>
  PROVE  LossesCounted'
<1>1. SUFFICES ASSUME NEW q \in Runners, q \in Constructing \cap Destructing
               PROVE  Losses(q)'
  BY StepsAssumption DEF LossesCounted, StepsAssumption
<1>2. life \in Nat /\ Losses(q)
  BY <1>1 DEF LossesCounted
<1>3. CASE q # r
  <2>1. /\ requests'[q] = requests[q] /\ actor'[q] = actor[q]
        /\ cucumber'[q] = cucumber[q] /\ built'[q] = built[q]
        /\ live'[q] = live[q] /\ log'[q] = log[q]
    BY <1>1, <1>3, NothingIgnored, OthersKeep DEF RerunInv, TypeOK
  <2>2. /\ OpenToLose(q)' => OpenToLose(q)
        /\ StartToCome(q)' => StartToCome(q)
    BY <2>1 DEF OpenToLose, StartToCome, Fresh, Done, Preparing, runnerVars
  <2> QED
    BY <1>2, <2>1, <2>2, LossesSame
<1>4. CASE q = r
  BY <1>1, <1>2, <1>4, LossesByHandler, LossesByOther
<1> QED
  BY <1>3, <1>4

LEMMA LossesByRunner ==
  ASSUME Awaited = Runners, RerunInv, LossesCounted, RunnerThread,
         UNCHANGED <<stepsVars, life>>,
         mark' = IF RunCalled THEN [r \in Runners |-> Len(log[r])] ELSE mark
  PROVE  LossesCounted'
<1>1. SUFFICES ASSUME NEW r \in Runners, r \in Constructing \cap Destructing
               PROVE  Losses(r)'
  BY StepsAssumption DEF LossesCounted, StepsAssumption
<1>2. life \in Nat /\ Losses(r)
  BY <1>1 DEF LossesCounted
<1>3. UNCHANGED <<actor, cucumber, live, built, log>>
  BY DEF stepsVars
<1>4. CASE Preparing
  <2>1. OpenToLose(r)' => OpenToLose(r)
    BY <1>3, <1>4 DEF OpenToLose, Fresh
  <2>2. requests' = requests
    BY <1>4, PreparingSteps DEF CollectIdentity, Receive, CallRun, transportVars
  <2>3. StartToCome(r)' => StartToCome(r)
    BY <1>3, <1>4, <2>2 DEF StartToCome
  <2> QED
    BY <1>2, <1>3, <2>1, <2>3, LossesSame
<1>5. CASE ~Preparing
  <2>1. ~Preparing' /\ mark' = mark
    BY <1>5, RunSteps DEF Preparing, RunCalled
  <2>2. OpenToLose(r)' => OpenToLose(r)
    BY <1>3, <2>1 DEF OpenToLose, Fresh, Done
  <2>3. ~StartToCome(r)'
    BY <2>1 DEF StartToCome
  <2> QED
    BY <1>2, <1>3, <2>2, <2>3, LossesSame
<1> QED
  BY <1>4, <1>5

(* Two states are never to be lost at once: where a START SCENARIO of      *)
(* this run is on its way, the scenario it finds is an earlier run's.      *)
LEMMA LossesByRerun ==
  ASSUME Awaited = Runners, RerunInv, FollowingSince, ScenariosSince, LossesCounted,
         Rerun
  PROVE  LossesCounted'
<1>1. /\ life' = life + 1 /\ NewFeatureRunner /\ NewConnections
      /\ UNCHANGED <<stepsVars, mark>>
  BY DEF Rerun
<1>2. life \in Nat /\ life' \in Nat /\ Preparing'
  BY <1>1, NewFeatureRunnerTypes DEF LossesCounted
<1>3. SUFFICES ASSUME NEW r \in Runners, r \in Constructing \cap Destructing
               PROVE  Losses(r)'
  BY <1>2, StepsAssumption DEF LossesCounted, StepsAssumption
<1>4. /\ Losses(r) /\ UNCHANGED <<actor, cucumber, live, built, log>>
  BY <1>1, <1>3 DEF LossesCounted, stepsVars
<1>5. requests'[r] \in {<<>>, requests[r]}
  BY <1>1, ConnectedAgain
<1>6. One(OpenToLose(r)') + One(StartToCome(r)')
        <= One(OpenToLose(r)) + One(StartToCome(r)) + 1
  <2>1. CASE Preparing
    <3>1. OpenToLose(r)' => OpenToLose(r)
      BY <1>4, <2>1 DEF OpenToLose, Fresh
    <3>2. StartToCome(r)' => StartToCome(r)
      BY <1>4, <1>5, <2>1 DEF StartToCome
    <3> QED
      BY <3>1, <3>2 DEF One
  <2>2. CASE ~Preparing /\ OpenToLose(r)' /\ StartToCome(r)'
    <3>1. /\ cucumber[r] # NULL /\ actor[r] = "loop" /\ requests[r] # <<>>
          /\ Head(requests[r]) = "START SCENARIO"
      BY <1>4, <1>5, <2>2 DEF OpenToLose, StartToCome
    <3>2. /\ Wire /\ pc # "aborted" /\ FollowedSince(r)
          /\ Positions /\ cursor \in Seq(Runners)
      BY <2>2 DEF RerunInv, TypeOK, RunnerTypeOK, Carried, AssertionsHold,
                  FollowingSince
    <3>3. pc = "started" /\ r = Head(cursor) /\ r \in Elements(cursor)
      BY <3>1, <3>2, RequestedAt, ElementsOfTail DEF Positions
    <3>4. ~Opened(r)
      BY <3>1, <3>3 DEF Opened
    <3>5. Done(r) = 0 \/ Done(r) > 0
      <4>1. log[r] \in Seq(LogEntry) /\ mark[r] \in Nat
        BY DEF RerunInv, TypeOK, StepsTypeOK, LogEntry, FollowingSince
      <4> QED
        BY <3>2, <4>1, LenProperties DEF Done, FollowedSince
    <3>6. OpenToLose(r)
      BY <2>2, <3>1, <3>4, <3>5 DEF ScenariosSince, OpenToLose, Fresh
    <3> QED
      BY <2>2, <3>6 DEF One
  <2>3. CASE ~(OpenToLose(r)' /\ StartToCome(r)')
    BY <2>3 DEF One
  <2> QED
    BY <2>1, <2>2, <2>3
<1>7. LostStates(r)' = LostStates(r) /\ Cardinality(LostStates(r)) \in Nat
  BY <1>4, LostTypes DEF LostStates, Losses
<1>8. /\ One(OpenToLose(r)) \in 0..1 /\ One(OpenToLose(r)') \in 0..1
      /\ One(StartToCome(r)) \in 0..1 /\ One(StartToCome(r)') \in 0..1
  BY OneOf
<1>9. Cardinality(LostStates(r)) + One(OpenToLose(r)') + One(StartToCome(r)') < life'
  BY <1>1, <1>2, <1>4, <1>6, <1>7, <1>8 DEF Losses
<1>10. Cardinality(LostStates(r))' = Cardinality(LostStates(r))
       /\ One(OpenToLose(r))' = One(OpenToLose(r)')
       /\ One(StartToCome(r))' = One(StartToCome(r)')
  BY <1>7 DEF One
<1> QED
  BY <1>4, <1>9, <1>10 DEF Losses

-----------------------------------------------------------------------------
(***************************************************************************)
(* The invariant and the theorems.                                         *)
(***************************************************************************)

(* The invariant of CucumberReruns.                                        *)
RerunsInv == RerunInv /\ FollowingSince /\ ScenariosSince /\ LossesCounted

LEMMA RerunsInvInit ==
  RerunsInit => RerunsInv
<1> SUFFICES ASSUME RerunsInit PROVE RerunsInv
  OBVIOUS
<1>1. Init /\ life = 1 /\ mark = [r \in Runners |-> 0]
  BY DEF RerunsInit
<1>2. RerunInv /\ Preparing /\ ScriptAt
  BY <1>1, RerunInvInit
     DEF Init, FeatureRunnerInit, Preparing, ScriptAt, InRound, Waiting
<1>3. FollowingSince /\ ScenariosSince
  BY <1>1, <1>2 DEF FollowingSince, ScenariosSince
<1>4. ASSUME NEW r \in Runners
      PROVE  Losses(r)
  <2>1. live[r] = {} /\ cucumber[r] = NULL /\ requests[r] = <<>>
    BY <1>1 DEF Init, StepsInit, TransportInit
  <2>2. IsFiniteSet({}) /\ Cardinality({}) = 0
    BY FS_EmptySet
  <2>3. LostStates(r) = {} /\ ~OpenToLose(r) /\ ~StartToCome(r)
    BY <2>1 DEF LostStates, OpenToLose, StartToCome
  <2> QED
    BY <1>1, <2>1, <2>2, <2>3 DEF Losses, One
<1>5. LossesCounted
  BY <1>1, <1>4, StepsAssumption DEF LossesCounted, StepsAssumption
<1> QED
  BY <1>2, <1>3, <1>5 DEF RerunsInv

LEMMA RerunsInvNext ==
  ASSUME Awaited = Runners, RerunsInv, [RerunsNext]_rerunVars
  PROVE  RerunsInv'
<1>0. RerunInv /\ FollowingSince /\ ScenariosSince /\ LossesCounted
  BY DEF RerunsInv
<1>1. CASE RunnerThread /\ UNCHANGED stepsVars /\ SameLife
  <2>1. /\ mark' = IF RunCalled THEN [r \in Runners |-> Len(log[r])] ELSE mark
        /\ UNCHANGED <<stepsVars, life>>
    BY <1>1 DEF SameLife
  <2> QED
    BY <1>0, <1>1, <2>1, RerunInvByRunner, FollowingByRunner, ScenariosSinceByRunner,
       LossesByRunner DEF RerunsInv
<1>2. ASSUME NEW r \in Runners, StepRunner(r), UNCHANGED runnerVars, SameLife
      PROVE  RerunsInv'
  <2>1. UNCHANGED <<runnerVars, mark, life>>
    BY <1>2 DEF SameLife, RunCalled, runnerVars
  <2> QED
    BY <1>0, <1>2, <2>1, RerunInvBySteps, FollowingBySteps, ScenariosSinceBySteps,
       LossesBySteps DEF RerunsInv
<1>3. CASE Rerun
  <2>1. NewFeatureRunner /\ NewConnections /\ UNCHANGED <<stepsVars, mark>>
    BY <1>3 DEF Rerun
  <2>2. RerunInv' /\ LossesCounted'
    BY <1>0, <1>3, <2>1, RerunInvByRerun, LossesByRerun
  <2>3. Preparing' /\ ScriptAt'
    BY <2>1, NewFeatureRunnerTypes
  <2>4. FollowingSince' /\ ScenariosSince'
    BY <1>0, <2>1, <2>3 DEF FollowingSince, ScenariosSince
  <2> QED
    BY <2>2, <2>4 DEF RerunsInv
<1>4. CASE UNCHANGED rerunVars
  <2> USE <1>4 DEF rerunVars, vars, runnerVars, stepsVars, transportVars
  <2>1. RunnerTypeOK' /\ StepsTypeOK' /\ TransportTypeOK'
    BY <1>0 DEF RerunInv, TypeOK, RunnerTypeOK, StepsTypeOK, TransportTypeOK
  <2>2. Positions' /\ Lists' /\ Collected' /\ AssertionsHold'
    BY <1>0 DEF RerunInv, Positions, Lists, Collected, AllAwaited, Elements,
                IsInjective, AssertionsHold
  <2>3. Carried'
    <3>1. Wire => Wire'
      BY DEF Wire, Quiet, Asking, Asked, AnswersAsked
    <3>2. Greetings => Greetings'
      BY DEF Greetings, Elements
    <3>3. \A r \in Runners :
            (Leftover(r) /\ Connected(r)) => (Leftover(r)' /\ Connected(r)')
      BY DEF Leftover, Connected, Elements
    <3>4. Carried /\ (Preparing' <=> Preparing)
      BY <1>0 DEF RerunInv, Preparing
    <3> QED
      BY <3>1, <3>2, <3>3, <3>4 DEF Carried
  <2>4. FollowingSince' /\ ScenariosSince'
    BY <1>0 DEF FollowingSince, FollowedSince, ScriptAt, InRound, Last, Preparing, Done,
                ScenariosSince, Opened, Elements
  <2>5. LossesCounted'
    BY <1>0 DEF LossesCounted, Losses, LostStates, OpenToLose, StartToCome, Fresh,
                Preparing, Done
  <2> QED
    BY <2>1, <2>2, <2>3, <2>4, <2>5 DEF RerunsInv, RerunInv, TypeOK
<1>5. CASE Finished /\ SameLife
  <2>1. UNCHANGED rerunVars
    BY <1>5 DEF Finished, SameLife, RunCalled, rerunVars, vars, runnerVars
  <2> QED
    BY <1>4, <2>1
<1> QED
  BY <1>1, <1>2, <1>3, <1>4, <1>5 DEF RerunsNext, SameLife, Next

LEMMA RerunsInvariant ==
  ASSUME Awaited = Runners
  PROVE  RerunsSpec => []RerunsInv
<1>1. RerunsInv /\ [RerunsNext]_rerunVars => RerunsInv'
  BY RerunsInvNext
<1> QED
  BY <1>1, RerunsInvInit, PTL DEF RerunsSpec

(* When each caller awaits all step runners, no assertion of any run       *)
(* fails, whatever the feature runners before it left behind.              *)
THEOREM NoAssertionFailsInReruns ==
  ASSUME Awaited = Runners
  PROVE  RerunsSpec => []AssertionsHold
<1>1. RerunsInv => AssertionsHold
  BY DEF RerunsInv, RerunInv
<1> QED
  BY <1>1, RerunsInvariant, PTL

(* When each caller awaits them all, what a step runner handles in a run   *)
(* is what the feature of that run asks for, in order.                     *)
THEOREM EachRunFollowsItsScript ==
  ASSUME Awaited = Runners
  PROVE  RerunsSpec => []RerunFollowsScript
<1>1. ASSUME RerunsInv PROVE RerunFollowsScript
  <2>1. SUFFICES ASSUME Running, NEW r \in Elements(identities)
                 PROVE  LET handled == SubSeq(log[r], mark[r] + 1, Len(log[r]))
                        IN  /\ Len(handled) <= Len(script)
                            /\ Len(script) - Len(handled) <=
                                 IF pc \in {"start", "run", "end"} \cup Waiting THEN 1 ELSE 0
                            /\ \A k \in DOMAIN handled : handled[k].frames = script[k].frames
    BY DEF RerunFollowsScript
  <2> DEFINE handled == SubSeq(log[r], mark[r] + 1, Len(log[r]))
  <2>2. /\ r \in Runners /\ log[r] \in Seq(LogEntry) /\ mark[r] \in Nat
        /\ script \in Seq(ScriptEntry) /\ FollowedSince(r)
    <3>1. r \in Runners
      BY <1>1, <2>1, ElementOfSeq, LenProperties
         DEF RerunsInv, RerunInv, TypeOK, RunnerTypeOK, Elements
    <3> QED
      BY <1>1, <2>1, <3>1
         DEF RerunsInv, RerunInv, TypeOK, RunnerTypeOK, StepsTypeOK, FollowingSince,
             Running, Preparing, LogEntry, ScriptEntry
  <2>3. /\ Len(log[r]) \in Nat /\ Len(script) \in Nat /\ mark[r] <= Len(log[r])
        /\ Done(r) \in Nat
    BY <2>2, LenProperties DEF FollowedSince, Done
  <2>4. /\ Len(handled) = Done(r) /\ DOMAIN handled = 1..Done(r)
        /\ \A k \in 1..Done(r) : handled[k] = log[r][mark[r] + k]
    <3>1. \A i \in (mark[r] + 1)..Len(log[r]) : log[r][i] \in LogEntry
      BY <2>2, <2>3, ElementOfSeq
    <3>2. mark[r] + 1 \in Int /\ Len(log[r]) \in Int
      BY <2>2, <2>3
    <3>3. /\ handled \in Seq(LogEntry)
          /\ Len(handled) = IF mark[r] + 1 <= Len(log[r])
                            THEN Len(log[r]) - (mark[r] + 1) + 1 ELSE 0
          /\ \A i \in 1..(Len(log[r]) - (mark[r] + 1) + 1) :
               handled[i] = log[r][(mark[r] + 1) + i - 1]
      BY <3>1, <3>2, SubSeqProperties
    <3>4. Len(handled) = Done(r)
      BY <2>2, <2>3, <3>3 DEF Done
    <3>5. DOMAIN handled = 1..Done(r)
      BY <3>3, <3>4, LenProperties
    <3>6. \A k \in 1..Done(r) : handled[k] = log[r][mark[r] + k]
      <4>1. ASSUME NEW k \in 1..Done(r)
            PROVE  handled[k] = log[r][mark[r] + k]
        <5>1. /\ k \in 1..(Len(log[r]) - (mark[r] + 1) + 1)
              /\ (mark[r] + 1) + k - 1 = mark[r] + k
          BY <2>2, <2>3 DEF Done
        <5> QED
          BY <3>3, <5>1
      <4> QED
        BY <4>1
    <3> QED
      BY <3>4, <3>5, <3>6
  <2> HIDE DEF handled
  <2>5. /\ Done(r) <= Len(script)
        /\ Len(script) - Done(r) <= IF InRound THEN 1 ELSE 0
    BY <2>2, <2>3 DEF FollowedSince
  <2>6. \A k \in DOMAIN handled : handled[k].frames = script[k].frames
    BY <2>2, <2>4 DEF FollowedSince
  <2> QED
    BY <2>4, <2>5, <2>6 DEF InRound, handled
<1> QED
  BY <1>1, RerunsInvariant, PTL

(* When each caller awaits them all, a feature runner that is killed costs *)
(* a step runner that constructs and destroys its states one at most.      *)
THEOREM OneStateLost ==
  ASSUME Awaited = Runners
  PROVE  RerunsSpec => []OneStateLostPerRun
<1>1. ASSUME RerunsInv PROVE OneStateLostPerRun
  <2>1. SUFFICES ASSUME NEW r \in Constructing \cap Destructing
                 PROVE  Cardinality(LostStates(r)) < life
    BY DEF OneStateLostPerRun, LostStates
  <2>2. life \in Nat /\ Losses(r)
    BY <1>1, <2>1 DEF RerunsInv, LossesCounted
  <2>3. /\ Cardinality(LostStates(r)) \in Nat
        /\ One(OpenToLose(r)) \in 0..1 /\ One(StartToCome(r)) \in 0..1
    BY <2>2, LostTypes, OneOf DEF Losses
  <2> QED
    BY <2>2, <2>3 DEF Losses
<1> QED
  BY <1>1, RerunsInvariant, PTL

-----------------------------------------------------------------------------
(***************************************************************************)
(* CucumberSystem implements TestRun: what its agenda is made of.          *)
(***************************************************************************)
(* Sequences of sequences and what FlattenSeq returns of them: f[i] is the   *)
(* concatenation of the first i of ss. Each lemma is by the least i without it. *)
Cat(s, t) == s \o t
Grown(f, ss, i) == IF i = 1 THEN ss[i] ELSE Cat(f[i - 1], ss[i])
Flattens(f, ss, n) == f = [i \in 1..n |-> Grown(f, ss, i)]

LEMMA GrownIs ==
  ASSUME NEW f, NEW ss
  PROVE  /\ Grown(f, ss, 1) = ss[1]
         /\ \A i \in Nat : i > 1 => Grown(f, ss, i) = Cat(f[i - 1], ss[i])
<1>1. Grown(f, ss, 1) = ss[1]
  BY DEF Grown
<1>2. ASSUME NEW i \in Nat, i > 1 PROVE Grown(f, ss, i) = Cat(f[i - 1], ss[i])
  <2>1. i # 1
    BY <1>2
  <2> QED BY <2>1 DEF Grown
<1> QED BY <1>1, <1>2

LEMMA FlattensOne ==
  ASSUME NEW f, NEW ss, NEW n \in Nat, Flattens(f, ss, n)
  PROVE  /\ DOMAIN f = 1..n
         /\ n > 0 => f[1] = ss[1]
         /\ \A i \in 2..n : f[i] = Cat(f[i - 1], ss[i])
<1> DEFINE G == [i \in 1..n |-> Grown(f, ss, i)]
<1>1. f = G
  BY DEF Flattens
<1>2. /\ DOMAIN G = 1..n
      /\ n > 0 => G[1] = ss[1]
      /\ \A i \in 2..n : G[i] = Cat(f[i - 1], ss[i])
  BY GrownIs
<1> HIDE DEF G
<1> QED
  BY <1>1, <1>2

LEMMA FlattensIs ==
  ASSUME NEW f, NEW ss, NEW n \in Nat, 
         f = [i \in 1..n |-> f[i]],
         n > 0 => f[1] = ss[1],
         \A i \in 2..n : f[i] = Cat(f[i - 1], ss[i])
  PROVE  Flattens(f, ss, n)
<1> DEFINE G == [i \in 1..n |-> Grown(f, ss, i)]
<1>1. \A i \in 1..n : f[i] = Grown(f, ss, i)
  <2>1. ASSUME NEW i \in 1..n PROVE f[i] = Grown(f, ss, i)
    <3>1. CASE i = 1
      BY <3>1, GrownIs
    <3>2. CASE i # 1
      <4>1. i \in 2..n /\ i \in Nat /\ i > 1
        BY <3>2
      <4> QED BY <4>1, GrownIs
    <3> QED BY <3>1, <3>2
  <2> QED BY <2>1
<1>2. \A i \in 1..n : f[i] = G[i]
  BY <1>1
<1>3. G = [i \in 1..n |-> G[i]]
  OBVIOUS
<1>4. f = G
  <2> HIDE DEF G
  <2> QED BY <1>2, <1>3
<1> QED
  BY <1>4 DEF Flattens

LEMMA FlattensTypes ==
  ASSUME NEW S, NEW ss \in Seq(Seq(S)), NEW n \in 0..Len(ss), NEW f, Flattens(f, ss, n)
  PROVE  \A i \in 1..n : f[i] \in Seq(S)
<1> DEFINE M == {i \in 1..n : f[i] \notin Seq(S)}
<1> SUFFICES ASSUME M # {} PROVE FALSE
  OBVIOUS
<1>0. n \in Nat /\ n <= Len(ss) /\ Len(ss) \in Nat
  OBVIOUS
<1>f. n > 0 => f[1] = ss[1]
  BY <1>0, FlattensOne
<1>g. \A i \in 2..n : f[i] = Cat(f[i - 1], ss[i])
  BY <1>0, FlattensOne
<1>1. PICK i \in M : \A j \in M : i <= j
  <2>1. M \subseteq Nat
    OBVIOUS
  <2> HIDE DEF M
  <2> QED BY <2>1, SmallestOf
<1>2. i \in 1..n /\ ss[i] \in Seq(S)
  BY <1>0, ElementOfSeq
<1>3. CASE i = 1
  BY <1>2, <1>3, <1>f
<1>4. CASE i # 1
  <2>1. i - 1 \in 1..n /\ i - 1 \notin M
    BY <1>1, <1>2, <1>4
  <2>2. f[i - 1] \in Seq(S)
    BY <2>1
  <2>3. f[i] = Cat(f[i - 1], ss[i])
    BY <1>g, <1>2, <1>4
  <2>4. Cat(f[i - 1], ss[i]) \in Seq(S)
    BY <2>2, <1>2, ConcatProperties DEF Cat
  <2> QED
    BY <2>3, <2>4
<1> QED
  BY <1>3, <1>4

LEMMA FlattensUnique ==
  ASSUME NEW ss, NEW tt, NEW n \in Nat, NEW m \in Nat, n <= m, NEW f, NEW g,
         Flattens(f, ss, n), Flattens(g, tt, m), \A i \in 1..n : ss[i] = tt[i]
  PROVE  \A i \in 1..n : f[i] = g[i]
<1> DEFINE M == {i \in 1..n : f[i] # g[i]}
<1> SUFFICES ASSUME M # {} PROVE FALSE
  OBVIOUS
<1>f. /\ n > 0 => f[1] = ss[1]
      /\ \A i \in 2..n : f[i] = Cat(f[i - 1], ss[i])
  BY FlattensOne
<1>g. /\ m > 0 => g[1] = tt[1]
      /\ \A i \in 2..m : g[i] = Cat(g[i - 1], tt[i])
  BY FlattensOne
<1>1. PICK i \in M : \A j \in M : i <= j
  <2>1. M \subseteq Nat
    OBVIOUS
  <2> HIDE DEF M
  <2> QED BY <2>1, SmallestOf
<1>2. i \in 1..n /\ f[i] # g[i]
  OBVIOUS
<1>3. i # 1
  BY <1>2, <1>f, <1>g
<1>4. i - 1 \in 1..n /\ i - 1 \notin M /\ i \in 2..n /\ i \in 2..m
  BY <1>1, <1>2, <1>3
<1>5. f[i - 1] = g[i - 1]
  BY <1>4
<1> QED
  BY <1>5, <1>f, <1>g, <1>4, <1>2

LEMMA FlattensExists ==
  ASSUME NEW S, NEW ss \in Seq(Seq(S))
  PROVE  \A n \in 0..Len(ss) : \E f : Flattens(f, ss, n)
<1> DEFINE M == {n \in 0..Len(ss) : ~\E f : Flattens(f, ss, n)}
<1> SUFFICES ASSUME M # {} PROVE FALSE
  OBVIOUS
<1>0. Len(ss) \in Nat
  OBVIOUS
<1>1. PICK n \in M : \A j \in M : n <= j
  <2>1. M \subseteq Nat
    OBVIOUS
  <2> HIDE DEF M
  <2> QED BY <2>1, SmallestOf
<1>2. n \in 0..Len(ss) /\ n \in Nat
  BY <1>0
<1>3. n # 0
  <2> SUFFICES ASSUME n = 0 PROVE FALSE
    OBVIOUS
  <2>1. Flattens([i \in 1..0 |-> 0], ss, 0)
    BY DEF Flattens
  <2> QED BY <2>1
<1>4. n - 1 \in 0..Len(ss) /\ n - 1 \in Nat /\ ~(n <= n - 1)
  BY <1>0, <1>2, <1>3
<1>m. n - 1 \notin M
  <2> HIDE DEF M
  <2> QED BY <1>1, <1>4
<1>5. PICK f : Flattens(f, ss, n - 1)
  BY <1>4, <1>m
<1>f. /\ n - 1 > 0 => f[1] = ss[1]
      /\ \A i \in 2..n - 1 : f[i] = Cat(f[i - 1], ss[i])
  BY <1>5, <1>4, FlattensOne
<1> DEFINE g == [i \in 1..n |-> IF i = n THEN (IF n = 1 THEN ss[1] ELSE Cat(f[n - 1], ss[n])) ELSE f[i]]
<1>6. g = [i \in 1..n |-> g[i]]
  OBVIOUS
<1>7. \A i \in 1..n : i # n => g[i] = f[i]
  OBVIOUS
<1>8. g[n] = (IF n = 1 THEN ss[1] ELSE Cat(f[n - 1], ss[n]))
  BY <1>2, <1>3
<1>9. Flattens(g, ss, n)
  <2> HIDE DEF g
  <2>1. g[1] = ss[1]
    BY <1>7, <1>8, <1>f, <1>2, <1>3
  <2>2. ASSUME NEW i \in 2..n PROVE g[i] = Cat(g[i - 1], ss[i])
    <3>1. i - 1 \in 1..n /\ i - 1 # n /\ i \in 1..n
      BY <1>2
    <3>2. g[i - 1] = f[i - 1]
      BY <3>1, <1>7
    <3>3. CASE i = n
      BY <3>3, <3>2, <1>8
    <3>4. CASE i # n
      <4>1. i \in 2..n - 1
        BY <3>4, <1>2
      <4> QED BY <4>1, <3>2, <3>4, <3>1, <1>7, <1>f
    <3> QED BY <3>3, <3>4
  <2> QED
    BY <2>1, <2>2, <1>6, <1>2, FlattensIs
<1> QED
  BY <1>9

(* FlattenSeq chooses the only function that flattens. *)
LEMMA FlattenSeqDef ==
  ASSUME NEW S, NEW ss \in Seq(Seq(S)), ss # <<>>
  PROVE  \E f : Flattens(f, ss, Len(ss)) /\ SeqsExt!FlattenSeq(ss) = f[Len(ss)]
<1> DEFINE F == CHOOSE f : Flattens(f, ss, Len(ss))
<1>1. Len(ss) \in Nat /\ Len(ss) # 0
  BY EmptySeq
<1>2. Flattens(F, ss, Len(ss))
  BY <1>1, FlattensExists
<1>3. SeqsExt!FlattenSeq(ss) = F[Len(ss)]
  BY <1>1, Zenon DEF SeqsExt!FlattenSeq, Flattens, Grown, Cat
<1> QED
  BY <1>2, <1>3

LEMMA FlattenSeqTypes ==
  ASSUME NEW S, NEW ss \in Seq(Seq(S))
  PROVE  SeqsExt!FlattenSeq(ss) \in Seq(S)
<1>1. CASE ss = <<>>
  <2>1. SeqsExt!FlattenSeq(ss) = <<>>
    BY <1>1, EmptySeq DEF SeqsExt!FlattenSeq
  <2> QED BY <2>1, EmptySeq
<1>2. CASE ss # <<>>
  <2>1. PICK f : Flattens(f, ss, Len(ss)) /\ SeqsExt!FlattenSeq(ss) = f[Len(ss)]
    BY <1>2, FlattenSeqDef
  <2>2. Len(ss) \in 0..Len(ss) /\ Len(ss) \in 1..Len(ss)
    BY <1>2, EmptySeq
  <2>3. \A i \in 1..Len(ss) : f[i] \in Seq(S)
    BY <2>1, <2>2, FlattensTypes
  <2> QED BY <2>1, <2>2, <2>3
<1> QED BY <1>1, <1>2

LEMMA CatAssociative ==
  ASSUME NEW S, NEW s \in Seq(S), NEW t \in Seq(S), NEW u \in Seq(S)
  PROVE  Cat(Cat(s, t), u) = Cat(s, Cat(t, u))
<1>1. (s \o t) \o u = s \o (t \o u)
  BY ConcatAssociative
<1> QED BY <1>1 DEF Cat

LEMMA CatEmpty ==
  ASSUME NEW S, NEW s \in Seq(S)
  PROVE  Cat(s, <<>>) = s /\ Cat(<<>>, s) = s
BY ConcatEmptySeq DEF Cat

LEMMA CatTypes ==
  ASSUME NEW S, NEW s \in Seq(S), NEW t \in Seq(S)
  PROVE  Cat(s, t) \in Seq(S)
BY ConcatProperties DEF Cat

(* The first n of ss and of tt are the same. *)
Agree(ss, tt, n) == \A i \in 1..n : ss[i] = tt[i]

LEMMA FlattensLonger ==
  ASSUME NEW ss, NEW tt, NEW n \in Nat, n # 0, NEW m, m = n + 1, NEW f, NEW g,
         Flattens(f, ss, n), Flattens(g, tt, m), Agree(ss, tt, n)
  PROVE  g[m] = Cat(f[n], tt[m])
<1>0. \A i \in 1..n : ss[i] = tt[i]
  BY DEF Agree
<1>1. \A i \in 1..n : f[i] = g[i]
  BY <1>0, FlattensUnique
<1>2. \A i \in 2..m : g[i] = Cat(g[i - 1], tt[i])
  BY FlattensOne
<1> QED BY <1>1, <1>2

LEMMA FlattensFirst ==
  ASSUME NEW tt, NEW g, Flattens(g, tt, 1)
  PROVE  g[1] = tt[1]
BY FlattensOne

(* What is appended to a sequence is concatenated at the end. *)
LEMMA FlattenSeqAppend ==
  ASSUME NEW S, NEW ss \in Seq(Seq(S)), NEW s \in Seq(S)
  PROVE  SeqsExt!FlattenSeq(Append(ss, s)) = Cat(SeqsExt!FlattenSeq(ss), s)
<1>1. /\ Append(ss, s) \in Seq(Seq(S)) /\ Append(ss, s) # <<>>
      /\ Len(Append(ss, s)) = Len(ss) + 1 /\ Len(ss) \in Nat
      /\ \A i \in 1..Len(ss) : ss[i] = Append(ss, s)[i]
      /\ Append(ss, s)[Len(ss) + 1] = s
  BY AppendProperties, LenProperties
<1>2. PICK tt : tt = Append(ss, s)
  OBVIOUS
<1>3. PICK n : n = Len(ss)
  OBVIOUS
<1>4. /\ tt \in Seq(Seq(S)) /\ tt # <<>> /\ Len(tt) = n + 1 /\ n \in Nat
      /\ tt[n + 1] = s
  BY <1>1, <1>2, <1>3
<1>5. \A i \in 1..n : ss[i] = tt[i]
  BY <1>1, <1>2, <1>3, Zenon
<1>6. PICK g : Flattens(g, tt, n + 1) /\ SeqsExt!FlattenSeq(tt) = g[n + 1]
  BY <1>4, FlattenSeqDef
<1>7. SeqsExt!FlattenSeq(tt) = Cat(SeqsExt!FlattenSeq(ss), s)
  <2>1. CASE ss = <<>>
    <3>1. n = 0 /\ n + 1 = 1
      BY <2>1, <1>3, EmptySeq
    <3>2. SeqsExt!FlattenSeq(ss) = <<>>
      BY <2>1, <3>1, <1>3 DEF SeqsExt!FlattenSeq
    <3>3. g[n + 1] = tt[n + 1]
      BY <1>6, <3>1, FlattensFirst, Zenon
    <3>4. Cat(<<>>, s) = s
      BY CatEmpty
    <3> QED BY <3>2, <3>3, <3>4, <1>6, <1>4
  <2>2. CASE ss # <<>>
    <3>1. n > 0
      BY <2>2, <1>3, EmptySeq
    <3>2. PICK f : Flattens(f, ss, n) /\ SeqsExt!FlattenSeq(ss) = f[n]
      BY <2>2, <1>3, FlattenSeqDef
    <3>3. g[n + 1] = Cat(f[n], tt[n + 1])
      <4>1. n \in Nat /\ n # 0 /\ Agree(ss, tt, n)
        BY <1>4, <1>5, <3>1 DEF Agree
      <4> QED BY <4>1, <1>6, <3>2, FlattensLonger
    <3> QED BY <3>2, <3>3, <1>4, <1>6
  <2> QED BY <2>1, <2>2
<1> QED BY <1>2, <1>7

(* And its head is concatenated first. *)
LEMMA FlattenSeqTail ==
  ASSUME NEW S, NEW ss \in Seq(Seq(S)), ss # <<>>
  PROVE  SeqsExt!FlattenSeq(ss) = Cat(Head(ss), SeqsExt!FlattenSeq(Tail(ss)))
<1> DEFINE Q(tt) == SeqsExt!FlattenSeq(tt) = Cat(Head(tt), SeqsExt!FlattenSeq(Tail(tt)))
           M == {n \in Nat : \E tt \in Seq(Seq(S)) : Len(tt) = n /\ tt # <<>> /\ ~Q(tt)}
<1> SUFFICES ASSUME M # {} PROVE FALSE
  <2> SUFFICES ASSUME ~Q(ss) PROVE Len(ss) \in M
    OBVIOUS
  <2> HIDE DEF Q
  <2> QED BY LenProperties
<1>1. PICK n \in M : \A j \in M : n <= j
  <2>1. M \subseteq Nat
    OBVIOUS
  <2> HIDE DEF M
  <2> QED BY <2>1, SmallestOf
<1>2. PICK tt \in Seq(Seq(S)) : Len(tt) = n /\ tt # <<>> /\ ~Q(tt)
  <2> HIDE DEF Q
  <2> QED BY <1>1
<1>3. PICK uu \in Seq(Seq(S)), s \in Seq(S) : tt = Append(uu, s)
  <2> HIDE DEF Q, M
  <2> QED BY <1>2, SequenceEmptyOrAppend
<1>4. /\ SeqsExt!FlattenSeq(tt) = Cat(SeqsExt!FlattenSeq(uu), s)
      /\ Head(tt) = (IF uu = <<>> THEN s ELSE Head(uu))
      /\ Tail(tt) = (IF uu = <<>> THEN <<>> ELSE Append(Tail(uu), s))
  <2> HIDE DEF Q, M
  <2> QED BY <1>3, FlattenSeqAppend, HeadTailAppend
<1>5. SeqsExt!FlattenSeq(<<>>) = <<>>
  BY DEF SeqsExt!FlattenSeq
<1>6. CASE uu = <<>>
  <2>1. Cat(s, <<>>) = s /\ Cat(<<>>, s) = s
    BY CatEmpty
  <2>2. Q(tt)
    BY <1>4, <1>5, <1>6, <2>1
  <2> HIDE DEF Q
  <2> QED BY <2>2, <1>2
<1>7. CASE uu # <<>>
  <2>1. Len(uu) \in Nat /\ n = Len(uu) + 1
    <3> HIDE DEF Q, M
    <3> QED BY <1>2, <1>3, AppendProperties, LenProperties
  <2>2. Len(uu) \notin M
    <3> HIDE DEF M
    <3> QED BY <2>1, <1>1
  <2>3. Q(uu)
    <3> HIDE DEF Q
    <3> QED BY <2>1, <2>2, <1>7
  <2> HIDE DEF M
  <2> PICK h : h = Head(uu)
    OBVIOUS
  <2> PICK t : t = Tail(uu)
    OBVIOUS
  <2> PICK flat : flat = SeqsExt!FlattenSeq(t)
    OBVIOUS
  <2>4. h \in Seq(S) /\ t \in Seq(Seq(S))
    BY <1>7, HeadTailProperties
  <2>5. flat \in Seq(S)
    <3> QED BY <2>4, FlattenSeqTypes
  <2>6. SeqsExt!FlattenSeq(Append(t, s)) = Cat(flat, s)
    <3> QED BY <2>4, FlattenSeqAppend
  <2>7. Cat(Cat(h, flat), s) = Cat(h, Cat(flat, s))
    <3>1. h \in Seq(S) /\ flat \in Seq(S) /\ s \in Seq(S)
      BY <2>4, <2>5
    <3> QED BY <3>1, CatAssociative
  <2>8. SeqsExt!FlattenSeq(tt) = Cat(Cat(h, flat), s)
    <3>1. SeqsExt!FlattenSeq(uu) = Cat(h, flat)
      BY <2>3
    <3> QED BY <3>1, <1>4
  <2>9. Head(tt) = h /\ Tail(tt) = Append(t, s)
    BY <1>4, <1>7
  <2>10. Q(tt)
    <3> QED BY <2>6, <2>7, <2>8, <2>9
  <2> HIDE DEF Q
  <2> QED BY <2>10, <1>2
<1> QED BY <1>6, <1>7

(* G is in U for each element of T; the sequence of what it is for s. *)
Gives(G, T, U) == \A x \in T : G[x] \in U
Mapped(G, s) == [i \in 1..Len(s) |-> G[s[i]]]

LEMMA MappedSeq ==
  ASSUME NEW U, NEW T, NEW G, Gives(G, T, U), NEW s \in Seq(T)
  PROVE  /\ Mapped(G, s) \in Seq(U)
         /\ Len(Mapped(G, s)) = Len(s)
         /\ \A i \in 1..Len(s) : Mapped(G, s)[i] = G[s[i]]
<1>1. \A i \in 1..Len(s) : s[i] \in T
  BY ElementOfSeq
<1>2. Len(s) \in Nat
  BY LenProperties
<1> QED
  BY <1>1, <1>2 DEF Mapped, Gives

LEMMA MappedEmpty ==
  ASSUME NEW G
  PROVE  Mapped(G, <<>>) = <<>>
BY DEF Mapped

LEMMA MappedTail ==
  ASSUME NEW U, NEW T, NEW G, Gives(G, T, U), NEW s \in Seq(T), s # <<>>
  PROVE  /\ Mapped(G, s) # <<>>
         /\ Head(Mapped(G, s)) = G[Head(s)]
         /\ Tail(Mapped(G, s)) = Mapped(G, Tail(s))
<1>1. PICK m : m = Mapped(G, s)
  OBVIOUS
<1>2. PICK t : t = Tail(s)
  OBVIOUS
<1>3. PICK n : n = Mapped(G, t)
  OBVIOUS
<1>4. /\ t \in Seq(T) /\ Len(t) = Len(s) - 1 /\ Len(s) \in Nat /\ Len(s) > 0
      /\ \A i \in 1..Len(t) : t[i] = s[i + 1]
  BY <1>2, HeadTailProperties, EmptySeq
<1>a. /\ m \in Seq(U) /\ Len(m) = Len(s)
      /\ \A i \in 1..Len(s) : m[i] = G[s[i]]
  BY <1>1, MappedSeq
<1>b. /\ n \in Seq(U) /\ Len(n) = Len(t)
      /\ \A i \in 1..Len(t) : n[i] = G[t[i]]
  BY <1>3, <1>4, MappedSeq
<1>5. /\ m \in Seq(U) /\ Len(m) = Len(s) /\ n \in Seq(U) /\ Len(n) = Len(t)
      /\ \A i \in 1..Len(s) : m[i] = G[s[i]]
      /\ \A i \in 1..Len(t) : n[i] = G[t[i]]
  BY <1>a, <1>b
<1>6. m # <<>>
  BY <1>5, <1>4
<1>7. Head(m) = G[Head(s)]
  <2>1. Head(m) = m[1] /\ Head(s) = s[1]
    BY <1>5, <1>6
  <2>2. m[1] = G[s[1]]
    BY <1>4, <1>5
  <2> QED
    BY <2>1, <2>2
<1>8. Tail(m) = n
  <2>1. /\ Tail(m) \in Seq(U) /\ Len(Tail(m)) = Len(n)
        /\ \A i \in 1..Len(n) : Tail(m)[i] = m[i + 1]
    BY <1>5, <1>6, <1>4, HeadTailProperties
  <2>2. ASSUME NEW i \in 1..Len(n) PROVE Tail(m)[i] = n[i]
    <3>1. i \in 1..Len(t) /\ i + 1 \in 1..Len(s)
      BY <1>4, <1>5
    <3>2. n[i] = G[t[i]]
      BY <3>1, <1>5
    <3>3. m[i + 1] = G[s[i + 1]]
      BY <3>1, <1>5
    <3>4. t[i] = s[i + 1]
      BY <3>1, <1>4
    <3> QED
      BY <2>1, <3>2, <3>3, <3>4
  <2> QED
    BY <2>1, <2>2, <1>5, SeqEqual
<1> QED
  BY <1>1, <1>2, <1>3, <1>6, <1>7, <1>8

LEMMA MappedAppend ==
  ASSUME NEW U, NEW T, NEW G, Gives(G, T, U), NEW s \in Seq(T), NEW x \in T
  PROVE  Mapped(G, Append(s, x)) = Append(Mapped(G, s), G[x])
<1>1. PICK m : m = Mapped(G, s)
  OBVIOUS
<1>2. PICK t : t = Append(s, x)
  OBVIOUS
<1>3. PICK n : n = Mapped(G, t)
  OBVIOUS
<1>4. /\ t \in Seq(T) /\ Len(t) = Len(s) + 1 /\ Len(s) \in Nat
      /\ \A i \in 1..Len(s) : t[i] = s[i]
      /\ t[Len(s) + 1] = x
  BY <1>2, AppendProperties, LenProperties
<1>a. /\ m \in Seq(U) /\ Len(m) = Len(s)
      /\ \A i \in 1..Len(s) : m[i] = G[s[i]]
  BY <1>1, MappedSeq
<1>b. /\ n \in Seq(U) /\ Len(n) = Len(t)
      /\ \A i \in 1..Len(t) : n[i] = G[t[i]]
  BY <1>3, <1>4, MappedSeq
<1>5. /\ m \in Seq(U) /\ Len(m) = Len(s) /\ n \in Seq(U) /\ Len(n) = Len(t)
      /\ \A i \in 1..Len(s) : m[i] = G[s[i]]
      /\ \A i \in 1..Len(t) : n[i] = G[t[i]]
  BY <1>a, <1>b
<1>6. G[x] \in U
  BY DEF Gives
<1>7. /\ Append(m, G[x]) \in Seq(U) /\ Len(Append(m, G[x])) = Len(n)
      /\ \A i \in 1..Len(s) : Append(m, G[x])[i] = m[i]
      /\ Append(m, G[x])[Len(s) + 1] = G[x]
  BY <1>4, <1>5, <1>6, AppendProperties
<1>8. n = Append(m, G[x])
  <2>1. ASSUME NEW i \in 1..Len(n) PROVE n[i] = Append(m, G[x])[i]
    <3>1. n[i] = G[t[i]] /\ i \in 1..Len(s) + 1
      BY <1>4, <1>5
    <3>2. CASE i \in 1..Len(s)
      BY <3>1, <3>2, <1>4, <1>5, <1>7
    <3>3. CASE i = Len(s) + 1
      <4>1. t[i] = x /\ Append(m, G[x])[i] = G[x]
        BY <3>3, <1>4, <1>7
      <4> QED
        BY <4>1, <3>1
    <3>4. i \in 1..Len(s) \/ i = Len(s) + 1
      BY <3>1, <1>4
    <3> QED
      BY <3>2, <3>3, <3>4
  <2> QED
    BY <2>1, <1>5, <1>7, SeqEqual
<1> QED
  BY <1>1, <1>2, <1>3, <1>8

(* The requests of a sequence of things, each with its own. *)
RequestsOf(G, s) == SeqsExt!FlattenSeq(Mapped(G, s))

LEMMA RequestsOfTypes ==
  ASSUME NEW S, NEW T, NEW G, Gives(G, T, Seq(S)), NEW s \in Seq(T)
  PROVE  RequestsOf(G, s) \in Seq(S)
<1>1. Mapped(G, s) \in Seq(Seq(S))
  BY MappedSeq
<1> QED
  BY <1>1, FlattenSeqTypes DEF RequestsOf

LEMMA RequestsOfEmpty ==
  ASSUME NEW G
  PROVE  RequestsOf(G, <<>>) = <<>>
<1>1. SeqsExt!FlattenSeq(<<>>) = <<>>
  BY DEF SeqsExt!FlattenSeq
<1> QED
  BY <1>1, MappedEmpty DEF RequestsOf

LEMMA RequestsOfTail ==
  ASSUME NEW S, NEW T, NEW G, Gives(G, T, Seq(S)), NEW s \in Seq(T), s # <<>>
  PROVE  RequestsOf(G, s) = Cat(G[Head(s)], RequestsOf(G, Tail(s)))
<1>1. PICK m : m = Mapped(G, s)
  OBVIOUS
<1>2. m \in Seq(Seq(S)) /\ m # <<>>
  BY <1>1, MappedSeq, MappedTail
<1>3. SeqsExt!FlattenSeq(m) = Cat(Head(m), SeqsExt!FlattenSeq(Tail(m)))
  BY <1>2, FlattenSeqTail
<1>4. Head(m) = G[Head(s)] /\ Tail(m) = Mapped(G, Tail(s))
  BY <1>1, MappedTail
<1> QED
  BY <1>1, <1>3, <1>4 DEF RequestsOf

LEMMA RequestsOfAppend ==
  ASSUME NEW S, NEW T, NEW G, Gives(G, T, Seq(S)), NEW s \in Seq(T), NEW x \in T
  PROVE  RequestsOf(G, Append(s, x)) = Cat(RequestsOf(G, s), G[x])
<1>1. Mapped(G, s) \in Seq(Seq(S)) /\ G[x] \in Seq(S)
  BY MappedSeq DEF Gives
<1>2. Mapped(G, Append(s, x)) = Append(Mapped(G, s), G[x])
  BY MappedAppend
<1> QED
  BY <1>1, <1>2, FlattenSeqAppend DEF RequestsOf

LEMMA CatParts ==
  ASSUME NEW S, NEW s \in Seq(S), NEW t \in Seq(S)
  PROVE  /\ Len(Cat(s, t)) = Len(s) + Len(t)
         /\ \A i \in 1..Len(s) + Len(t) :
              Cat(s, t)[i] = IF i <= Len(s) THEN s[i] ELSE t[i - Len(s)]
<1>1. Len(Cat(s, t)) = Len(s) + Len(t)
  BY ConcatProperties DEF Cat
<1>2. \A i \in 1..Len(s) + Len(t) :
        (s \o t)[i] = IF i <= Len(s) THEN s[i] ELSE t[i - Len(s)]
  BY ConcatProperties, Zenon
<1>3. \A i \in 1..Len(s) + Len(t) :
        Cat(s, t)[i] = IF i <= Len(s) THEN s[i] ELSE t[i - Len(s)]
  BY <1>2, Zenon DEF Cat
<1> QED
  BY <1>1, <1>3

LEMMA HeadAndTail ==
  ASSUME NEW S, NEW s \in Seq(S), s # <<>>
  PROVE  s = Cat(<<Head(s)>>, Tail(s))
<1>1. /\ Head(s) \in S /\ Tail(s) \in Seq(S) /\ Len(Tail(s)) = Len(s) - 1
      /\ \A i \in 1..Len(Tail(s)) : Tail(s)[i] = s[i + 1]
      /\ Len(s) \in Nat /\ Len(s) > 0 /\ Head(s) = s[1]
  BY HeadTailProperties, EmptySeq
<1>2. PICK h : h = <<Head(s)>>
  OBVIOUS
<1>3. PICK t : t = Tail(s)
  OBVIOUS
<1>4. h \in Seq(S) /\ Len(h) = 1 /\ h[1] = s[1]
  BY <1>1, <1>2
<1>c. PICK c : c = Cat(h, t)
  OBVIOUS
<1>d. /\ c \in Seq(S) /\ Len(c) = Len(h) + Len(t)
      /\ \A i \in 1..Len(h) + Len(t) : c[i] = IF i <= Len(h) THEN h[i] ELSE t[i - Len(h)]
  BY <1>1, <1>3, <1>4, <1>c, CatTypes, CatParts
<1>5. /\ Len(c) = Len(s)
      /\ \A i \in 1..Len(s) : c[i] = IF i <= 1 THEN h[i] ELSE t[i - 1]
  <2>1. Len(h) + Len(t) = Len(s)
    BY <1>1, <1>3, <1>4
  <2> QED
    BY <2>1, <1>4, <1>d, Zenon
<1>6. ASSUME NEW i \in 1..Len(s) PROVE c[i] = s[i]
  <2>1. CASE i = 1
    BY <2>1, <1>4, <1>5
  <2>2. CASE i # 1
    <3>1. i - 1 \in 1..Len(t) /\ (i - 1) + 1 = i /\ ~(i <= 1)
      BY <2>2, <1>1, <1>3
    <3>2. t[i - 1] = s[i]
      BY <3>1, <1>1, <1>3
    <3> QED
      BY <3>1, <3>2, <1>5
  <2> QED
    BY <2>1, <2>2
<1>7. c = s
  BY <1>d, <1>5, <1>6, SeqEqual
<1> QED
  BY <1>2, <1>3, <1>c, <1>7

LEMMA ConsParts ==
  ASSUME NEW S, NEW q \in S, NEW t \in Seq(S)
  PROVE  /\ Cat(<<q>>, t) \in Seq(S) /\ Cat(<<q>>, t) # <<>>
         /\ Head(Cat(<<q>>, t)) = q
         /\ Tail(Cat(<<q>>, t)) = t
<1>1. PICK h : h = <<q>>
  OBVIOUS
<1>2. h \in Seq(S) /\ Len(h) = 1 /\ h[1] = q
  BY <1>1
<1>3. PICK c : c = Cat(h, t)
  OBVIOUS
<1>d. /\ c \in Seq(S) /\ Len(c) = Len(h) + Len(t)
      /\ \A i \in 1..Len(h) + Len(t) : c[i] = IF i <= Len(h) THEN h[i] ELSE t[i - Len(h)]
  BY <1>2, <1>3, CatTypes, CatParts
<1>4. /\ c \in Seq(S) /\ Len(c) = Len(t) + 1 /\ Len(t) \in Nat
      /\ \A i \in 1..Len(t) + 1 : c[i] = IF i <= 1 THEN h[i] ELSE t[i - 1]
  BY <1>2, <1>d, LenProperties
<1>5. c # <<>> /\ Head(c) = q
  BY <1>4, <1>2
<1>6. /\ Tail(c) \in Seq(S) /\ Len(Tail(c)) = Len(t)
      /\ \A i \in 1..Len(t) : Tail(c)[i] = c[i + 1]
  BY <1>4, <1>5, HeadTailProperties
<1>7. ASSUME NEW i \in 1..Len(t) PROVE Tail(c)[i] = t[i]
  <2>1. i + 1 \in 1..Len(t) + 1 /\ ~(i + 1 <= 1) /\ (i + 1) - 1 = i
    BY <1>4
  <2> QED
    BY <2>1, <1>4, <1>6
<1>8. Tail(c) = t
  BY <1>6, <1>7, SeqEqual
<1> QED
  BY <1>1, <1>3, <1>4, <1>5, <1>8

(* A request, as the frames of its message. *)
ARequest == Seq(Frames)

(* The requests of a scenario. *)
LEMMA StepsAndEndParts ==
  ASSUME NEW p \in Pickle, NEW texts \in Seq(Texts)
  PROVE  /\ StepsAndEnd(p, texts) \in Seq(ARequest)
         /\ texts = <<>> => StepsAndEnd(p, texts) = <<EndRequest(p)>>
         /\ texts # <<>> =>
              StepsAndEnd(p, texts) =
                Cat(<<StepRequest(p, Head(texts))>>, StepsAndEnd(p, Tail(texts)))
<1>1. PICK G : G = [text \in Texts |-> StepRequest(p, text)]
  OBVIOUS
<1>2. \A text \in Texts : G[text] = StepRequest(p, text)
  BY <1>1
<1>3. EndRequest(p) \in ARequest /\ \A text \in Texts : StepRequest(p, text) \in ARequest
  BY ScenarioRequestTypes, StepRequestType DEF ARequest
<1>4. Gives(G, Texts, ARequest)
  BY <1>2, <1>3 DEF Gives
<1>5. ASSUME NEW s \in Seq(Texts)
      PROVE  StepsAndEnd(p, s) = Append(Mapped(G, s), EndRequest(p))
  <2>1. \A i \in 1..Len(s) : StepRequest(p, s[i]) = G[s[i]]
    BY <1>2, ElementOfSeq
  <2>2. [i \in 1..Len(s) |-> StepRequest(p, s[i])] = Mapped(G, s)
    BY <2>1 DEF Mapped
  <2> QED
    BY <2>2 DEF StepsAndEnd
<1>6. ASSUME NEW s \in Seq(Texts) PROVE Mapped(G, s) \in Seq(ARequest)
  BY <1>4, MappedSeq
<1>7. StepsAndEnd(p, texts) \in Seq(ARequest)
  BY <1>3, <1>5, <1>6, AppendProperties
<1>8. ASSUME texts = <<>> PROVE StepsAndEnd(p, texts) = <<EndRequest(p)>>
  <2>1. Mapped(G, texts) = <<>>
    BY <1>8, MappedEmpty
  <2>2. StepsAndEnd(p, texts) = Append(<<>>, EndRequest(p))
    BY <2>1, <1>5
  <2>3. Append(<<>>, EndRequest(p)) = <<EndRequest(p)>>
    OBVIOUS
  <2> QED
    BY <2>2, <2>3
<1>9. ASSUME texts # <<>>
      PROVE  StepsAndEnd(p, texts) =
               Cat(<<StepRequest(p, Head(texts))>>, StepsAndEnd(p, Tail(texts)))
  <2>1. /\ Mapped(G, texts) # <<>>
        /\ Head(Mapped(G, texts)) = G[Head(texts)]
        /\ Tail(Mapped(G, texts)) = Mapped(G, Tail(texts))
    BY <1>4, <1>9, MappedTail
  <2>2. Head(texts) \in Texts /\ Tail(texts) \in Seq(Texts)
    BY <1>9, HeadTailProperties
  <2>3. PICK m : m = Mapped(G, texts)
    OBVIOUS
  <2>4. m \in Seq(ARequest) /\ m # <<>>
    BY <2>1, <2>3, <1>6
  <2>5. /\ Head(Append(m, EndRequest(p))) = Head(m)
        /\ Tail(Append(m, EndRequest(p))) = Append(Tail(m), EndRequest(p))
    BY <2>4, HeadTailAppend
  <2>6. Head(StepsAndEnd(p, texts)) = StepRequest(p, Head(texts))
    BY <2>1, <2>2, <2>3, <2>5, <1>2, <1>5
  <2>7. Tail(StepsAndEnd(p, texts)) = StepsAndEnd(p, Tail(texts))
    BY <2>1, <2>2, <2>3, <2>5, <1>5
  <2>8. StepsAndEnd(p, texts) # <<>>
    BY <2>3, <2>4, <1>3, <1>5, AppendProperties
  <2> QED
    BY <2>6, <2>7, <2>8, <1>7, HeadAndTail
<1> QED
  BY <1>7, <1>8, <1>9

LEMMA ScenarioParts ==
  ASSUME NEW p \in Pickle
  PROVE  /\ p.steps \in Seq(Texts)
         /\ StartRequest(p) \in ARequest /\ EndRequest(p) \in ARequest
         /\ \A text \in Texts : StepRequest(p, text) \in ARequest
         /\ ScenarioRequests(p) \in Seq(ARequest)
         /\ ScenarioRequests(p) = Cat(<<StartRequest(p)>>, StepsAndEnd(p, p.steps))
<1>1. p.steps \in Seq(Texts)
  BY DEF Pickle
<1>2. /\ StartRequest(p) \in ARequest /\ EndRequest(p) \in ARequest
      /\ \A text \in Texts : StepRequest(p, text) \in ARequest
  BY ScenarioRequestTypes, StepRequestType DEF ARequest
<1>3. ScenarioRequests(p) = Cat(<<StartRequest(p)>>, StepsAndEnd(p, p.steps))
  BY DEF ScenarioRequests, Cat
<1>4. StepsAndEnd(p, p.steps) \in Seq(ARequest)
  BY <1>1, StepsAndEndParts
<1>5. ScenarioRequests(p) \in Seq(ARequest)
  BY <1>2, <1>3, <1>4, ConsParts
<1> QED
  BY <1>1, <1>2, <1>3, <1>5

(* The requests of scenarios, of feature files and of directory entries: *)
(* those of the first, then those of the others.                         *)
LEMMA PicklesParts ==
  ASSUME NEW ps \in Seq(Pickle)
  PROVE  /\ PicklesRequests(ps) \in Seq(ARequest)
         /\ ps = <<>> => PicklesRequests(ps) = <<>>
         /\ ps # <<>> => PicklesRequests(ps) =
                           Cat(ScenarioRequests(Head(ps)), PicklesRequests(Tail(ps)))
<1>1. PICK G : G = [p \in Pickle |-> ScenarioRequests(p)]
  OBVIOUS
<1>2. \A p \in Pickle : G[p] = ScenarioRequests(p)
  BY <1>1
<1>3. Gives(G, Pickle, Seq(ARequest))
  BY <1>2, ScenarioParts DEF Gives
<1>4. ASSUME NEW s \in Seq(Pickle)
      PROVE  PicklesRequests(s) = RequestsOf(G, s)
  <2>1. \A i \in 1..Len(s) : ScenarioRequests(s[i]) = G[s[i]]
    BY <1>2, ElementOfSeq
  <2>2. [i \in 1..Len(s) |-> ScenarioRequests(s[i])] = Mapped(G, s)
    BY <2>1 DEF Mapped
  <2> QED
    BY <2>2 DEF PicklesRequests, RequestsOf
<1>5. PicklesRequests(ps) \in Seq(ARequest)
  BY <1>3, <1>4, RequestsOfTypes
<1>6. ps = <<>> => PicklesRequests(ps) = <<>>
  BY <1>4, RequestsOfEmpty
<1>7. ASSUME ps # <<>>
      PROVE  PicklesRequests(ps) = Cat(ScenarioRequests(Head(ps)), PicklesRequests(Tail(ps)))
  <2>1. Head(ps) \in Pickle /\ Tail(ps) \in Seq(Pickle)
    BY <1>7, HeadTailProperties
  <2>2. RequestsOf(G, ps) = Cat(G[Head(ps)], RequestsOf(G, Tail(ps)))
    BY <1>3, <1>7, RequestsOfTail
  <2> QED
    BY <2>1, <2>2, <1>2, <1>4
<1> QED
  BY <1>5, <1>6, <1>7

LEMMA DocumentTypes ==
  ASSUME NEW doc \in Document
  PROVE  /\ doc.pickles \in Seq(Pickle)
         /\ DocumentRequests(doc) \in Seq(ARequest)
<1>1. doc.pickles \in Seq(Pickle)
  BY DEF Document
<1>2. PicklesRequests(doc.pickles) \in Seq(ARequest) /\ <<>> \in Seq(ARequest)
  BY <1>1, PicklesParts, EmptySeq
<1> QED
  BY <1>1, <1>2 DEF DocumentRequests

LEMMA FilesParts ==
  ASSUME NEW files \in Seq(Document)
  PROVE  /\ FilesRequests(files) \in Seq(ARequest)
         /\ files = <<>> => FilesRequests(files) = <<>>
         /\ files # <<>> => FilesRequests(files) =
                              Cat(DocumentRequests(Head(files)), FilesRequests(Tail(files)))
         /\ \A doc \in Document :
              FilesRequests(Append(files, doc)) =
                Cat(FilesRequests(files), DocumentRequests(doc))
<1>1. PICK G : G = [doc \in Document |-> DocumentRequests(doc)]
  OBVIOUS
<1>2. \A doc \in Document : G[doc] = DocumentRequests(doc)
  BY <1>1
<1>3. Gives(G, Document, Seq(ARequest))
  BY <1>2, DocumentTypes DEF Gives
<1>4. ASSUME NEW s \in Seq(Document)
      PROVE  FilesRequests(s) = RequestsOf(G, s)
  <2>1. \A i \in 1..Len(s) : DocumentRequests(s[i]) = G[s[i]]
    BY <1>2, ElementOfSeq
  <2>2. [i \in 1..Len(s) |-> DocumentRequests(s[i])] = Mapped(G, s)
    BY <2>1 DEF Mapped
  <2> QED
    BY <2>2 DEF FilesRequests, RequestsOf
<1>5. FilesRequests(files) \in Seq(ARequest)
  BY <1>3, <1>4, RequestsOfTypes
<1>6. files = <<>> => FilesRequests(files) = <<>>
  BY <1>4, RequestsOfEmpty
<1>7. ASSUME files # <<>>
      PROVE  FilesRequests(files) = Cat(DocumentRequests(Head(files)), FilesRequests(Tail(files)))
  <2>1. Head(files) \in Document /\ Tail(files) \in Seq(Document)
    BY <1>7, HeadTailProperties
  <2>2. RequestsOf(G, files) = Cat(G[Head(files)], RequestsOf(G, Tail(files)))
    BY <1>3, <1>7, RequestsOfTail
  <2> QED
    BY <2>1, <2>2, <1>2, <1>4
<1>8. ASSUME NEW doc \in Document
      PROVE  FilesRequests(Append(files, doc)) =
               Cat(FilesRequests(files), DocumentRequests(doc))
  <2>1. Append(files, doc) \in Seq(Document)
    BY AppendProperties
  <2>2. RequestsOf(G, Append(files, doc)) = Cat(RequestsOf(G, files), G[doc])
    BY <1>3, RequestsOfAppend
  <2> QED
    BY <2>1, <2>2, <1>2, <1>4
<1> QED
  BY <1>5, <1>6, <1>7, <1>8

LEMMA EntriesParts ==
  ASSUME NEW entries \in Seq(Entry)
  PROVE  /\ EntriesRequests(entries) \in Seq(ARequest)
         /\ entries = <<>> => EntriesRequests(entries) = <<>>
         /\ entries # <<>> => EntriesRequests(entries) =
                                Cat(EntryRequests(Head(entries)), EntriesRequests(Tail(entries)))
         /\ \A entry \in Entry : EntryRequests(entry) \in Seq(ARequest)
<1>1. PICK G : G = [entry \in Entry |-> EntryRequests(entry)]
  OBVIOUS
<1>2. \A entry \in Entry : G[entry] = EntryRequests(entry)
  BY <1>1
<1>a. ASSUME NEW entry \in Entry PROVE EntryRequests(entry) \in Seq(ARequest)
  <2>1. entry.file \in Document
    BY DEF Entry
  <2>2. DocumentRequests(entry.file) \in Seq(ARequest) /\ <<>> \in Seq(ARequest)
    BY <2>1, DocumentTypes, EmptySeq
  <2> QED
    BY <2>2 DEF EntryRequests
<1>3. Gives(G, Entry, Seq(ARequest))
  BY <1>2, <1>a DEF Gives
<1>4. ASSUME NEW s \in Seq(Entry)
      PROVE  EntriesRequests(s) = RequestsOf(G, s)
  <2>1. \A i \in 1..Len(s) : EntryRequests(s[i]) = G[s[i]]
    BY <1>2, ElementOfSeq
  <2>2. [i \in 1..Len(s) |-> EntryRequests(s[i])] = Mapped(G, s)
    BY <2>1 DEF Mapped
  <2> QED
    BY <2>2 DEF EntriesRequests, RequestsOf
<1>5. EntriesRequests(entries) \in Seq(ARequest)
  BY <1>3, <1>4, RequestsOfTypes
<1>6. entries = <<>> => EntriesRequests(entries) = <<>>
  BY <1>4, RequestsOfEmpty
<1>7. ASSUME entries # <<>>
      PROVE  EntriesRequests(entries) =
               Cat(EntryRequests(Head(entries)), EntriesRequests(Tail(entries)))
  <2>1. Head(entries) \in Entry /\ Tail(entries) \in Seq(Entry)
    BY <1>7, HeadTailProperties
  <2>2. RequestsOf(G, entries) = Cat(G[Head(entries)], RequestsOf(G, Tail(entries)))
    BY <1>3, <1>7, RequestsOfTail
  <2> QED
    BY <2>1, <2>2, <1>2, <1>4
<1> QED
  BY <1>5, <1>6, <1>7, <1>a

-----------------------------------------------------------------------------
(***************************************************************************)
(* The agenda that is left: the requests of the scenario being run, of the *)
(* scenarios left of its document, of the documents and the entries left.  *)
(***************************************************************************)
AgendaOf(scenario, ps, files, entries) ==
  Cat(Cat(Cat(scenario, PicklesRequests(ps)), FilesRequests(files)),
      EntriesRequests(entries))

LEMMA AgendaOfTypes ==
  ASSUME NEW s \in Seq(ARequest), NEW ps \in Seq(Pickle), NEW files \in Seq(Document),
         NEW entries \in Seq(Entry)
  PROVE  AgendaOf(s, ps, files, entries) \in Seq(ARequest)
<1>1. PICK P, F, E : /\ P = PicklesRequests(ps) /\ F = FilesRequests(files)
                     /\ E = EntriesRequests(entries)
  OBVIOUS
<1>2. P \in Seq(ARequest) /\ F \in Seq(ARequest) /\ E \in Seq(ARequest)
  BY <1>1, PicklesParts, FilesParts, EntriesParts
<1>3. Cat(s, P) \in Seq(ARequest)
  BY <1>2, CatTypes
<1>4. Cat(Cat(s, P), F) \in Seq(ARequest)
  BY <1>2, <1>3, CatTypes
<1>5. Cat(Cat(Cat(s, P), F), E) \in Seq(ARequest)
  BY <1>2, <1>4, CatTypes
<1> QED
  BY <1>1, <1>5 DEF AgendaOf

(* A request of the scenario comes first. *)
LEMMA AgendaOfScenario ==
  ASSUME NEW q \in ARequest, NEW s \in Seq(ARequest), NEW ps \in Seq(Pickle),
         NEW files \in Seq(Document), NEW entries \in Seq(Entry)
  PROVE  /\ AgendaOf(Cat(<<q>>, s), ps, files, entries) # <<>>
         /\ Head(AgendaOf(Cat(<<q>>, s), ps, files, entries)) = q
         /\ Tail(AgendaOf(Cat(<<q>>, s), ps, files, entries)) =
              AgendaOf(s, ps, files, entries)
<1>1. PICK P, F, E, h : /\ P = PicklesRequests(ps) /\ F = FilesRequests(files)
                        /\ E = EntriesRequests(entries) /\ h = <<q>>
  OBVIOUS
<1>2. /\ P \in Seq(ARequest) /\ F \in Seq(ARequest) /\ E \in Seq(ARequest)
      /\ h \in Seq(ARequest)
  BY <1>1, PicklesParts, FilesParts, EntriesParts
<1>3. Cat(s, P) \in Seq(ARequest)
  BY <1>2, CatTypes
<1>4. Cat(Cat(s, P), F) \in Seq(ARequest)
  BY <1>2, <1>3, CatTypes
<1>5. Cat(Cat(h, s), P) = Cat(h, Cat(s, P))
  BY <1>2, CatAssociative
<1>6. Cat(Cat(h, Cat(s, P)), F) = Cat(h, Cat(Cat(s, P), F))
  BY <1>2, <1>3, CatAssociative
<1>7. Cat(Cat(h, Cat(Cat(s, P), F)), E) = Cat(h, Cat(Cat(Cat(s, P), F), E))
  BY <1>2, <1>4, CatAssociative
<1>8. AgendaOf(Cat(<<q>>, s), ps, files, entries) =
        Cat(<<q>>, AgendaOf(s, ps, files, entries))
  BY <1>1, <1>5, <1>6, <1>7 DEF AgendaOf
<1>9. PICK a : a = AgendaOf(s, ps, files, entries)
  OBVIOUS
<1>10. a \in Seq(ARequest)
  BY <1>9, AgendaOfTypes
<1>11. /\ Cat(<<q>>, a) # <<>> /\ Head(Cat(<<q>>, a)) = q
       /\ Tail(Cat(<<q>>, a)) = a
  BY <1>10, ConsParts
<1> QED
  BY <1>8, <1>9, <1>11

(* The scenario that is begun is the first of those left. *)
LEMMA AgendaOfPickles ==
  ASSUME NEW ps \in Seq(Pickle), ps # <<>>, NEW files \in Seq(Document),
         NEW entries \in Seq(Entry)
  PROVE  AgendaOf(<<>>, ps, files, entries) =
           AgendaOf(ScenarioRequests(Head(ps)), Tail(ps), files, entries)
<1>1. PICK P : P = PicklesRequests(ps)
  OBVIOUS
<1>2. P \in Seq(ARequest) /\ P = Cat(ScenarioRequests(Head(ps)), PicklesRequests(Tail(ps)))
  BY <1>1, PicklesParts
<1>3. Cat(<<>>, P) = P
  BY <1>2, CatEmpty
<1> QED
  BY <1>1, <1>2, <1>3 DEF AgendaOf

(* The document that is opened is the first of those left. *)
LEMMA AgendaOfFiles ==
  ASSUME NEW files \in Seq(Document), files # <<>>, NEW entries \in Seq(Entry)
  PROVE  AgendaOf(<<>>, <<>>, files, entries) =
           AgendaOf(<<>>, IF GherkinDocumentValid(Head(files)) THEN Head(files).pickles
                                                               ELSE <<>>,
                    Tail(files), entries)
<1>1. PICK doc, F, T, N, d : /\ doc = Head(files) /\ F = FilesRequests(files)
                             /\ T = FilesRequests(Tail(files))
                             /\ N = PicklesRequests(<<>>) /\ d = DocumentRequests(doc)
  OBVIOUS
<1>2. doc \in Document /\ Tail(files) \in Seq(Document)
  BY <1>1, HeadTailProperties
<1>3. F = Cat(d, T)
  BY <1>1, FilesParts
<1>4. d \in Seq(ARequest) /\ T \in Seq(ARequest) /\ doc.pickles \in Seq(Pickle)
  BY <1>1, <1>2, DocumentTypes, FilesParts
<1>5. N = <<>>
  BY <1>1, PicklesParts, EmptySeq
<1>6. PICK ps : ps = IF GherkinDocumentValid(doc) THEN doc.pickles ELSE <<>>
  OBVIOUS
<1>7. PicklesRequests(ps) = d
  BY <1>1, <1>5, <1>6 DEF DocumentRequests
<1>8. Cat(<<>>, d) = d /\ Cat(<<>>, N) = <<>> /\ Cat(<<>>, F) = F
  <2>1. F \in Seq(ARequest) /\ N \in Seq(ARequest)
    BY <1>1, <1>5, FilesParts, EmptySeq
  <2> QED
    BY <2>1, <1>4, <1>5, CatEmpty
<1> QED
  BY <1>1, <1>3, <1>6, <1>7, <1>8 DEF AgendaOf

(* The entry that is looked at is the first of those left. *)
LEMMA AgendaOfEntries ==
  ASSUME NEW files \in Seq(Document), NEW entries \in Seq(Entry), entries # <<>>
  PROVE  AgendaOf(<<>>, <<>>, files, entries) =
           AgendaOf(<<>>, <<>>, IF KeepsFeature(Head(entries))
                                THEN Append(files, Head(entries).file) ELSE files,
                    Tail(entries))
<1>1. PICK entry, F, E, T, N, g : /\ entry = Head(entries) /\ F = FilesRequests(files)
                                  /\ E = EntriesRequests(entries)
                                  /\ T = EntriesRequests(Tail(entries))
                                  /\ N = Cat(<<>>, PicklesRequests(<<>>))
                                  /\ g = EntryRequests(entry)
  OBVIOUS
<1>2. entry \in Entry /\ Tail(entries) \in Seq(Entry)
  BY <1>1, HeadTailProperties
<1>3. E = Cat(g, T)
  BY <1>1, EntriesParts
<1>4. F \in Seq(ARequest) /\ g \in Seq(ARequest) /\ T \in Seq(ARequest)
  BY <1>1, <1>2, FilesParts, EntriesParts
<1>5. N = <<>>
  <2>1. PicklesRequests(<<>>) = <<>> /\ <<>> \in Seq(ARequest)
    BY PicklesParts, EmptySeq
  <2> QED
    BY <2>1, <1>1, CatEmpty
<1>6. PICK fs : fs = IF KeepsFeature(entry) THEN Append(files, entry.file) ELSE files
  OBVIOUS
<1>7. FilesRequests(fs) = Cat(F, g)
  <2>1. CASE entry.feature
    <3>1. entry.file \in Document
      BY <1>2 DEF Entry
    <3>2. FilesRequests(Append(files, entry.file)) = Cat(F, DocumentRequests(entry.file))
      BY <3>1, <1>1, FilesParts
    <3> QED
      BY <2>1, <3>2, <1>1, <1>6 DEF KeepsFeature, EntryRequests
  <2>2. CASE ~entry.feature
    <3>1. g = <<>> /\ fs = files
      BY <2>2, <1>1, <1>6 DEF KeepsFeature, EntryRequests
    <3>2. Cat(F, g) = F
      BY <3>1, <1>4, CatEmpty
    <3> QED
      BY <3>1, <3>2, <1>1
  <2> QED
    BY <2>1, <2>2
<1>8. Cat(Cat(F, g), T) = Cat(F, Cat(g, T))
  BY <1>4, CatAssociative
<1>9. /\ AgendaOf(<<>>, <<>>, files, entries) = Cat(Cat(N, F), E)
      /\ AgendaOf(<<>>, <<>>, fs, Tail(entries)) = Cat(Cat(N, Cat(F, g)), T)
  BY <1>1, <1>7 DEF AgendaOf
<1>10. Cat(N, F) = F /\ Cat(N, Cat(F, g)) = Cat(F, g)
  <2>1. Cat(F, g) \in Seq(ARequest)
    BY <1>4, CatTypes
  <2> QED
    BY <2>1, <1>4, <1>5, CatEmpty
<1> QED
  BY <1>1, <1>3, <1>6, <1>8, <1>9, <1>10

(* An argument is the agenda of its entries, or of its file. *)
LEMMA AgendaOfArgument ==
  ASSUME NEW arg \in Argument, arg.directory \/ Len(arg.entries) = 1
  PROVE  AgendaOf(<<>>, <<>>, IF arg.directory THEN <<>> ELSE <<arg.entries[1].file>>,
                  IF arg.directory THEN arg.entries ELSE <<>>) = ArgumentRequests(arg)
<1>1. arg.entries \in Seq(Entry)
  BY DEF Argument
<1>2. /\ Cat(<<>>, PicklesRequests(<<>>)) = <<>>
      /\ FilesRequests(<<>>) = <<>> /\ EntriesRequests(<<>>) = <<>>
  <2>1. PicklesRequests(<<>>) = <<>> /\ <<>> \in Seq(ARequest)
    BY PicklesParts, EmptySeq
  <2> QED
    BY <2>1, CatEmpty, FilesParts, EntriesParts, EmptySeq
<1>3. CASE arg.directory
  <2>1. PICK E : E = EntriesRequests(arg.entries)
    OBVIOUS
  <2>2. E \in Seq(ARequest) /\ <<>> \in Seq(ARequest)
    BY <2>1, <1>1, EntriesParts, EmptySeq
  <2>3. Cat(<<>>, E) = E /\ Cat(<<>>, <<>>) = <<>>
    BY <2>2, CatEmpty
  <2> QED
    BY <2>1, <2>3, <1>2, <1>3 DEF AgendaOf, ArgumentRequests
<1>4. CASE ~arg.directory
  <2>1. PICK doc, d, fs : /\ doc = arg.entries[1].file /\ d = DocumentRequests(doc)
                          /\ fs = <<doc>>
    OBVIOUS
  <2>2. doc \in Document
    <3>1. 1 \in 1..Len(arg.entries)
      BY <1>4
    <3>2. arg.entries[1] \in Entry
      BY <3>1, <1>1, ElementOfSeq
    <3> QED
      BY <3>2, <2>1 DEF Entry
  <2>3. fs \in Seq(Document) /\ fs # <<>> /\ Head(fs) = doc /\ Tail(fs) = <<>>
    BY <2>1, <2>2
  <2>4. FilesRequests(fs) = Cat(d, <<>>)
    BY <2>1, <2>3, <1>2, FilesParts
  <2>5. d \in Seq(ARequest)
    BY <2>1, <2>2, DocumentTypes
  <2>6. Cat(d, <<>>) = d /\ Cat(<<>>, d) = d
    BY <2>5, CatEmpty
  <2> QED
    BY <2>1, <2>4, <2>6, <1>2, <1>4 DEF AgendaOf, ArgumentRequests
<1> QED
  BY <1>3, <1>4

(***************************************************************************)
(* The requests left of the scenario being run, from what the variables    *)
(* are: where the runner is, and which request the last one is.            *)
(***************************************************************************)
Open(state) == state \in {"start", "run", "end", "aborted"} \cup Waiting

(* ScenarioLeft, of the state of the feature runner, the scenario being run, *)
(* the request that was made last and the steps left.                        *)
LeftOf(state, p, round, texts) ==
  IF p = NULL THEN <<>>
  ELSE CASE Open(state) /\ round[1] = "START SCENARIO" -> ScenarioRequests(p)
         [] Open(state) /\ round[1] = "END SCENARIO" -> <<EndRequest(p)>>
         [] OTHER -> StepsAndEnd(p, texts)

(* AgendaLeft is such an agenda. *)
LEMMA AgendaLeftIs ==
  /\ AgendaLeft = AgendaOf(LeftOf(pc, pickle, Last, steps), pickles, feature_files,
                           listing)
  /\ AgendaLeft' = AgendaOf(LeftOf(pc', pickle', Last', steps'), pickles',
                            feature_files', listing')
BY DEF AgendaLeft, AgendaOf, ScenarioLeft, LeftOf, Cat, Round, Last, RoundOpen, Open

(* The first frames of the three kinds of requests are different. *)
LEMMA RequestKinds ==
  ASSUME NEW p, NEW text
  PROVE  /\ StartRequest(p)[1] = "START SCENARIO"
         /\ StepRequest(p, text)[1] = "RUN STEP"
         /\ EndRequest(p)[1] = "END SCENARIO"
         /\ StepRequest(p, text)[3] = text
BY DEF StartRequest, StepRequest, EndRequest

(* The kinds of requests differ. *)
LEMMA KindsDiffer ==
  /\ "START SCENARIO" # "RUN STEP" /\ "START SCENARIO" # "END SCENARIO"
  /\ "RUN STEP" # "END SCENARIO"
OBVIOUS

LEMMA NoScenarioLeft ==
  ASSUME NEW state, NEW round, NEW texts
  PROVE  LeftOf(state, NULL, round, texts) = <<>>
BY DEF LeftOf

LEMMA EndAlone ==
  ASSUME NEW p \in Pickle
  PROVE  Cat(<<EndRequest(p)>>, <<>>) = <<EndRequest(p)>>
<1>1. PICK q, e : q = EndRequest(p) /\ e = <<q>>
  OBVIOUS
<1>2. q \in ARequest
  BY <1>1, ScenarioParts
<1>3. e \in Seq(ARequest)
  BY <1>1, <1>2
<1>4. Cat(e, <<>>) = e
  BY <1>3, CatEmpty
<1> QED
  BY <1>1, <1>4

(* The request whose round is open is the first that is left. *)
LEMMA LeftInRound ==
  ASSUME NEW p \in Pickle, NEW texts, NEW state, Open(state)
  PROVE  /\ LeftOf(state, p, StartRequest(p), texts) =
              Cat(<<StartRequest(p)>>, StepsAndEnd(p, p.steps))
         /\ \A text : LeftOf(state, p, StepRequest(p, text), texts) =
                        StepsAndEnd(p, texts)
         /\ LeftOf(state, p, EndRequest(p), texts) = Cat(<<EndRequest(p)>>, <<>>)
<1>0. p # NULL
  BY RunnerAssumption
<1>1. LeftOf(state, p, StartRequest(p), texts) =
        Cat(<<StartRequest(p)>>, StepsAndEnd(p, p.steps))
  BY <1>0, RequestKinds, KindsDiffer, ScenarioParts, Zenon DEF LeftOf
<1>2. ASSUME NEW text
      PROVE  LeftOf(state, p, StepRequest(p, text), texts) = StepsAndEnd(p, texts)
  BY <1>0, RequestKinds, KindsDiffer, Zenon DEF LeftOf
<1>3. LeftOf(state, p, EndRequest(p), texts) = Cat(<<EndRequest(p)>>, <<>>)
  <2>1. LeftOf(state, p, EndRequest(p), texts) = <<EndRequest(p)>>
    BY <1>0, RequestKinds, KindsDiffer, Zenon DEF LeftOf
  <2> QED
    BY <2>1, EndAlone
<1> QED
  BY <1>1, <1>2, <1>3

(* Between rounds what is left is from the next step on. *)
LEMMA LeftBetween ==
  ASSUME NEW p \in Pickle, NEW texts, NEW state, ~Open(state), NEW round
  PROVE  LeftOf(state, p, round, texts) = StepsAndEnd(p, texts)
<1>0. p # NULL
  BY RunnerAssumption
<1> QED
  BY <1>0, Zenon DEF LeftOf

(* When the steps are done, the end of the scenario is left of it. *)
LEMMA LeftOfSteps ==
  ASSUME NEW p \in Pickle, NEW texts \in Seq(Texts)
  PROVE  /\ texts = <<>> => StepsAndEnd(p, texts) = Cat(<<EndRequest(p)>>, <<>>)
         /\ texts # <<>> =>
              StepsAndEnd(p, texts) =
                Cat(<<StepRequest(p, Head(texts))>>, StepsAndEnd(p, Tail(texts)))
BY EndAlone, StepsAndEndParts

-----------------------------------------------------------------------------
(***************************************************************************)
(* What the step simulation needs beyond the invariants above.             *)
(***************************************************************************)

(* Nothing is left of a document before the next one is opened, nor of a   *)
(* scenario before the next one is begun.                                  *)
Places ==
  /\ pc \in {"list", "collect", "file", "errors"} => pickles = <<>>
  /\ pc \in {"list", "collect", "file", "errors", "pickle"} => pickle = NULL

(* No step runner is ahead of the script, connected or not. *)
NotAhead == \A r \in Runners : Len(log[r]) <= Len(script)

(* The round that is open is that of a request of the scenario being run. *)
OfScenario ==
  /\ script # <<>> /\ pickle \in Pickle
  /\ \/ Last = StartRequest(pickle)
     \/ steps # <<>> /\ Last = StepRequest(pickle, Head(steps))
     \/ Last = EndRequest(pickle)

(* A run that has stopped at an assertion left at most the last request to *)
(* be answered.                                                            *)
Outstanding(r) ==
  /\ requests[r] = Last /\ Len(log[r]) = Len(script) - 1
  /\ r \in Elements(identities)

Stopped ==
  pc = "aborted" =>
    /\ OfScenario
    /\ \A r \in Runners : r \in peers /\ requests[r] # <<>> => Outstanding(r)

(* A scenario is run against the step definitions of its step runner. *)
Finds(c, text) == CucumberFindStepDef(c, text) # 0
Defined(r, text) == text \in UNION Elements(Defs[r])

Registries ==
  \A r \in Runners : cucumber[r] # NULL =>
    \A text : Finds(cucumber[r], text) <=> Defined(r, text)

RoundsInv == Places /\ NotAhead /\ Stopped /\ Registries

(* A step definition is found for a step that one of the registry matches. *)
LEMMA FindsMatch ==
  ASSUME NEW c, c.step_defs \in Seq(StepDef), NEW text
  PROVE  Finds(c, text) <=>
           \E i \in DOMAIN c.step_defs : text \in c.step_defs[i].matches
<1> DEFINE Matching == {i \in 1..Len(c.step_defs) : CucumberStepDefMatches(c, i, text)}
<1>1. Matching \subseteq Nat
  OBVIOUS
<1>2. DOMAIN c.step_defs = 1..Len(c.step_defs)
  BY LenProperties
<1>3. Matching = {} <=> ~\E i \in DOMAIN c.step_defs : text \in c.step_defs[i].matches
  BY <1>2, Zenon DEF CucumberStepDefMatches
<1>4. CASE Matching = {}
  <2>1. CucumberFindStepDef(c, text) = 0
    BY <1>4, Zenon DEF CucumberFindStepDef
  <2> QED
    BY <1>3, <1>4, <2>1 DEF Finds
<1>5. CASE Matching # {}
  <2>1. \E i \in Matching : \A j \in Matching : i <= j
    BY <1>1, <1>5, SmallestOf
  <2>2. CucumberFindStepDef(c, text) = CHOOSE i \in Matching : \A j \in Matching : i <= j
    BY <1>5, Zenon DEF CucumberFindStepDef
  <2>3. (CHOOSE i \in Matching : \A j \in Matching : i <= j) \in Matching
    BY <2>1, Zenon
  <2>4. CucumberFindStepDef(c, text) \in 1..Len(c.step_defs)
    BY <2>2, <2>3
  <2>5. Len(c.step_defs) \in Nat
    BY LenProperties
  <2> QED
    BY <1>3, <1>5, <2>4, <2>5 DEF Finds
<1> QED
  BY <1>4, <1>5

LEMMA FindsInNew ==
  ASSUME NEW r \in Runners, NEW state, NEW text
  PROVE  Finds(CucumberNew(state, Defs[r]), text) <=> Defined(r, text)
<1>1. PICK c : c = CucumberNew(state, Defs[r])
  OBVIOUS
<1>2. Defs[r] \in Seq(SUBSET Texts) /\ Len(Defs[r]) \in Nat
      /\ DOMAIN Defs[r] = 1..Len(Defs[r])
  BY StepsAssumption, LenProperties DEF StepsAssumption
<1>3. /\ c.step_defs = [i \in 1..Len(Defs[r]) |-> CucumberStepDefNew(Defs[r][i])]
      /\ DOMAIN c.step_defs = 1..Len(Defs[r])
  BY <1>1 DEF CucumberNew
<1>4. \A i \in 1..Len(Defs[r]) : /\ c.step_defs[i].matches = Defs[r][i]
                                 /\ c.step_defs[i] \in StepDef
  <2> SUFFICES ASSUME NEW i \in 1..Len(Defs[r])
               PROVE  c.step_defs[i].matches = Defs[r][i] /\ c.step_defs[i] \in StepDef
    OBVIOUS
  <2>1. c.step_defs[i] = [matches |-> Defs[r][i], failed |-> FALSE]
    BY <1>3 DEF CucumberStepDefNew
  <2>2. Defs[r][i] \in SUBSET Texts
    BY <1>2, ElementOfSeq
  <2> QED
    BY <2>1, <2>2 DEF StepDef
<1>5. c.step_defs \in Seq(StepDef)
  <2>1. c.step_defs \in [1..Len(Defs[r]) -> StepDef]
    BY <1>3, <1>4
  <2> QED
    BY <1>2, <2>1, FunctionIsSeq
<1>6. Finds(c, text) <=> \E i \in DOMAIN c.step_defs : text \in c.step_defs[i].matches
  BY <1>5, FindsMatch
<1>7. Defined(r, text) <=> \E i \in 1..Len(Defs[r]) : text \in Defs[r][i]
  BY <1>2 DEF Defined, Elements
<1> QED
  BY <1>1, <1>3, <1>4, <1>6, <1>7

LEMMA FindsInRun ==
  ASSUME NEW c \in CucumberType, NEW d \in DOMAIN c.step_defs, NEW fails \in BOOLEAN,
         NEW text
  PROVE  Finds(CucumberStepDefRun(c, d, fails), text) <=> Finds(c, text)
<1> DEFINE defs == c.step_defs
           after == [defs EXCEPT ![d].failed = fails \/ @]
<1>1. /\ defs \in Seq(StepDef) /\ c.state \in Nat
      /\ c = [state |-> c.state, step_defs |-> defs]
  BY DEF CucumberType
<1>2. PICK s : s = CucumberStepDefRun(c, d, fails)
  OBVIOUS
<1>3. s.step_defs = after
  BY <1>1, <1>2 DEF CucumberStepDefRun
<1>4. /\ DOMAIN after = DOMAIN defs
      /\ after[d] = [defs[d] EXCEPT !.failed = fails \/ @]
      /\ \A j \in DOMAIN defs : j # d => after[j] = defs[j]
  BY Zenon
<1>5. defs[d] \in StepDef
  BY <1>1, ElementOfSeq, LenProperties
<1>6. after[d].matches = defs[d].matches
  BY <1>4, <1>5 DEF StepDef
<1> HIDE DEF after
<1>7. \A j \in DOMAIN defs : after[j].matches = defs[j].matches
  BY <1>4, <1>6, Zenon
<1>8. s.step_defs \in Seq(StepDef)
  <2>1. s \in CucumberType
    BY <1>2, CucumberRunType
  <2> QED
    BY <2>1 DEF CucumberType
<1>9. Finds(s, text) <=> \E i \in DOMAIN s.step_defs : text \in s.step_defs[i].matches
  BY <1>8, FindsMatch
<1>10. Finds(c, text) <=> \E i \in DOMAIN defs : text \in defs[i].matches
  BY <1>1, FindsMatch
<1> QED
  BY <1>2, <1>3, <1>4, <1>7, <1>9, <1>10, Zenon

LEMMA PlacesKept ==
  ASSUME Places, RunnerThread
  PROVE  Places'
BY DEF Places, RunnerThread, ListFile, Listed, CollectIdentity, CallRun, NextFile,
       PrintError, EndDocument, Return, NextPickle, SendStart, SendStep, SendEnd,
       SendTo, RecvStarted, RecvEnded, RecvRan, RecvAnswer, FirstStep, BeginStep,
       EndStep, StepsDone, PickleDone, Waiting

LEMMA AbortKeeps ==
  ASSUME RunnerThread, pc' = "aborted"
  PROVE  /\ pc \in Waiting
         /\ UNCHANGED <<listing, feature_files, pickles, pickle, steps, script,
                        identities, cursor, requests, peers>>
BY DEF RunnerThread, ListFile, Listed, CollectIdentity, CallRun, NextFile,
       PrintError, EndDocument, Return, NextPickle, SendStart, SendStep, SendEnd,
       SendTo, RecvStarted, RecvEnded, RecvRan, RecvAnswer, FirstStep, BeginStep,
       EndStep, StepsDone, PickleDone, Waiting, Receive

LEMMA LogTypes ==
  ASSUME IInv
  PROVE  /\ log \in [Runners -> Seq(LogEntry)] /\ Len(script) \in Nat
         /\ script \in Seq(ScriptEntry)
         /\ \A r \in Runners : Len(log[r]) \in Nat
<1>1. log \in [Runners -> Seq(LogEntry)] /\ script \in Seq(ScriptEntry)
  BY DEF IInv, TypeOK, StepsTypeOK, RunnerTypeOK, LogEntry, ScriptEntry
<1> QED
  BY <1>1, LenProperties

LEMMA NotAheadByRunner ==
  ASSUME IInv, NotAhead, RunnerThread, UNCHANGED stepsVars
  PROVE  NotAhead'
<1>1. log' = log
  BY DEF stepsVars
<1>2. /\ script \in Seq(ScriptEntry) /\ Len(script) \in Nat
      /\ \A r \in Runners : Len(log[r]) \in Nat
  BY LogTypes
<1>3. script' = script \/ \E entry \in ScriptEntry : script' = Append(script, entry)
  BY RunnerSteps DEF Prepares, Asks, Sends, Aborts, Passes, Accepts
<1>4. Len(script') = Len(script) \/ Len(script') = Len(script) + 1
  BY <1>2, <1>3, AppendProperties
<1> QED
  BY <1>1, <1>2, <1>4 DEF NotAhead

(* When the run stops, who has been sent the request still has to answer.  *)
LEMMA StoppedByRunner ==
  ASSUME IInv, ScriptAt, Following, RunnerThread, UNCHANGED stepsVars
  PROVE  Stopped'
<1> SUFFICES ASSUME pc' = "aborted" PROVE Stopped'
  BY DEF Stopped
<1>0. /\ RunnerTypeOK /\ TransportTypeOK /\ Positions /\ Wire /\ Lists
  BY DEF IInv, TypeOK
<1>1. /\ pc \in Waiting
      /\ UNCHANGED <<listing, feature_files, pickles, pickle, steps, script,
                     identities, cursor, requests, peers, log>>
  BY AbortKeeps DEF stepsVars
<1>2. pc # "aborted" /\ InRound
  BY <1>1 DEF Waiting, InRound
<1>3. OfScenario
  <2>1. script # <<>> /\ pickle \in Pickle
    BY <1>0, <1>1, <1>2 DEF ScriptAt, Positions
  <2>2. CASE pc = "started"
    BY <2>1, <2>2 DEF ScriptAt, OfScenario
  <2>3. CASE pc = "ran"
    BY <1>0, <2>1, <2>3 DEF ScriptAt, OfScenario, Positions
  <2>4. CASE pc = "ended"
    BY <2>1, <2>4 DEF ScriptAt, OfScenario
  <2> QED
    BY <1>1, <2>2, <2>3, <2>4 DEF Waiting
<1>4. ASSUME NEW r \in Runners, r \in peers, requests[r] # <<>>
      PROVE  Outstanding(r)
  <2>1. r = Head(cursor)
    BY <1>0, <1>2, <1>4, RequestedAt
  <2>2. r \in Elements(cursor) /\ r \in Elements(identities)
    <3>1. cursor # <<>> /\ cursor \in Seq(Runners)
      BY <1>0, <1>1 DEF Positions, RunnerTypeOK
    <3>2. Head(cursor) \in Elements(cursor)
      BY <3>1, ElementsOfTail
    <3> QED
      BY <1>0, <2>1, <3>2 DEF Lists
  <2>3. requests[r] = Asked
    BY <1>0, <1>1, <1>4, <2>1, Zenon DEF Wire, Asking
  <2>4. Asked = Last
    <3>1. CASE pc = "started"
      BY <3>1 DEF Asked, ScriptAt
    <3>2. CASE pc = "ran"
      BY <3>2 DEF Asked, ScriptAt
    <3>3. CASE pc = "ended"
      BY <3>3 DEF Asked, ScriptAt
    <3> QED
      BY <1>1, <3>1, <3>2, <3>3 DEF Waiting
  <2>5. Behind(r)
    BY <1>1, <1>4, <2>2 DEF Behind
  <2>6. Followed(r)
    BY <1>2, <1>4, <2>2, Zenon DEF Following
  <2> QED
    BY <2>2, <2>3, <2>4, <2>5, <2>6, Zenon DEF Outstanding, Followed
<1> QED
  BY <1>1, <1>3, <1>4 DEF Stopped, OfScenario, Outstanding, Last, Elements

(* A handler of a run that has stopped answers the last request. *)
LEMMA HandlesOutstanding ==
  ASSUME IInv, Stopped, pc = "aborted", NEW r \in Runners, Handler(r)
  PROVE  Outstanding(r)
<1>1. Wire /\ Greetings /\ RunnerTypeOK /\ StepsTypeOK /\ TransportTypeOK /\ Positions
  BY DEF IInv, TypeOK
<1>2. actor[r] = "loop" /\ requests[r] # <<>>
  BY <1>1, RequestsAreWhole, HandlerAnswers
<1>3. r \in peers
  BY <1>1, <1>2 DEF Greetings
<1> QED
  BY <1>2, <1>3 DEF Stopped

(* In either case it answers the last request, which nobody answers twice. *)
LEMMA HandlerAnswersLast ==
  ASSUME IInv, ScriptAt, Following, Stopped, NEW r \in Runners, Handler(r)
  PROVE  /\ requests[r] = Last /\ r \in Elements(identities)
         /\ Len(log[r]) = Len(script) - 1
         /\ \E e \in LogEntry :
              /\ log' = [log EXCEPT ![r] = Append(@, e)]
              /\ Len(log'[r]) = Len(script) /\ log'[r][Len(script)] = e
              /\ \A q \in Runners : q # r => log'[q] = log[q]
              /\ Starts(r, e) \/ Ends(r, e) \/ Runs(r, e) \/ Misses(r, e)
<1>1. /\ requests[r] = Last /\ r \in Elements(identities)
      /\ Len(log[r]) = Len(script) - 1
  BY HandlesLast, HandlesOutstanding, Zenon DEF Outstanding
<1>2. log \in [Runners -> Seq(LogEntry)] /\ Len(script) \in Nat
  BY LogTypes
<1>3. PICK e \in LogEntry :
        /\ log' = [log EXCEPT ![r] = Append(@, e)]
        /\ Starts(r, e) \/ Ends(r, e) \/ Runs(r, e) \/ Misses(r, e)
  BY HandlerLogs, Zenon
<1>4. /\ log'[r] = Append(log[r], e)
      /\ \A q \in Runners : q # r => log'[q] = log[q]
  BY <1>2, <1>3, Zenon
<1>5. Len(log'[r]) = Len(log[r]) + 1 /\ log'[r][Len(log[r]) + 1] = e
  <2>1. log[r] \in Seq(LogEntry)
    BY <1>2
  <2> QED
    BY <1>4, <2>1, Appended
<1>6. Len(log'[r]) = Len(script) /\ log'[r][Len(script)] = e
  BY <1>1, <1>2, <1>5
<1> QED
  BY <1>1, <1>3, <1>4, <1>6, Zenon

LEMMA NotAheadBySteps ==
  ASSUME IInv, ScriptAt, Following, Stopped, NotAhead, NEW r \in Runners,
         StepRunner(r), UNCHANGED runnerVars
  PROVE  NotAhead'
<1>1. script' = script
  BY DEF runnerVars
<1>2. CASE ~Handler(r)
  <2>1. log' = log
    BY <1>2, QuietSteps
  <2> QED
    BY <1>1, <2>1 DEF NotAhead
<1>3. CASE Handler(r)
  <2>1. Len(log'[r]) = Len(script) /\ \A q \in Runners : q # r => log'[q] = log[q]
    BY <1>3, HandlerAnswersLast, Zenon
  <2>2. Len(script) \in Nat
    BY LogTypes
  <2> QED
    BY <1>1, <2>1, <2>2 DEF NotAhead
<1> QED
  BY <1>2, <1>3

LEMMA StoppedBySteps ==
  ASSUME IInv, Stopped, NEW r \in Runners, StepRunner(r), UNCHANGED runnerVars
  PROVE  Stopped'
<1> SUFFICES ASSUME pc = "aborted" PROVE Stopped'
  BY DEF runnerVars, Stopped
<1>0. /\ RunnerTypeOK /\ StepsTypeOK /\ TransportTypeOK /\ Positions /\ Wire /\ Greetings
  BY DEF IInv, TypeOK
<1>1. OfScenario' /\ Last' = Last
  BY DEF Stopped, OfScenario, Last, runnerVars
<1>2. \A q \in Runners : q \in peers /\ requests[q] # <<>> => Outstanding(q)
  BY DEF Stopped
<1>3. ASSUME NEW q \in Runners, q \in peers', requests'[q] # <<>>
      PROVE  /\ q \in peers /\ requests'[q] = requests[q] /\ log'[q] = log[q]
  <2>1. CASE Handler(r)
    <3>1. /\ requests'[r] = <<>> /\ peers' = peers
          /\ \A p \in Runners : p # r => requests'[p] = requests[p]
      BY <1>0, <2>1, RequestsAreWhole, HandlerAnswers
    <3>2. q # r
      BY <1>3, <3>1
    <3>3. log'[q] = log[q]
      <4>1. PICK e : log' = [log EXCEPT ![r] = Append(@, e)]
        BY <2>1, HandlerLogs, Zenon
      <4> QED
        BY <3>2, <4>1 DEF IInv, TypeOK, StepsTypeOK
    <3> QED
      BY <1>3, <3>1, <3>2, <3>3
  <2>2. CASE ~Handler(r)
    <3>1. log' = log
      BY <1>0, <2>2, OtherSteps
    <3>2. ~IgnoreFrame(r)
      BY <1>0, RequestsAreWhole, FramesOfRequest DEF IgnoreFrame
    <3>3. CASE UNCHANGED transportVars
      BY <1>3, <3>1, <3>3 DEF transportVars
    <3>4. CASE Disconnect(r)
      BY <1>0, <1>3, <3>1, <3>4 DEF Disconnect, TransportTypeOK
    <3>5. CASE CucumberStepsNew(r)
      <4>1. actor[r] = "init" /\ peers' = peers \cup {r} /\ requests' = requests
        BY <3>5 DEF CucumberStepsNew, ConnectAndGreet
      <4>2. requests[r] = <<>>
        BY <1>0, <4>1 DEF Greetings
      <4> QED
        BY <1>3, <3>1, <4>1, <4>2
    <3> QED
      BY <2>2, <3>2, <3>3, <3>4, <3>5, OtherTransport
  <2> QED
    BY <2>1, <2>2
<1>4. ASSUME NEW q \in Runners, q \in peers', requests'[q] # <<>>
      PROVE  Outstanding(q)'
  <2>1. q \in peers /\ requests'[q] = requests[q] /\ log'[q] = log[q]
    BY <1>3, <1>4
  <2>2. Outstanding(q)
    BY <1>2, <1>4, <2>1
  <2> QED
    BY <1>1, <2>1, <2>2 DEF Outstanding, runnerVars, Elements
<1> QED
  BY <1>1, <1>4 DEF Stopped

LEMMA RegistriesBySteps ==
  ASSUME IInv, Registries, NEW r \in Runners, StepRunner(r)
  PROVE  Registries'
<1>1. StepsTypeOK
  BY DEF IInv, TypeOK
<1>2. cucumber \in [Runners -> CucumberType \cup {NULL}]
  BY <1>1 DEF StepsTypeOK
<1>3. CASE ~Handler(r)
  <2>1. \A q \in Runners : cucumber'[q] \in {cucumber[q], NULL}
    BY <1>1, <1>3, OtherSteps
  <2> QED
    BY <2>1 DEF Registries
<1>4. CASE Handler(r)
  <2>1. PICK e \in LogEntry : Starts(r, e) \/ Ends(r, e) \/ Runs(r, e) \/ Misses(r, e)
    BY <1>4, HandlerLogs, Zenon
  <2> SUFFICES ASSUME NEW q \in Runners, cucumber'[q] # NULL, NEW text
               PROVE  Finds(cucumber'[q], text) <=> Defined(q, text)
    BY Zenon DEF Registries
  <2>2. \A q1 \in Runners : cucumber[q1] # NULL =>
          (Finds(cucumber[q1], text) <=> Defined(q1, text))
    BY Zenon DEF Registries
  <2>3. CASE cucumber'[q] = cucumber[q]
    BY <2>2, <2>3
  <2>4. CASE cucumber'[q] # cucumber[q] /\ Starts(r, e)
    <3>1. q = r /\ cucumber'[r] = CucumberNew(e.state, Defs[r])
      BY <1>2, <2>4 DEF Starts
    <3> QED
      BY <3>1, FindsInNew
  <2>5. CASE cucumber'[q] # cucumber[q] /\ Ends(r, e)
    BY <1>2, <2>5 DEF Ends
  <2>6. CASE cucumber'[q] # cucumber[q] /\ Runs(r, e)
    <3>1. PICK d \in DOMAIN cucumber[r].step_defs :
            cucumber' = [cucumber EXCEPT ![r] = CucumberStepDefRun(cucumber[r], d, e.fails)]
      BY <2>6, Zenon DEF Runs
    <3>2. q = r /\ cucumber'[r] = CucumberStepDefRun(cucumber[r], d, e.fails)
      BY <1>2, <2>6, <3>1
    <3>3. cucumber[r] # NULL /\ cucumber[r] \in CucumberType
      BY <1>2, <2>6 DEF Runs
    <3>4. e.fails \in BOOLEAN
      BY DEF LogEntry
    <3>5. Finds(cucumber'[r], text) <=> Finds(cucumber[r], text)
      BY <3>2, <3>3, <3>4, FindsInRun
    <3> QED
      BY <2>2, <3>2, <3>3, <3>5
  <2>7. CASE cucumber'[q] # cucumber[q] /\ Misses(r, e)
    BY <2>7 DEF Misses
  <2> QED
    BY <2>1, <2>3, <2>4, <2>5, <2>6, <2>7
<1> QED
  BY <1>3, <1>4

LEMMA RoundsInit ==
  Init => RoundsInv
BY DEF Init, FeatureRunnerInit, StepsInit, RoundsInv, Places, NotAhead, Stopped, Registries

LEMMA RoundsNext ==
  ASSUME IInv, ScriptAt, Following, RoundsInv, [Next]_vars
  PROVE  RoundsInv'
<1>1. CASE UNCHANGED vars
  <2>1. UNCHANGED <<pc, pickles, pickle, steps, identities, script, log, cucumber,
                    requests, peers>>
    BY <1>1 DEF vars, runnerVars, stepsVars, transportVars
  <2> QED
    BY <2>1 DEF RoundsInv, Places, NotAhead, Stopped, OfScenario, Last, Outstanding,
                Elements, Registries
<1>2. CASE RunnerThread /\ UNCHANGED stepsVars
  <2>1. Places' /\ NotAhead' /\ Stopped'
    BY <1>2, PlacesKept, NotAheadByRunner, StoppedByRunner DEF RoundsInv
  <2>2. Registries'
    BY <1>2 DEF RoundsInv, Registries, stepsVars
  <2> QED
    BY <2>1, <2>2 DEF RoundsInv
<1>3. ASSUME NEW r \in Runners, StepRunner(r), UNCHANGED runnerVars
      PROVE  RoundsInv'
  <2>1. Places'
    BY <1>3 DEF RoundsInv, Places, runnerVars
  <2>2. NotAhead' /\ Stopped' /\ Registries'
    BY <1>3, NotAheadBySteps, StoppedBySteps, RegistriesBySteps DEF RoundsInv
  <2> QED
    BY <2>1, <2>2 DEF RoundsInv
<1> QED
  BY <1>1, <1>2, <1>3 DEF Next, Finished

LEMMA RoundsInvariant ==
  Spec => []RoundsInv
<1>1. IInv /\ ScriptAt /\ Following /\ RoundsInv /\ [Next]_vars => RoundsInv'
  BY RoundsNext
<1> QED
  BY <1>1, RoundsInit, ScriptInvariant, Invariance, PTL DEF Spec

-----------------------------------------------------------------------------
(***************************************************************************)
(* The refinement: what the steps of the feature runner do to the agenda.  *)
(***************************************************************************)
LEMMA LeftSame ==
  ASSUME NEW state, NEW other, Open(state) <=> Open(other), NEW p, NEW round, NEW texts
  PROVE  LeftOf(state, p, round, texts) = LeftOf(other, p, round, texts)
<1>1. CASE Open(state)
  BY <1>1, Zenon DEF LeftOf
<1>2. CASE ~Open(state)
  BY <1>2, Zenon DEF LeftOf
<1> QED
  BY <1>1, <1>2

LEMMA OpenStates ==
  /\ \A state \in {"start", "run", "end", "aborted"} \cup Waiting : Open(state)
  /\ \A state \in {"list", "collect", "file", "errors", "pickle", "step", "done"} :
       ~Open(state)
BY DEF Open, Waiting

LEMMA LeftTypes ==
  ASSUME IInv
  PROVE  /\ pickles \in Seq(Pickle) /\ feature_files \in Seq(Document)
         /\ listing \in Seq(Entry) /\ steps \in Seq(Texts)
         /\ identities \in Seq(Runners) /\ report \in Seq(Report)
         /\ tally \in Tallies /\ script \in Seq(ScriptEntry)
BY DEF IInv, TypeOK, RunnerTypeOK, Tallies, ScriptEntry

(* A request that is added is the last one. *)
LEMMA LastScripted ==
  ASSUME IInv, NEW p \in Pickle, NEW q \in ARequest, Scripted(p, q)
  PROVE  Last' = q /\ Len(script') = Len(script) + 1
<1>1. script \in Seq(ScriptEntry) /\ Len(script) \in Nat
  BY LogTypes
<1>2. PICK e : e = [pickle |-> p.id, frames |-> q]
  OBVIOUS
<1>3. e \in ScriptEntry /\ e.frames = q
  BY <1>2, AsksEntry DEF ARequest
<1>4. script' = Append(script, e)
  BY <1>2 DEF Scripted
<1>5. Len(script') = Len(script) + 1 /\ script'[Len(script) + 1] = e
  BY <1>1, <1>3, <1>4, Appended
<1> QED
  BY <1>3, <1>5 DEF Last

LEMMA AgendaByListFile ==
  ASSUME IInv, Places, ListFile
  PROVE  AgendaLeft' = AgendaLeft
<1>1. /\ pc = "list" /\ pc' = pc /\ pickle' = pickle /\ pickles' = pickles
      /\ listing # <<>> /\ listing' = Tail(listing)
      /\ feature_files' = IF KeepsFeature(Head(listing))
                          THEN Append(feature_files, Head(listing).file)
                          ELSE feature_files
  BY DEF ListFile
<1>2. pickle = NULL /\ pickles = <<>>
  BY <1>1 DEF Places
<1>3. /\ LeftOf(pc, pickle, Last, steps) = <<>>
      /\ LeftOf(pc', pickle', Last', steps') = <<>>
  BY <1>1, <1>2, NoScenarioLeft
<1>4. feature_files \in Seq(Document) /\ listing \in Seq(Entry)
  BY LeftTypes
<1>5. AgendaOf(<<>>, <<>>, feature_files, listing) =
        AgendaOf(<<>>, <<>>, feature_files', listing')
  BY <1>1, <1>4, AgendaOfEntries
<1> QED
  BY <1>1, <1>2, <1>3, <1>5, AgendaLeftIs, Zenon

LEMMA AgendaByNextFile ==
  ASSUME IInv, Places, NextFile
  PROVE  AgendaLeft' = AgendaLeft
<1>1. /\ pc = "file" /\ pickle' = pickle /\ listing' = listing
      /\ feature_files # <<>> /\ feature_files' = Tail(feature_files)
      /\ pickles' = IF GherkinDocumentValid(Head(feature_files))
                    THEN Head(feature_files).pickles ELSE pickles
  BY DEF NextFile
<1>2. pickle = NULL /\ pickles = <<>>
  BY <1>1 DEF Places
<1>3. /\ LeftOf(pc, pickle, Last, steps) = <<>>
      /\ LeftOf(pc', pickle', Last', steps') = <<>>
  BY <1>1, <1>2, NoScenarioLeft
<1>4. feature_files \in Seq(Document) /\ listing \in Seq(Entry)
  BY LeftTypes
<1>5. AgendaOf(<<>>, <<>>, feature_files, listing) =
        AgendaOf(<<>>, pickles', feature_files', listing')
  BY <1>1, <1>2, <1>4, AgendaOfFiles
<1> QED
  BY <1>2, <1>3, <1>5, AgendaLeftIs, Zenon

LEMMA AgendaByNextPickle ==
  ASSUME IInv, Places, NextPickle
  PROVE  AgendaLeft' = AgendaLeft /\ Len(script') = Len(script) + 1
<1>1. /\ pc = "pickle" /\ pc' = "start" /\ pickles # <<>> /\ pickles' = Tail(pickles)
      /\ pickle' = Head(pickles) /\ steps' = steps
      /\ Scripted(Head(pickles), StartRequest(Head(pickles)))
      /\ feature_files' = feature_files /\ listing' = listing
  BY DEF NextPickle
<1>2. pickle = NULL
  BY <1>1 DEF Places
<1>3. /\ pickles \in Seq(Pickle) /\ feature_files \in Seq(Document)
      /\ listing \in Seq(Entry)
  BY LeftTypes
<1>4. Head(pickles) \in Pickle
  BY <1>1, <1>3, HeadTailProperties
<1>5. Last' = StartRequest(pickle') /\ Len(script') = Len(script) + 1
  BY <1>1, <1>4, LastScripted, ScenarioParts
<1>6. LeftOf(pc, pickle, Last, steps) = <<>>
  BY <1>2, NoScenarioLeft
<1>7. LeftOf(pc', pickle', Last', steps') = ScenarioRequests(Head(pickles))
  <2>1. Open(pc')
    BY <1>1, OpenStates
  <2>2. LeftOf(pc', pickle', StartRequest(pickle'), steps') =
          Cat(<<StartRequest(pickle')>>, StepsAndEnd(pickle', pickle'.steps))
    BY <2>1, <1>1, <1>4, LeftInRound
  <2> QED
    BY <2>2, <1>1, <1>4, <1>5, ScenarioParts
<1>8. AgendaOf(<<>>, pickles, feature_files, listing) =
        AgendaOf(ScenarioRequests(Head(pickles)), pickles', feature_files', listing')
  BY <1>1, <1>3, AgendaOfPickles
<1> QED
  BY <1>5, <1>6, <1>7, <1>8, AgendaLeftIs, Zenon

(* The round of a step, and that of the end, open on what is left. *)
LEMMA AgendaByBeginStep ==
  ASSUME IInv, BeginStep
  PROVE  AgendaLeft' = AgendaLeft /\ Len(script') = Len(script) + 1
<1>1. /\ pc = "step" /\ pc' = "run" /\ steps # <<>> /\ steps' = steps
      /\ pickle' = pickle /\ pickles' = pickles
      /\ Scripted(pickle, StepRequest(pickle, Head(steps)))
      /\ feature_files' = feature_files /\ listing' = listing
  BY DEF BeginStep
<1>2. pickle \in Pickle
  BY <1>1 DEF IInv, Positions
<1>3. StepRequest(pickle, Head(steps)) \in ARequest
  <2>1. steps \in Seq(Texts)
    BY LeftTypes
  <2>2. Head(steps) \in Texts
    BY <1>1, <2>1, HeadTailProperties
  <2> QED
    BY <1>2, <2>2, ScenarioParts
<1>4. Last' = StepRequest(pickle, Head(steps)) /\ Len(script') = Len(script) + 1
  BY <1>1, <1>2, <1>3, LastScripted
<1>5. LeftOf(pc, pickle, Last, steps) = StepsAndEnd(pickle, steps)
  BY <1>1, <1>2, OpenStates, LeftBetween
<1>6. LeftOf(pc', pickle', Last', steps') = StepsAndEnd(pickle, steps)
  BY <1>1, <1>2, <1>4, OpenStates, LeftInRound
<1> QED
  BY <1>1, <1>4, <1>5, <1>6, AgendaLeftIs, Zenon

LEMMA AgendaByStepsDone ==
  ASSUME IInv, StepsDone
  PROVE  AgendaLeft' = AgendaLeft /\ Len(script') = Len(script) + 1
<1>1. /\ pc = "step" /\ pc' = "end" /\ steps = <<>> /\ steps' = steps
      /\ pickle' = pickle /\ pickles' = pickles
      /\ Scripted(pickle, EndRequest(pickle))
      /\ feature_files' = feature_files /\ listing' = listing
  BY DEF StepsDone
<1>2. pickle \in Pickle
  BY <1>1 DEF IInv, Positions
<1>3. Last' = EndRequest(pickle) /\ Len(script') = Len(script) + 1
  BY <1>1, <1>2, LastScripted, ScenarioParts
<1>4. LeftOf(pc, pickle, Last, steps) = Cat(<<EndRequest(pickle)>>, <<>>)
  <2>1. LeftOf(pc, pickle, Last, steps) = StepsAndEnd(pickle, steps)
    BY <1>1, <1>2, OpenStates, LeftBetween
  <2>2. steps \in Seq(Texts)
    BY LeftTypes
  <2> QED
    BY <1>1, <1>2, <2>1, <2>2, LeftOfSteps
<1>5. LeftOf(pc', pickle', Last', steps') = Cat(<<EndRequest(pickle)>>, <<>>)
  BY <1>1, <1>2, <1>3, OpenStates, LeftInRound
<1> QED
  BY <1>1, <1>3, <1>4, <1>5, AgendaLeftIs, Zenon

(* When a round closes, its request is the first of those left, and those  *)
(* left are the others.                                                    *)
ClosesOn(q) ==
  AgendaLeft # <<>> /\ Head(AgendaLeft) = q /\ AgendaLeft' = Tail(AgendaLeft)

(* A round that closes takes the first request off the agenda. *)
LEMMA AgendaCloses ==
  ASSUME IInv, NEW q \in ARequest, NEW s \in Seq(ARequest),
         LeftOf(pc, pickle, Last, steps) = Cat(<<q>>, s),
         LeftOf(pc', pickle', Last', steps') = s,
         UNCHANGED <<pickles, feature_files, listing>>
  PROVE  ClosesOn(q)
<1>1. /\ pickles \in Seq(Pickle) /\ feature_files \in Seq(Document)
      /\ listing \in Seq(Entry)
  BY LeftTypes
<1>2. PICK a : a = AgendaOf(Cat(<<q>>, s), pickles, feature_files, listing)
  OBVIOUS
<1>3. /\ a # <<>> /\ Head(a) = q
      /\ Tail(a) = AgendaOf(s, pickles, feature_files, listing)
  BY <1>1, <1>2, AgendaOfScenario
<1>4. AgendaLeft = a /\ AgendaLeft' = AgendaOf(s, pickles, feature_files, listing)
  BY <1>2, AgendaLeftIs
<1> QED
  BY <1>3, <1>4 DEF ClosesOn

LEMMA FirstStepCloses ==
  ASSUME IInv, ScriptAt, FirstStep
  PROVE  ClosesOn(StartRequest(pickle))
<1>1. /\ pc = "start" /\ pc' = "step" /\ pickle' = pickle /\ steps' = pickle.steps
      /\ UNCHANGED <<pickles, feature_files, listing>>
  BY DEF FirstStep
<1>2. pickle \in Pickle
  BY <1>1 DEF IInv, Positions
<1>3. Last = StartRequest(pickle)
  BY <1>1 DEF ScriptAt
<1>4. /\ pickle.steps \in Seq(Texts)
      /\ StartRequest(pickle) \in ARequest
      /\ StepsAndEnd(pickle, pickle.steps) \in Seq(ARequest)
  BY <1>2, ScenarioParts, StepsAndEndParts
<1>5. LeftOf(pc, pickle, Last, steps) =
        Cat(<<StartRequest(pickle)>>, StepsAndEnd(pickle, pickle.steps))
  BY <1>1, <1>2, <1>3, OpenStates, LeftInRound
<1>6. LeftOf(pc', pickle', Last', steps') = StepsAndEnd(pickle, pickle.steps)
  BY <1>1, <1>2, OpenStates, LeftBetween
<1> QED
  BY <1>1, <1>4, <1>5, <1>6, AgendaCloses

LEMMA EndStepCloses ==
  ASSUME IInv, ScriptAt, EndStep
  PROVE  ClosesOn(StepRequest(pickle, Head(steps)))
<1>1. /\ pc = "run" /\ pc' = "step" /\ pickle' = pickle /\ steps' = Tail(steps)
      /\ UNCHANGED <<pickles, feature_files, listing>>
  BY DEF EndStep
<1>2. pickle \in Pickle /\ steps # <<>>
  BY <1>1 DEF IInv, Positions
<1>3. Last = StepRequest(pickle, Head(steps))
  BY <1>1 DEF ScriptAt
<1>4. steps \in Seq(Texts)
  BY LeftTypes
<1>5. Head(steps) \in Texts /\ Tail(steps) \in Seq(Texts)
  BY <1>2, <1>4, HeadTailProperties
<1>6. /\ StepRequest(pickle, Head(steps)) \in ARequest
      /\ StepsAndEnd(pickle, Tail(steps)) \in Seq(ARequest)
  BY <1>2, <1>5, ScenarioParts, StepsAndEndParts
<1>7. LeftOf(pc, pickle, Last, steps) =
        Cat(<<StepRequest(pickle, Head(steps))>>, StepsAndEnd(pickle, Tail(steps)))
  <2>1. LeftOf(pc, pickle, Last, steps) = StepsAndEnd(pickle, steps)
    BY <1>1, <1>2, <1>3, OpenStates, LeftInRound
  <2> QED
    BY <1>2, <1>4, <2>1, LeftOfSteps
<1>8. LeftOf(pc', pickle', Last', steps') = StepsAndEnd(pickle, Tail(steps))
  BY <1>1, <1>2, OpenStates, LeftBetween
<1> QED
  BY <1>1, <1>6, <1>7, <1>8, AgendaCloses

LEMMA PickleDoneCloses ==
  ASSUME IInv, ScriptAt, PickleDone
  PROVE  ClosesOn(EndRequest(pickle))
<1>1. /\ pc = "end" /\ pickle' = NULL
      /\ UNCHANGED <<pickles, feature_files, listing>>
  BY DEF PickleDone
<1>2. pickle \in Pickle
  BY <1>1 DEF IInv, Positions
<1>3. Last = EndRequest(pickle)
  BY <1>1 DEF ScriptAt
<1>4. EndRequest(pickle) \in ARequest /\ <<>> \in Seq(ARequest)
  BY <1>2, ScenarioParts, EmptySeq
<1>5. LeftOf(pc, pickle, Last, steps) = Cat(<<EndRequest(pickle)>>, <<>>)
  BY <1>1, <1>2, <1>3, OpenStates, LeftInRound
<1>6. LeftOf(pc', pickle', Last', steps') = <<>>
  BY <1>1, NoScenarioLeft
<1> QED
  BY <1>1, <1>4, <1>5, <1>6, AgendaCloses

-----------------------------------------------------------------------------
(***************************************************************************)
(* The refinement: the answers of the round that is open.                  *)
(***************************************************************************)

(* The answers to the n-th request, while its round is open.               *)
GivenOf(state, logs, n) ==
  [r \in Runners |-> IF Open(state) /\ Len(logs[r]) = n THEN logs[r][n].reply ELSE NULL]

NoneGiven == [r \in Runners |-> NULL]

Given == [r \in Runners |-> AnswerGiven(r)]

LEMMA GivenIs ==
  /\ Given = GivenOf(pc, log, Len(script))
  /\ Given' = GivenOf(pc', log', Len(script'))
BY DEF Given, GivenOf, AnswerGiven, RoundOpen, Open

LEMMA GivenSame ==
  ASSUME NEW state, NEW other, Open(state) <=> Open(other), NEW logs, NEW n
  PROVE  GivenOf(state, logs, n) = GivenOf(other, logs, n)
BY DEF GivenOf

LEMMA GivenBetween ==
  ASSUME NEW state, ~Open(state), NEW logs, NEW n
  PROVE  GivenOf(state, logs, n) = NoneGiven
BY DEF GivenOf, NoneGiven

LEMMA GivenAhead ==
  ASSUME NEW state, NEW logs, NEW n, \A r \in Runners : Len(logs[r]) # n
  PROVE  GivenOf(state, logs, n) = NoneGiven
BY DEF GivenOf, NoneGiven

(* A round opens with no answer, and none is left of it when it closes. *)
LEMMA GivenWhenOpened ==
  ASSUME IInv, NotAhead, ~Open(pc), log' = log, Len(script') = Len(script) + 1
  PROVE  Given' = Given
<1>1. Given = NoneGiven
  BY GivenIs, GivenBetween
<1>2. Len(script) \in Nat /\ \A r \in Runners : Len(log[r]) \in Nat
  BY LogTypes
<1>3. \A r \in Runners : Len(log'[r]) # Len(script')
  BY <1>2 DEF NotAhead
<1>4. Given' = NoneGiven
  BY <1>3, GivenIs, GivenAhead
<1> QED
  BY <1>1, <1>4

(***************************************************************************)
(* The refinement: the verdicts.                                           *)
(***************************************************************************)
JudgedOf(rep) == [k \in DOMAIN rep |-> rep[k].verdict]

LEMMA JudgedAppend ==
  ASSUME NEW rep \in Seq(Report), NEW v \in Report
  PROVE  JudgedOf(Append(rep, v)) = Append(JudgedOf(rep), v.verdict)
<1>1. PICK G : G = [w \in Report |-> w.verdict]
  OBVIOUS
<1>2. Gives(G, Report, Verdicts) /\ \A w \in Report : G[w] = w.verdict
  BY <1>1 DEF Gives, Report
<1>3. ASSUME NEW s \in Seq(Report) PROVE JudgedOf(s) = Mapped(G, s)
  <2>1. \A k \in 1..Len(s) : s[k].verdict = G[s[k]]
    BY <1>2, ElementOfSeq
  <2>2. DOMAIN s = 1..Len(s)
    BY LenProperties
  <2> QED
    BY <2>1, <2>2 DEF JudgedOf, Mapped
<1>4. Append(rep, v) \in Seq(Report)
  BY AppendProperties
<1>5. Mapped(G, Append(rep, v)) = Append(Mapped(G, rep), G[v])
  BY <1>2, MappedAppend
<1> QED
  BY <1>2, <1>3, <1>4, <1>5

(* The verdict of TestRun on a set of answers. *)
VerdictOn(given) ==
  CASE Success \in given -> Ok
    [] given \subseteq {NotFound} -> Unknown
    [] OTHER -> NotOk

LEMMA VerdictOnCases ==
  ASSUME NEW given
  PROVE  /\ Success \in given => VerdictOn(given) = Ok
         /\ Success \notin given /\ given \subseteq {NotFound} => VerdictOn(given) = Unknown
         /\ Success \notin given /\ ~(given \subseteq {NotFound}) => VerdictOn(given) = NotOk
<1>1. CASE Success \in given
  <2>1. ~(given \subseteq {NotFound})
    BY <1>1, AnswersDiffer
  <2> QED
    BY <1>1, <2>1, Zenon DEF VerdictOn
<1>2. CASE Success \notin given
  BY <1>2, Zenon DEF VerdictOn
<1> QED
  BY <1>1, <1>2

(* When the round of a step closes, all have given an answer to it, and    *)
(* the tally comes to the verdict on them.                                 *)
LEMMA AllGiven ==
  ASSUME IInv, ScriptAt, Answered, pc \in {"start", "run", "end"}, cursor = <<>>,
         NEW r \in Elements(identities)
  PROVE  /\ r \in Runners /\ Given[r] = log[r][Len(script)].reply
         /\ Given[r] # NULL
<1>1. r \in Runners
  BY LeftTypes, ElementOfSeq, LenProperties DEF Elements
<1>2. InRound /\ Open(pc) /\ script # <<>>
  BY OpenStates DEF InRound, ScriptAt
<1>3. Elements(cursor) = {}
  BY DEF Elements
<1>4. Len(log[r]) = Len(script)
  BY <1>2, <1>3 DEF Answered
<1>5. Given[r] = log[r][Len(script)].reply
  BY <1>1, <1>2, <1>4, GivenIs DEF GivenOf
<1>6. log[r] \in Seq(LogEntry) /\ Len(script) \in 1..Len(log[r])
  <2>1. script \in Seq(ScriptEntry) /\ Len(script) \in Nat
    BY LogTypes
  <2>2. Len(script) # 0
    BY <1>2, <2>1, EmptySeq
  <2> QED
    BY <1>1, <1>4, <2>1, <2>2, LogTypes
<1>7. log[r][Len(script)] \in LogEntry
  BY <1>6, ElementOfSeq
<1>8. log[r][Len(script)].reply \in ReplyCommands
  BY <1>7 DEF LogEntry
<1> QED
  BY <1>1, <1>5, <1>8, AnswerAssumption

(* The verdict of the round that closes is that of the answers given. *)
LEMMA VerdictGiven ==
  ASSUME IInv, ScriptAt, Answered, Counted, pc = "run", cursor = <<>>
  PROVE  VerdictOn({Given[r] : r \in Elements(identities)}) = Verdict(tally)
<1>1. PICK p : p = Len(script)
  OBVIOUS
<1>2. PICK given : given = {Given[r] : r \in Elements(identities)}
  OBVIOUS
<1>3. \A r \in Elements(identities) : Given[r] = log[r][p].reply
  BY <1>1, AllGiven
<1>4. /\ Verdict(tally) = Ok <=> GaveAt(p, Success)
      /\ Verdict(tally) = NotOk <=> GaveAt(p, Failure) /\ ~GaveAt(p, Success)
      /\ Verdict(tally) = Unknown <=>
           \A r \in Elements(identities) : log[r][p].reply = NotFound
  BY <1>1, VerdictOfTally
<1>5. \A r \in Elements(identities) : log[r][p].reply \in {Success, Failure, NotFound}
  <2>1. Elements(cursor) = {}
    BY DEF Elements
  <2> QED
    BY <1>1, <2>1, AnswersDiffer DEF Counted, Before
<1>6. Success \in given <=> GaveAt(p, Success)
  BY <1>2, <1>3 DEF GaveAt
<1>7. given \subseteq {NotFound} <=>
        \A r \in Elements(identities) : log[r][p].reply = NotFound
  BY <1>2, <1>3
<1>8. CASE GaveAt(p, Success)
  BY <1>2, <1>4, <1>6, <1>8, VerdictOnCases
<1>9. CASE ~GaveAt(p, Success) /\ given \subseteq {NotFound}
  BY <1>2, <1>4, <1>6, <1>7, <1>9, VerdictOnCases
<1>10. CASE ~GaveAt(p, Success) /\ ~(given \subseteq {NotFound})
  <2>1. GaveAt(p, Failure)
    BY <1>5, <1>7, <1>10 DEF GaveAt
  <2> QED
    BY <1>2, <1>4, <1>6, <1>10, <2>1, VerdictOnCases
<1> QED
  BY <1>8, <1>9, <1>10

-----------------------------------------------------------------------------
(***************************************************************************)
(* The refinement: each step is a step of TestRun, or changes none of its  *)
(* variables.                                                              *)
(***************************************************************************)
Judged == [k \in DOMAIN report |-> report[k].verdict]

Quietly == UNCHANGED <<AgendaLeft, Given, identities, report, isSuccessful>>

(* The run begins where the files of the argument have been listed. *)
BeginsNothing == pc' \in {"list", "collect"} <=> pc \in {"list", "collect"}

(* A step that changes nothing of the agenda, the answers, the step runners  *)
(* and the report is a stutter of TestRun.                                   *)
LEMMA NothingChanges ==
  ASSUME Quietly, BeginsNothing
  PROVE  UNCHANGED Promise!runVars
BY DEF Quietly, BeginsNothing, Promise!runVars, Given, Elements

LEMMA AbstractVerdict ==
  Promise!Verdict = VerdictOn({Given[r] : r \in Elements(identities)})
BY DEF Promise!Verdict, VerdictOn, Given, Success, NotFound, Ok, NotOk, Unknown

(* A round closes on a request, with no verdict or with one. *)
LEMMA ClosesRound ==
  ASSUME pc \notin {"list", "collect"}, pc' \notin {"list", "collect"},
         NEW q, ClosesOn(q),
         \A r \in Elements(identities) : r \in Runners /\ Given[r] # NULL,
         Given' = NoneGiven, identities' = identities,
         \/ q[1] # "RUN STEP" /\ UNCHANGED <<report, isSuccessful>>
         \/ /\ q[1] = "RUN STEP"
            /\ Judged' = Append(Judged, Promise!Verdict)
            /\ isSuccessful' = (isSuccessful /\ Promise!Verdict # "FAILURE")
  PROVE  Promise!CloseRound
<1>1. AgendaLeft # <<>> /\ AgendaLeft' = Tail(AgendaLeft) /\ Head(AgendaLeft) = q
  BY DEF ClosesOn
<1>2. \A r \in Elements(identities) : [x \in Runners |-> AnswerGiven(x)][r] # NULL
  BY DEF Given
<1>3. [x \in Runners |-> AnswerGiven(x)]' = [x \in Runners |-> NULL]
  BY DEF Given, NoneGiven
<1>4. UNCHANGED Elements(identities)
  BY DEF Elements
<1>5. CASE q[1] # "RUN STEP" /\ UNCHANGED <<report, isSuccessful>>
  BY <1>1, <1>2, <1>3, <1>4, <1>5 DEF Promise!CloseRound
<1>6. CASE /\ q[1] = "RUN STEP"
           /\ Judged' = Append(Judged, Promise!Verdict)
           /\ isSuccessful' = (isSuccessful /\ Promise!Verdict # "FAILURE")
  BY <1>1, <1>2, <1>3, <1>4, <1>6 DEF Promise!CloseRound, Judged
<1> QED
  BY <1>5, <1>6

(* What neither opens nor closes a round leaves the answers as they are,   *)
(* and the agenda when it leaves the cursors on the feature.               *)
LEMMA GivenStays ==
  ASSUME Open(pc) <=> Open(pc'), UNCHANGED <<script, log>>
  PROVE  Given' = Given
<1>1. GivenOf(pc, log, Len(script)) = GivenOf(pc', log, Len(script))
  BY GivenSame
<1> QED
  BY <1>1, GivenIs

LEMMA AgendaStays ==
  ASSUME Open(pc) <=> Open(pc'),
         UNCHANGED <<listing, feature_files, pickles, pickle, steps, script>>
  PROVE  AgendaLeft' = AgendaLeft
<1>1. Last' = Last
  BY DEF Last
<1>2. LeftOf(pc, pickle, Last, steps) = LeftOf(pc', pickle', Last', steps')
  BY <1>1, LeftSame
<1> QED
  BY <1>2, AgendaLeftIs

LEMMA QuietByFiles ==
  ASSUME IInv, RoundsInv, ListFile \/ NextFile, UNCHANGED stepsVars
  PROVE  Quietly /\ BeginsNothing
<1>1. AgendaLeft' = AgendaLeft
  BY AgendaByListFile, AgendaByNextFile DEF RoundsInv
<1>2. /\ pc \in {"list", "file"} /\ pc' \in {"list", "pickle", "errors"}
      /\ pc = "list" <=> pc' = "list"
      /\ UNCHANGED <<identities, report, isSuccessful, script, log>>
  BY DEF ListFile, NextFile, stepsVars
<1>3. Open(pc) <=> Open(pc')
  BY <1>2, OpenStates
<1>4. Given' = Given
  BY <1>2, <1>3, GivenStays
<1> QED
  BY <1>1, <1>2, <1>4 DEF Quietly, BeginsNothing

LEMMA QuietByOpening ==
  ASSUME IInv, RoundsInv, NextPickle \/ BeginStep \/ StepsDone, UNCHANGED stepsVars
  PROVE  Quietly /\ BeginsNothing
<1>1. AgendaLeft' = AgendaLeft /\ Len(script') = Len(script) + 1
  BY AgendaByNextPickle, AgendaByBeginStep, AgendaByStepsDone DEF RoundsInv
<1>2. /\ pc \in {"pickle", "step"} /\ pc' \in {"start", "run", "end"}
      /\ UNCHANGED <<identities, report, isSuccessful, log>>
  BY DEF NextPickle, BeginStep, StepsDone, stepsVars
<1>3. ~Open(pc)
  BY <1>2, OpenStates
<1>4. Given' = Given
  BY <1>1, <1>2, <1>3, GivenWhenOpened DEF RoundsInv
<1> QED
  BY <1>1, <1>2, <1>4 DEF Quietly, BeginsNothing

(* Sending, receiving and turning to the next document. *)
Turns == Listed \/ PrintError \/ EndDocument \/ Return

Exchanges ==
  \/ SendStart \/ SendStep \/ SendEnd
  \/ \E r \in Runners : RecvStarted(r) \/ RecvRan(r) \/ RecvEnded(r)

LEMMA ExchangeKeeps ==
  ASSUME IInv, Exchanges
  PROVE  /\ pc \in {"start", "run", "end"} \cup Waiting
         /\ pc' \in {"start", "run", "end", "aborted"} \cup Waiting
         /\ UNCHANGED <<listing, feature_files, pickles, pickle, steps, script,
                        identities, report, isSuccessful>>
<1>1. /\ pc \in {"start", "run", "end"} \cup Waiting
      /\ pc' \in {"start", "run", "end", "aborted"} \cup Waiting
      /\ UNCHANGED <<listing, feature_files, pickles, pickle, steps, script,
                     identities, report>>
      /\ ~(pc \in {"start", "run", "end"} /\ cursor = <<>>)
  BY DEF IInv, Positions, Exchanges, SendStart, SendStep, SendEnd, SendTo, RecvStarted,
         RecvRan, RecvEnded, RecvAnswer, Waiting
<1>2. RunnerThread
  BY DEF Exchanges, RunnerThread
<1>3. isSuccessful' = isSuccessful
  BY <1>1, <1>2, RunnerSteps DEF Prepares, Asks, Sends, Aborts, Passes, Accepts, Waiting
<1> QED
  BY <1>1, <1>3

LEMMA QuietByExchange ==
  ASSUME IInv, Exchanges, UNCHANGED stepsVars
  PROVE  Quietly /\ BeginsNothing
<1>1. /\ pc \in {"start", "run", "end"} \cup Waiting
      /\ pc' \in {"start", "run", "end", "aborted"} \cup Waiting
      /\ UNCHANGED <<listing, feature_files, pickles, pickle, steps, script,
                     identities, report, isSuccessful, log>>
  BY ExchangeKeeps DEF stepsVars
<1>2. Open(pc) /\ Open(pc')
  BY <1>1, OpenStates
<1>3. AgendaLeft' = AgendaLeft /\ Given' = Given
  BY <1>1, <1>2, AgendaStays, GivenStays
<1> QED
  BY <1>1, <1>3 DEF Quietly, BeginsNothing, Waiting

LEMMA QuietByTurn ==
  ASSUME Turns, UNCHANGED stepsVars
  PROVE  Quietly /\ BeginsNothing
<1>1. /\ \/ pc \in {"list", "collect"} /\ pc' \in {"list", "collect"}
         \/ pc \in {"file", "errors", "pickle"} /\ pc' \in {"file", "errors", "done"}
      /\ UNCHANGED <<listing, feature_files, pickles, pickle, steps, script,
                     identities, report, isSuccessful, log>>
  BY DEF Turns, Listed, PrintError, EndDocument, Return, stepsVars
<1>2. ~Open(pc) /\ ~Open(pc')
  BY <1>1, OpenStates
<1>3. AgendaLeft' = AgendaLeft /\ Given' = Given
  BY <1>1, <1>2, AgendaStays, GivenStays
<1> QED
  BY <1>1, <1>3 DEF Quietly, BeginsNothing

(* A greeting that is collected is a step runner that joins. *)
LEMMA CollectJoins ==
  ASSUME IInv, NEW r \in Runners, CollectIdentity(r), UNCHANGED stepsVars
  PROVE  Promise!Join(r)
<1>1. /\ pc = "collect" /\ pc' = "collect" /\ identities' = Append(identities, r)
      /\ UNCHANGED <<listing, feature_files, pickles, pickle, steps, script,
                     report, isSuccessful, log>>
  BY DEF CollectIdentity, stepsVars
<1>2. Elements(identities') = Elements(identities) \cup {r}
  BY <1>1, LeftTypes, ElementsOfAppend
<1>3. AgendaLeft' = AgendaLeft /\ Given' = Given
  BY <1>1, AgendaStays, GivenStays
<1> QED
  BY <1>1, <1>2, <1>3 DEF Promise!Join, Given, Elements

LEMMA CallBegins ==
  ASSUME CallRun, UNCHANGED stepsVars
  PROVE  Promise!Begin
<1>1. /\ pc = "collect" /\ pc' = "file" /\ Awaited \subseteq Elements(identities)
      /\ UNCHANGED <<listing, feature_files, pickles, pickle, steps, script,
                     identities, report, isSuccessful, log>>
  BY DEF CallRun, AllAwaited, stepsVars
<1>2. ~Open(pc) /\ ~Open(pc')
  BY <1>1, OpenStates
<1>3. AgendaLeft' = AgendaLeft /\ Given' = Given
  BY <1>1, <1>2, AgendaStays, GivenStays
<1> QED
  BY <1>1, <1>3 DEF Promise!Begin, Given, Elements

(* The test that ends the loop on the step runners closes the round. *)
LEMMA FirstStepImplements ==
  ASSUME IInv, ScriptAt, Answered, FirstStep, UNCHANGED stepsVars
  PROVE  Promise!CloseRound
<1>1. /\ pc = "start" /\ pc' = "step" /\ cursor = <<>>
      /\ UNCHANGED <<identities, report, isSuccessful>>
  BY DEF FirstStep
<1>2. ClosesOn(StartRequest(pickle)) /\ StartRequest(pickle)[1] # "RUN STEP"
  BY FirstStepCloses, RequestKinds, KindsDiffer
<1>3. \A r \in Elements(identities) : r \in Runners /\ Given[r] # NULL
  BY <1>1, AllGiven
<1>4. Given' = NoneGiven
  BY <1>1, OpenStates, GivenIs, GivenBetween
<1> QED
  BY <1>1, <1>2, <1>3, <1>4, ClosesRound

LEMMA PickleDoneImplements ==
  ASSUME IInv, ScriptAt, Answered, PickleDone, UNCHANGED stepsVars
  PROVE  Promise!CloseRound
<1>1. /\ pc = "end" /\ pc' = "pickle" /\ cursor = <<>>
      /\ UNCHANGED <<identities, report, isSuccessful>>
  BY DEF PickleDone
<1>2. ClosesOn(EndRequest(pickle)) /\ EndRequest(pickle)[1] # "RUN STEP"
  BY PickleDoneCloses, RequestKinds, KindsDiffer
<1>3. \A r \in Elements(identities) : r \in Runners /\ Given[r] # NULL
  BY <1>1, AllGiven
<1>4. Given' = NoneGiven
  BY <1>1, OpenStates, GivenIs, GivenBetween
<1> QED
  BY <1>1, <1>2, <1>3, <1>4, ClosesRound

LEMMA EndStepImplements ==
  ASSUME IInv, ScriptAt, Answered, Counted, EndStep, UNCHANGED stepsVars
  PROVE  Promise!CloseRound
<1>1. /\ pc = "run" /\ pc' = "step" /\ cursor = <<>>
      /\ report' = Append(report, [at |-> Len(script), verdict |-> Verdict(tally)])
      /\ isSuccessful' = (isSuccessful /\ Verdict(tally) # "FAILURE")
      /\ identities' = identities
  BY DEF EndStep, Reported
<1>2. /\ ClosesOn(StepRequest(pickle, Head(steps)))
      /\ StepRequest(pickle, Head(steps))[1] = "RUN STEP"
  BY EndStepCloses, RequestKinds
<1>3. \A r \in Elements(identities) : r \in Runners /\ Given[r] # NULL
  BY <1>1, AllGiven
<1>4. Given' = NoneGiven
  BY <1>1, OpenStates, GivenIs, GivenBetween
<1>5. Promise!Verdict = Verdict(tally)
  BY <1>1, VerdictGiven, AbstractVerdict
<1>6. Judged' = Append(Judged, Verdict(tally))
  <2>1. PICK v : v = [at |-> Len(script), verdict |-> Verdict(tally)]
    OBVIOUS
  <2>2. v \in Report /\ v.verdict = Verdict(tally)
    <3>1. Len(script) \in Nat
      BY LogTypes
    <3>2. Verdict(tally) \in Verdicts
      BY DEF Verdict, Verdicts
    <3> QED
      BY <2>1, <3>1, <3>2 DEF Report
  <2>3. JudgedOf(report') = Append(JudgedOf(report), v.verdict)
    BY <1>1, <2>1, <2>2, LeftTypes, JudgedAppend
  <2> QED
    BY <2>2, <2>3 DEF Judged, JudgedOf
<1>7. /\ StepRequest(pickle, Head(steps))[1] = "RUN STEP"
      /\ Judged' = Append(Judged, Promise!Verdict)
      /\ isSuccessful' = (isSuccessful /\ Promise!Verdict # "FAILURE")
  BY <1>1, <1>2, <1>5, <1>6
<1> QED
  BY <1>1, <1>2, <1>3, <1>4, <1>7, ClosesRound

LEMMA RunnerImplements ==
  ASSUME IInv, ScriptAt, Answered, Counted, RoundsInv, RunnerThread,
         UNCHANGED stepsVars
  PROVE  [Promise!Next]_(Promise!runVars)
<1>1. CASE ListFile \/ NextFile
  BY <1>1, QuietByFiles, NothingChanges
<1>2. CASE NextPickle \/ BeginStep \/ StepsDone
  BY <1>2, QuietByOpening, NothingChanges
<1>3. CASE Exchanges
  BY <1>3, QuietByExchange, NothingChanges
<1>4. CASE Turns
  BY <1>4, QuietByTurn, NothingChanges
<1>5. CASE \E r \in Runners : CollectIdentity(r)
  BY <1>5, CollectJoins DEF Promise!Next
<1>6. CASE CallRun
  BY <1>6, CallBegins DEF Promise!Next
<1>7. CASE FirstStep \/ EndStep \/ PickleDone
  BY <1>7, FirstStepImplements, EndStepImplements, PickleDoneImplements DEF Promise!Next
<1> QED
  BY <1>1, <1>2, <1>3, <1>4, <1>5, <1>6, <1>7 DEF RunnerThread, Exchanges, Turns

(* The request of the round that is open is the first of those left. *)
LEMMA LastIsFirst ==
  ASSUME IInv, Open(pc), OfScenario
  PROVE  AgendaLeft # <<>> /\ Head(AgendaLeft) = Last
<1>1. /\ pickles \in Seq(Pickle) /\ feature_files \in Seq(Document)
      /\ listing \in Seq(Entry) /\ steps \in Seq(Texts) /\ pickle \in Pickle
  BY LeftTypes DEF OfScenario
<1>2. PICK s \in Seq(ARequest) :
        LeftOf(pc, pickle, Last, steps) = Cat(<<Last>>, s) /\ Last \in ARequest
  <2>1. CASE Last = StartRequest(pickle)
    <3>1. /\ pickle.steps \in Seq(Texts) /\ StartRequest(pickle) \in ARequest
          /\ StepsAndEnd(pickle, pickle.steps) \in Seq(ARequest)
      BY <1>1, ScenarioParts, StepsAndEndParts
    <3> QED
      BY <1>1, <2>1, <3>1, LeftInRound
  <2>2. CASE steps # <<>> /\ Last = StepRequest(pickle, Head(steps))
    <3>1. Head(steps) \in Texts /\ Tail(steps) \in Seq(Texts)
      BY <1>1, <2>2, HeadTailProperties
    <3>2. /\ StepRequest(pickle, Head(steps)) \in ARequest
          /\ StepsAndEnd(pickle, Tail(steps)) \in Seq(ARequest)
      BY <1>1, <3>1, ScenarioParts, StepsAndEndParts
    <3>3. LeftOf(pc, pickle, Last, steps) = StepsAndEnd(pickle, steps)
      BY <1>1, <2>2, LeftInRound
    <3>4. StepsAndEnd(pickle, steps) =
            Cat(<<StepRequest(pickle, Head(steps))>>, StepsAndEnd(pickle, Tail(steps)))
      BY <1>1, <2>2, LeftOfSteps
    <3> QED
      BY <2>2, <3>2, <3>3, <3>4
  <2>3. CASE Last = EndRequest(pickle)
    <3>1. EndRequest(pickle) \in ARequest /\ <<>> \in Seq(ARequest)
      BY <1>1, ScenarioParts, EmptySeq
    <3> QED
      BY <1>1, <2>3, <3>1, LeftInRound
  <2> QED
    BY <2>1, <2>2, <2>3 DEF OfScenario
<1>3. PICK a : a = AgendaOf(Cat(<<Last>>, s), pickles, feature_files, listing)
  OBVIOUS
<1>4. a # <<>> /\ Head(a) = Last
  BY <1>1, <1>2, <1>3, AgendaOfScenario
<1> QED
  BY <1>2, <1>3, <1>4, AgendaLeftIs

(* A handler runs in the round of a request of the scenario being run. *)
LEMMA HandlerInRound ==
  ASSUME IInv, ScriptAt, Following, Stopped, NEW r \in Runners, Handler(r)
  PROVE  Open(pc) /\ OfScenario
<1>1. CASE pc = "aborted"
  BY <1>1, OpenStates DEF Stopped
<1>2. CASE pc # "aborted"
  <2>1. pc \in Waiting
    BY <1>2, HandlesLast
  <2>2. InRound
    BY <2>1 DEF InRound
  <2>3. script # <<>> /\ pickle \in Pickle
    BY <2>1, <2>2 DEF ScriptAt, IInv, Positions
  <2>7. OfScenario
    <3>1. CASE pc = "started"
      BY <2>3, <3>1 DEF ScriptAt, OfScenario
    <3>2. CASE pc = "ran"
      BY <2>3, <3>2 DEF ScriptAt, OfScenario, IInv, Positions
    <3>3. CASE pc = "ended"
      BY <2>3, <3>3 DEF ScriptAt, OfScenario
    <3> QED
      BY <2>1, <3>1, <3>2, <3>3 DEF Waiting
  <2> QED
    BY <2>1, <2>7, OpenStates
<1> QED
  BY <1>1, <1>2

(* Helpers on sequences. *)
LEMMA SameLast ==
  ASSUME NEW S, NEW s \in Seq(S), NEW e, NEW f, Append(s, e) = Append(s, f)
  PROVE  e = f
<1>1. PICK T : T = S \cup {e, f}
  OBVIOUS
<1>2. s \in Seq(T) /\ e \in T /\ f \in T
  BY <1>1, SeqMonotonic
<1> QED
  BY <1>2, AppendInjective

LEMMA HeadIsFirst ==
  ASSUME NEW S, NEW s \in Seq(S), s # <<>>
  PROVE  Head(s) = s[1]
  BY EmptySeq

(* A step is run where a definition matches it, and not found elsewhere. *)
LEMMA FoundOrNot ==
  ASSUME IInv, Registries, NEW r \in Runners, Handler(r), NEW e,
         log'[r] = Append(log[r], e), StepHandled(e), requests[r][1] = "RUN STEP"
  PROVE  IF Defined(r, requests[r][3]) THEN e.reply \in {Success, Failure}
                                       ELSE e.reply = NotFound
<1>1. requests[r] # <<>> /\ IsRequest(requests[r])
  BY RequestsAreWhole, HandlerAnswers DEF IInv, TypeOK
<1>2. Head(requests[r]) = "RUN STEP"
  <2>1. requests[r] \in Seq(Frames)
    BY DEF IInv, TypeOK, TransportTypeOK
  <2>2. Head(requests[r]) = requests[r][1]
    BY <1>1, <2>1, HeadIsFirst
  <2> QED
    BY <2>2
<1>3. log \in [Runners -> Seq(LogEntry)]
  BY LogTypes
<1>4. RunStep(r) \/ StepNotFound(r)
  BY <1>2, KindsDiffer DEF Handler, StartScenario, EndScenario, HasRequest
<1>5. cucumber[r] # NULL
  BY <1>4 DEF RunStep, StepNotFound, StepRequested
<1>6. Finds(cucumber[r], requests[r][3]) <=> Defined(r, requests[r][3])
  BY <1>5 DEF Registries
<1>7. ASSUME NEW n, NEW state, NEW fails, NEW command,
             Handled(r, n, state, fails, command)
      PROVE  e.reply = command
  <2>1. PICK f : f = [frames |-> SubSeq(requests[r], 1, n), state |-> state,
                      fails |-> fails, reply |-> command]
    OBVIOUS
  <2>2. log'[r] = Append(log[r], f) /\ f.reply = command
    BY <1>3, <1>7, <2>1 DEF Handled
  <2>3. log[r] \in Seq(LogEntry)
    BY <1>3
  <2>4. Append(log[r], e) = Append(log[r], f)
    BY <2>2
  <2> QED
    BY <2>2, <2>3, <2>4, SameLast
<1>8. CASE RunStep(r)
  <2>1. Finds(cucumber[r], requests[r][3])
    BY <1>8 DEF RunStep, StepDefFor, Finds
  <2>2. \E n, state, fails : \E command \in {Success, Failure} :
          Handled(r, n, state, fails, command)
    BY <1>8, Zenon DEF RunStep, Success, Failure
  <2> QED
    BY <1>6, <1>7, <2>1, <2>2
<1>9. CASE StepNotFound(r)
  <2>1. ~Finds(cucumber[r], requests[r][3])
    BY <1>9 DEF StepNotFound, StepDefFor, Finds
  <2>2. Handled(r, 3, cucumber[r].state, FALSE, NotFound)
    BY <1>9, Zenon DEF StepNotFound, NotFound
  <2> QED
    BY <1>6, <1>7, <2>1, <2>2
<1> QED
  BY <1>4, <1>8, <1>9

(* What a step runner answers is what TestRun lets it answer. *)
LEMMA AnswerAllowed ==
  ASSUME IInv, Registries, NEW r \in Runners, Handler(r), NEW e \in LogEntry,
         log' = [log EXCEPT ![r] = Append(@, e)],
         Starts(r, e) \/ Ends(r, e) \/ Runs(r, e) \/ Misses(r, e),
         e.frames = requests[r]
  PROVE  e.reply \in Promise!Answer(r, requests[r])
<1>1. e.frames[1] = requests[r][1]
  OBVIOUS
<1>2. CASE Starts(r, e)
  <2>1. requests[r][1] = "START SCENARIO" /\ e.reply = "SCENARIO STARTED"
    BY <1>1, <1>2 DEF Starts, StartHandled
  <2> QED
    BY <2>1, KindsDiffer, Zenon DEF Promise!Answer
<1>3. CASE Ends(r, e)
  <2>1. requests[r][1] = "END SCENARIO" /\ e.reply = "SCENARIO ENDED"
    BY <1>1, <1>3 DEF Ends, EndHandled
  <2> QED
    BY <2>1, KindsDiffer, Zenon DEF Promise!Answer
<1>4. CASE StepHandled(e)
  <2>1. requests[r][1] = "RUN STEP"
    BY <1>1, <1>4 DEF StepHandled
  <2>2. log'[r] = Append(log[r], e)
    BY LogTypes
  <2>3. IF Defined(r, requests[r][3]) THEN e.reply \in {Success, Failure}
                                      ELSE e.reply = NotFound
    BY <1>4, <2>1, <2>2, FoundOrNot
  <2>4. Promise!Answer(r, requests[r]) =
          IF Defined(r, requests[r][3]) THEN {Success, Failure} ELSE {NotFound}
    BY <2>1, KindsDiffer, Zenon DEF Promise!Answer, Defined, Success, Failure, NotFound
  <2> QED
    BY <2>3, <2>4
<1> QED
  BY <1>2, <1>3, <1>4 DEF Runs, Misses

LEMMA HandlerImplements ==
  ASSUME IInv, ScriptAt, Following, RoundsInv, NEW r \in Runners, Handler(r),
         UNCHANGED runnerVars
  PROVE  Promise!Respond(r)
<1>1. UNCHANGED <<pc, listing, feature_files, pickles, pickle, steps, script,
                  identities, report, isSuccessful>>
  BY DEF runnerVars
<1>2. Open(pc) /\ OfScenario /\ script # <<>>
  BY HandlerInRound DEF RoundsInv, OfScenario
<1>3. /\ requests[r] = Last /\ r \in Elements(identities)
      /\ Len(log[r]) = Len(script) - 1
      /\ \E e \in LogEntry :
           /\ log' = [log EXCEPT ![r] = Append(@, e)]
           /\ Len(log'[r]) = Len(script) /\ log'[r][Len(script)] = e
           /\ \A q \in Runners : q # r => log'[q] = log[q]
           /\ Starts(r, e) \/ Ends(r, e) \/ Runs(r, e) \/ Misses(r, e)
  BY HandlerAnswersLast DEF RoundsInv
<1>4. PICK e \in LogEntry :
        /\ log' = [log EXCEPT ![r] = Append(@, e)]
        /\ e.frames = requests[r]
        /\ Starts(r, e) \/ Ends(r, e) \/ Runs(r, e) \/ Misses(r, e)
  BY HandlerLogs, Zenon
<1>5. Len(script) \in Nat
  BY LogTypes
<1>6. /\ log'[r] = Append(log[r], e) /\ Len(log'[r]) = Len(script)
      /\ \A q \in Runners : q # r => log'[q] = log[q]
  BY <1>3, <1>4, LogTypes
<1>7. log'[r][Len(script)] = e
  <2>1. log[r] \in Seq(LogEntry)
    BY LogTypes
  <2>2. Append(log[r], e)[Len(log[r]) + 1] = e
    BY <2>1, Appended
  <2> QED
    BY <1>3, <1>5, <1>6, <2>2
<1>8. e.reply \in Promise!Answer(r, Last)
  <2>1. e.reply \in Promise!Answer(r, requests[r])
    BY <1>4, AnswerAllowed DEF RoundsInv
  <2> QED
    BY <1>3, <2>1
<1>9. Given[r] = NULL
  <2>1. Len(log[r]) # Len(script)
    BY <1>3, <1>5
  <2> QED
    BY <2>1, GivenIs DEF GivenOf
<1>10. Given' = [Given EXCEPT ![r] = e.reply]
  <2>1. Given = GivenOf(pc, log, Len(script)) /\ Given' = GivenOf(pc, log', Len(script))
    BY <1>1, GivenIs
  <2>2. ASSUME NEW q \in Runners
        PROVE  GivenOf(pc, log', Len(script))[q] =
                 IF q = r THEN e.reply ELSE GivenOf(pc, log, Len(script))[q]
    BY <1>2, <1>6, <1>7 DEF GivenOf
  <2> QED
    BY <2>1, <2>2 DEF GivenOf
<1>11. AgendaLeft' = AgendaLeft
  BY <1>1, AgendaStays
<1>12. AgendaLeft # <<>> /\ Head(AgendaLeft) = Last
  BY <1>2, LastIsFirst
<1>13. pc \notin {"list", "collect"}
  BY <1>2 DEF Open, Waiting
<1>14. \E a \in Promise!Answer(r, Head(AgendaLeft)) : Given' = [Given EXCEPT ![r] = a]
  BY <1>8, <1>10, <1>12
<1>15. UNCHANGED <<AgendaLeft, Elements(identities), Judged, isSuccessful>>
  BY <1>1, <1>11 DEF Elements, Judged
<1>16. pc' \notin {"list", "collect"} <=> pc \notin {"list", "collect"}
  BY <1>1
<1> QED
  BY <1>3, <1>9, <1>12, <1>13, <1>14, <1>15, <1>16
     DEF Promise!Respond, Given, Judged

LEMMA StepRunnerImplements ==
  ASSUME IInv, ScriptAt, Following, RoundsInv, NEW r \in Runners, StepRunner(r),
         UNCHANGED runnerVars
  PROVE  [Promise!Next]_(Promise!runVars)
<1>1. CASE Handler(r)
  <2>1. Promise!Respond(r)
    BY <1>1, HandlerImplements
  <2> QED
    BY <2>1 DEF Promise!Next
<1>2. CASE ~Handler(r)
  <2>1. log' = log
    BY <1>2, QuietSteps
  <2>2. UNCHANGED <<pc, listing, feature_files, pickles, pickle, steps, script,
                    identities, report, isSuccessful>>
    BY DEF runnerVars
  <2>3. AgendaLeft' = AgendaLeft /\ Given' = Given
    BY <2>1, <2>2, AgendaStays, GivenStays
  <2>4. Quietly /\ BeginsNothing
    BY <2>2, <2>3 DEF Quietly, BeginsNothing
  <2> QED
    BY <2>4, NothingChanges
<1> QED
  BY <1>1, <1>2

LEMMA InitImplements ==
  Init => Promise!Init
<1> SUFFICES ASSUME Init PROVE Promise!Init
  OBVIOUS
<1>1. PICK arg \in Arguments :
        /\ listing = IF arg.directory THEN arg.entries ELSE <<>>
        /\ feature_files = IF arg.directory THEN <<>> ELSE <<arg.entries[1].file>>
  BY DEF Init, FeatureRunnerInit
<1>2. /\ pc = "list" /\ pickle = NULL /\ pickles = <<>> /\ identities = <<>>
      /\ report = <<>> /\ isSuccessful = TRUE
  BY DEF Init, FeatureRunnerInit
<1>3. AgendaLeft = ArgumentRequests(arg)
  <2>1. LeftOf(pc, pickle, Last, steps) = <<>>
    BY <1>2, NoScenarioLeft
  <2>2. arg \in Argument /\ (arg.directory \/ Len(arg.entries) = 1)
    BY RunnerAssumption
  <2> QED
    BY <1>1, <1>2, <2>1, <2>2, AgendaOfArgument, AgendaLeftIs
<1>4. Given = NoneGiven
  BY <1>2, OpenStates, GivenIs, GivenBetween
<1>5. Elements(identities) = {} /\ Judged = <<>>
  BY <1>2 DEF Elements, Judged
<1> QED
  BY <1>2, <1>3, <1>4, <1>5 DEF Promise!Init, Given, NoneGiven, Judged

(***************************************************************************)
(* The feature runner and its step runners do a test run as TestRun has it:*)
(* cucumber_feature_runner_run asks each step runner of its list each      *)
(* request of each scenario once, in order, goes on when all have answered,*)
(* and prints and returns what was answered, as far as it got.             *)
(***************************************************************************)
THEOREM TestRunImplemented ==
  Spec => ImplementsTestRun
<1>1. IInv /\ ScriptAt /\ Following /\ Answered /\ Counted /\ RoundsInv /\ [Next]_vars
        => [Promise!Next]_(Promise!runVars)
  <2> SUFFICES ASSUME IInv, ScriptAt, Following, Answered, Counted, RoundsInv,
                      [Next]_vars
               PROVE  [Promise!Next]_(Promise!runVars)
    OBVIOUS
  <2>1. CASE UNCHANGED vars
    <3>1. UNCHANGED <<pc, listing, feature_files, pickles, pickle, steps, script,
                      identities, report, isSuccessful, log>>
      BY <2>1 DEF vars, runnerVars, stepsVars
    <3>2. AgendaLeft' = AgendaLeft /\ Given' = Given
      BY <3>1, AgendaStays, GivenStays
    <3>3. Quietly /\ BeginsNothing
      BY <3>1, <3>2 DEF Quietly, BeginsNothing
    <3> QED
      BY <3>3, NothingChanges
  <2>2. CASE RunnerThread /\ UNCHANGED stepsVars
    BY <2>2, RunnerImplements
  <2>3. ASSUME NEW r \in Runners, StepRunner(r), UNCHANGED runnerVars
        PROVE  [Promise!Next]_(Promise!runVars)
    BY <2>3, StepRunnerImplements
  <2> QED
    BY <2>1, <2>2, <2>3 DEF Next, Finished
<1> QED
  BY <1>1, InitImplements, RoundsInvariant, CountedInvariant, ScriptInvariant,
     Invariance, PTL DEF Spec, ImplementsTestRun, Promise!Spec
===============================================================================
