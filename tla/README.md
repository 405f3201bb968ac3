# A TLA+ model of cucumber-c

cucumber-c runs Gherkin feature files against step definitions written in C. A *feature runner* reads
feature files and drives any number of *step runner* processes over ZeroMQ; every step runner holds step
definitions, runs the steps it knows and answers. This directory holds TLA+ modules of that system, the
TLC configurations that check them, and proofs that TLAPS checks.

Paths below are those of the repository (`src/...` for C files, `include/...` for headers).

## The system

| Part | Code | State it keeps | Operations | Module |
|---|---|---|---|---|
| Feature runner | `src/cucumber_feature_runner.c` | files, current scenario and step, cursors on lists, tally, totals, result | `new` (lists files), `run` | `FeatureRunner` |
| Its caller | `src/cucumber_runner.c`, or an application | the list of step runners | builds the list, calls `run` | `FeatureRunner` |
| Step runner, main thread | `include/cucumber_c.h` (`STEP_RUNNER`) | the arguments, the actor handle | start actors, wait for ctrl-d, stop them | `CucumberSteps`, `StepRunnerSetup` |
| Step runner, actor thread | `src/cucumber_steps.c` | socket, pipe, verbose, terminated, the current `cucumber_t` | handle a request, handle a command, stop | `CucumberSteps` |
| Arguments | `src/cucumber_steps_args.c` | three function pointers shared by the two threads | new, get, destroy | `StepRunnerSetup`, `CucumberSteps` (`args`) |
| Scenario registry | `src/cucumber.c` | the user's state, the step definitions | new, destroy, find | `Cucumber` |
| Step definition | `src/cucumber_step_def.c` | regular expression and its captures, function, `failed_str` | matches, run, failed, fetch a parameter | `Cucumber`, `StepExecution` |
| Assertions | `include/cucumber_asserts.h`, `src/cucumber_asserts.c` | none; they print to strings | `assert_that_...` for each type | `CucumberAsserts`, `StepExecution` |
| Scenario | `src/cuc_pickle.c` | id, name, steps, a cursor | id, first and next step | `Gherkin`, `FeatureRunner`, `FeatureObjects` |
| Feature file | `src/cuc_gherkin_doc.c` | errors or pickles | parse, valid, pickles, errors | `Gherkin`, `FeatureObjects` |
| Sockets | ZeroMQ and CZMQ (libraries) | queues of frames and messages | send, receive, connect, close | `Transport` |

How they interact. A step runner connects and sends `HELLO`. For each scenario the feature runner goes
through its list of step runners three times: it sends `START SCENARIO id` to one, waits for
`SCENARIO STARTED id`, goes to the next; then for each step `RUN STEP id text`, answered by
`STEP SUCCEEDED`, `STEP FAILED` or `STEP NOT FOUND`; then `END SCENARIO id`. It sends to one step runner
but receives from *any*: nothing but the order of things makes the next message the answer. Within a step
runner the two threads share the arguments of the actor (freed by one, read by the other) and the pipe
of the zactor (`VERBOSE`, `$TERM`).

What is hard about it: the interleaving of late `HELLO`s with answers; step runners that quit or die at
any moment while `run` waits without a time-out; requests read frame by frame; the hand-over of the
arguments between threads, on memory that is used again; states of users that must be destroyed on each way
out; what a step's failure is remembered by, and for how long; step runners that outlive the feature runner
they worked for; strings and objects with owners that change from line to line, in a language that does
not help. `PROJECT.json` lists each at its line.

What makes each part correct:

- feature runner: every step of every scenario goes to every step runner, in order, once; the verdict on
  a step and the result of `run` are what was answered; `run` returns.
- step runner: every request is handled once, in order, with its own frames, on the state of its own
  scenario; states are destroyed with their scenarios; ctrl-d ends it.
- both: a message taken for an answer is the answer; a request finds the scenario it needs.
- steps: a function gets the parameters of its own step; the reason of a failure shows that failure.
- memory: what is read is allocated, what was allocated is freed once.

## Modules

    Gherkin      Transport          files and scenarios; sockets (external)
      |   \      /   |
    Cucumber  FeatureRunner         one scenario's registry; the feature runner and its caller
      |              |
    CucumberSteps    |              both threads of the step runners
        \            |
         CucumberSystem             all of them, every interleaving; the properties
          /        \      \
         /          \      CucumberReruns      feature runners one after another
        /     CucumberRefinement   it implements TestRun, what the system promises
        /              |
    CucumberInvariant  |            the inductive invariant
      |            \   |
      |         MCCucumberSystem
    CucumberSystem_proofs           it is one; what follows from it
      |
    CucumberHistories_proofs        scenarios; what is asked is what is handled; what is printed is what
                                    was answered; the same of CucumberReruns, run by run; and that
                                    CucumberRefinement holds (it extends both)

    OpenStepRunners   = CucumberSteps  in front of an arbitrary client
      |
    OpenStepRunners_proofs
    OpenFeatureRunner = FeatureRunner  in front of arbitrary step runners
      |
    OpenFeatureRunner_proofs

`FeatureRunner_proofs` has the lemmas on the feature runner alone (its list and cursor, requests, the tally, the
verdict), which `CucumberHistories_proofs` and `OpenFeatureRunner_proofs` cite.

One action of the modules above may be much code. Three modules take such code statement by statement:

    StepExecution - CucumberAsserts    a step: find, fetch, run, assert, answer;
      |                                implements AtomicSteps, which uses the operators of Cucumber
    StepExecution_proofs
    StepRunnerSetup                    the macros that start actors; implements the three actions
      |                                CucumberSteps has for it
    StepRunnerSetup_proofs
    FeatureObjects                     the heap of a feature runner
      |
    FeatureObjects_proofs

**FeatureRunner.** `pc` is the place in `cucumber_feature_runner_new` (`list`), in the caller (`collect`)
or in `run`: `file`, `errors`, `pickle` are the loops on files, errors and scenarios; `start`/`started`,
`run`/`ran`, `end`/`ended` are the loops on the step runners before the send and before the receive;
`step` is the loop on steps; `aborted` a failed assertion. A list walked with `zlist_first`/`zlist_next`
is the sequence of what is left of it (`cursor`, `pickles`, `steps`, `listing`). One action is the code
between two blocking calls or loop tests. `report` and `script` are history: the requests in the
order of the feature, and the verdicts printed, each with the position in `script` of the request it is about.

**CucumberSteps.** One action is one handler: each reads its socket or pipe first, works on state of its
thread only, and answers last, so nothing can be told apart inside it. It is taken when all the frames it reads have
come; `AwaitFrame` of `OpenStepRunners` is the wait for one that has not, during which the pipe is not read. `args` is the arguments object;
`main` and `actor` are the places of the two threads. State objects of users are numbered in the order
they are constructed; `live` are those not destroyed. `log` is history: what was handled, on which
state, whether the user's function met a failing assertion, and the answer. `Die` is `abort` or a signal:
the process and what it has not sent are gone.

**Transport.** ZeroMQ as the code uses it. Towards a step runner it is a queue of *frames*
(`zstr_recv` reads them one at a time), towards the feature runner one of *messages* (`zsock_recv`).
Queues of different step runners are independent, so any of their heads may be received next. A request
to an identity that is gone is dropped. Closing a socket loses what was not read and any suffix of what
was sent (CZMQ sockets do not linger). `run` prefixes an identity to each request, so the socket it is
given routes; identities stand for step runners.

**Gherkin, Cucumber.** A feature file is what it parses to; a regular expression is the set of step texts
it matches; a user's function fails or not, nondeterministically, at each run. `PickleId` is the *name*
of a scenario, as in the code.

**TestRun, CucumberRefinement.** `TestRun` has no messages, threads or cursors: the party goes through an
agenda of requests in rounds, each answers once, a round closes when all have. The mapping: the agenda is
what is left to do at each place of `run`, computed from the feature files (`AgendaLeft`, nothing of a file that
does not parse; it shrinks where
a loop on the step runners is left: `FirstStep`, `EndStep`, `PickleDone`); an answer is given when its
handler sends it (`AnswerGiven`); the party is `identities`; verdicts and success are `report` and
`isSuccessful`. All other steps of the system are stutters.

**CucumberReruns.** A step runner lives until its ctrl-d, a feature runner as long as one feature: `Rerun` ends
one wherever it is (killed, or stopped by an assertion after an interrupted receive left its pointers unset)
and starts the next, and what was under way is delivered or lost. ZeroMQ connects step runners again; none of
them says `HELLO` again, and none of them forgets the scenario it has.

**StepExecution, CucumberAsserts, AtomicSteps.** `CucumberSteps` looks up, runs and answers a step in one
action. Here the actor goes through the list of step definitions, each match leaving its captures in the zrex
of that definition; the function fetches its parameter, sets a value (one of a volatile expression may change
before each evaluation), and meets assertions; a failing one evaluates and prints the value, composes the
reason, frees the two strings and leaves the function. Strings are numbered as they are allocated. A printed
value is the sequence of numbers one reads in it, given by the conversion of its type: an integer of 8 to 32
bits printed with `%zu` is read with bits nobody has set, `%l` prints nothing. `AtomicSteps` says what
`CucumberSteps` assumes, with the operators of `Cucumber` it uses: `ImplementsAtomicSteps` justifies that
abstraction.

**StepRunnerSetup.** The macros, the constructor, getters and destructor of the arguments, `malloc` and `free`
on a few `Cells`, and the beginning of the actor, one access of a pointer at a time; the two threads
interleave. `Careless` step runners may be started with `NULL`, as a comment has it (see below).
`ImplementsHandover` maps it to the three actions of `CucumberSteps`, which is instantiated.

**FeatureObjects.** The objects on the heap while `run` goes through a list of files with an empty list of step
runners, with the two lists that each step makes and the line of a step that is not found, or while the self test of
`cuc_gherkin_doc.c` uses documents: each statement reads, allocates and
frees objects; `faults` collects what was read or freed unallocated, or allocated twice.

The operators named `X_...` and introduced by *Slip* are plausible bugs in the operator `X` after them; no
specification uses them, they are there to show that each property can be broken.

## Runs

| Run | Configuration | What it shows |
|---|---|---|
| `system` | `MCSystem.cfg`, 19 328 states | all step runners stay up and are awaited: every request to each, isolated scenarios, the result |
| `faults` | `MCFaults.cfg`, 226 060 states | step runners quit, die in steps, get bad commands at any time |
| `any_list` | `MCAnyList.cfg`, 116 242 states | `run` is called at any time, with none, one or both of the step runners in its list; a file does not parse |
| `open_step_runner` | `MCOpenStepRunners.cfg`, 139 239 states | a step runner with any client |
| `open_feature_runner` | `MCOpenFeatureRunner.cfg`, 113 268 states | `run` with any answers |
| `step_execution` | `MCStepExecution.cfg`, 248 948 states | steps of two scenarios, statement by statement |
| `feature_objects` | `MCFeatureObjects.cfg`, 2 209 states | what a feature runner allocates and frees |
| `step_runner_setup` | `MCStepRunnerSetup.cfg`, 737 states | one program starts three step runners |
| `reruns` | `MCReruns.cfg`, 139 989 states | three feature runners in front of one step runner |
| `broken_file` | `MCBrokenFile.cfg`, violation | a file that does not parse keeps `run` for ever |
| `sticky_failure` | `MCStickyFailure.cfg`, violation | a step that succeeds is answered `STEP FAILED` |
| `not_awaited` | `MCNotAwaited.cfg`, violation | a late `HELLO` fails an assertion of `run` |

Properties (defined, with comments, at the end of the specifications):

- `Lockstep`: while `run` is executed nothing is in flight but one request or answer of the step runner
  at the cursor. This is what makes receiving from anyone right. `AssertionsHold`: the assertions of `run`
  on answers do not fail. `OnlyGreetingsAbort`: if one does, the message it has just read is the `HELLO` of a step
  runner that was not collected.
- `RequestsUnderstood`: the frame read as a command is one, a scenario starts where none is open, steps
  and ends come where one is.
- `FollowsScript`: each connected step runner has handled the feature so far, in order, each request once.
- `VerdictsAgree`, `ResultAgrees`: what is printed and returned is what was answered. One success hides
  the failures of other step runners: that is what the code does, and the properties say so. When the list is
  empty (`any_list`) nobody is asked: every step is `NOT FOUND`, and `run` returns true (`ImplementsTestRun`).
- `ImplementsTestRun`: the whole behaviour is one of `TestRun` under the refinement mapping: each request of
  the feature to each step runner of the list once, in order, nothing skipped or repeated, no one ahead by
  a round, an answer its step definitions allow, the verdict and the result from the answers.
- `StatesBalanced`, `ScenariosIsolated`: states of users live exactly as long as their scenarios, and no
  scenario is run on another's. `FailuresStayInScenario`: a step is answered `STEP FAILED` exactly
  when the step definition it runs failed in this scenario, now or before: a failure is not lost, not carried into
  another scenario, and not laid on another step definition.
- `FunctionsAsGiven`, `ArgsOwned`: an actor works with the functions its own step runner was defined with,
  read from arguments that were its own. `OnlyReadyActorsGreet`: one that is given `NULL` has not said
  `HELLO` when it stops the program.
- `RerunFollowsScript`: each run is the whole feature and nothing else, whatever the run before has left
  behind. `OneStateLostPerRun`: a feature runner that is killed costs a step runner one state, the one the
  next `START SCENARIO` overwrites. `RerunReturnsUnlessUnheard`: a run ends, or its caller waits for a `HELLO`
  that an earlier feature runner got.
- `ParamsOfThisStep`: the first step definition that matches runs, with what it captured of this step's text.
  `ReasonShowsFailure`: a reason shows the values of the assertion that failed; `ReasonTellsApart`: what it
  expected and what it got read differently, but where a value changed or `%l` printed nothing.
- `StringsAccounted`, `StringsOwned`: between steps the strings that are allocated are the reasons held and
  those overwritten by a second failure in one scenario, which leak; no string has two owners.
- `NoFault`, `NothingLeaks`: at each place of a run exactly what is still needed is allocated (`Held`).
- `RunReturns`, `ReturnsUnlessLost`, `QuitEnds`: `run` ends; with losses it ends, or is blocked for good on a step runner
  that is gone (`<>[]`); ctrl-d ends a step runner.
- Alone, in front of any client. A handler reads frame by frame across messages, so a message that is no request but
  has a command in it may be carried out in part, and may take frames of the request behind it; `tidy` records
  whether one was sent. A step runner handles the requests sent before the first such message in order, each with its
  own frames, once, and nothing else before them (`HandledInOrder`), and handles them all while nobody ends it
  (`RequestsHandled`). Whatever the frames: it destroys the state of each scenario that it ends or leaves with, and
  loses the states of those a second `START SCENARIO` replaces (`StatesAccounted`); a step where no scenario is open
  stops its process, and nothing else does (`DiesOfUnscopedStep`); ctrl-d ends it, unless its handler waits for a frame
  that its request lacks (`QuitEndsUnlessReading`).
- Alone, in front of step runners that answer anything, the feature runner goes on after an acceptable answer and
  stops at the first other one (`ChecksAnswers`); it asks each of its step runners what the feature says, in its order,
  and what it prints and returns is what it was answered (`ResultIsJustified`). `Ends`: with answers, it ends.

Bounds. Two step runners: the loops treat step runners one after the other, so two give a first, a last,
one before and one behind the cursor; with step definitions that overlap (both know "when"; one of the two has
two of them, and both of these know "given"; none knows "then") every verdict occurs. Files: two scenarios in two files of a directory with a
file that is no feature; two scenarios of one name in one file; an empty directory; a scenario without
steps. The scenario A has two steps that one definition matches, so a failure can outlive its step;
D has a step for each of two definitions of one step runner, so that the failure of one could be laid on the other.
`MaxPipe` bounds the commands that wait when an application sends one of its own; `MaxSent = 3` bounds the
messages of the arbitrary client: start, step and end, or a misplaced one among them. `OtherMessages` are a frame that
is ignored, one with a command behind it, a command that lacks its frames, and a request with the beginning of another
behind it: with two more messages, frames are missing, are taken from the next message, and arrive late. No other counter
needs a bound: a feature is finite.

`reruns` has one step runner and `MaxLives = 3` feature runners: a run, one after it, and one after that, which
tells "the last one left something" from "some one did". `step_execution` has `MaxScenarios = 2` (a reason
must not survive the first) and `MaxSteps = 3` (fail, fail again, succeed: overwrite a reason, keep a reason)
over three step definitions, two of which match one text; values are -1 and 1 and `IntBits = 2`, so that
a negative number, bits nobody set and equality at the width of an int all occur. `step_runner_setup` starts
three step runners on two `Cells`, so that memory is given again, one of them `Careless`.
`feature_objects` has lists of up to three files, with none, one and several scenarios, with no step, and broken.

Deadlock is checked in `system`, `open_feature_runner`, `step_execution`, `feature_objects` and
`step_runner_setup`. In `faults` and `any_list` `run` may rightly be stuck on a step runner that is gone or
stop at an assertion, in `reruns` the caller may wait for a `HELLO` that was said before, and in
`open_step_runner` the process may end.

Fairness. Weak fairness of the feature runner's thread, of the main thread of each step runner (but for
the end of its input, which nothing promises) and of each actor thread: the operating system schedules a
thread that can run, and the functions of steps return. Weak fairness is enough: an actor polls with time-out 0
and has one socket and one pipe, each served when it is reported ready; nothing is assumed about which of the
two `zpoller_wait` reports first. No fairness on crashes, ctrl-d or commands, nor on the start of another
feature runner (`RerunsSpec` is fair to the threads within a life). `OpenSpec` is fair to the threads of the step
runner and not to its client.

## Proofs

For any number of step runners, any feature files, step definitions, constructors, destructors and commands,
whoever quits or dies:

| Module | Theorem | Property |
|---|---|---|
| `CucumberSystem_proofs` | `Invariance` | `IInv`, the inductive invariant |
| | `TypeCorrectness` | `TypeOK` |
| | `EveryRequestUnderstood` | `RequestsUnderstood` |
| | `EveryStateDestroyed` | `StatesBalanced` |
| | `AbortsOnlyByGreeting` | `OnlyGreetingsAbort`, an action property |
| | `NoAssertionFails` | `AssertionsHold`, if `Awaited = Runners` |
| | `WorkInLockstep` | `Lockstep`, if `Awaited = Runners` |
| | `ArgumentsOutliveSetup` | the arguments are not freed before they are read |
| `CucumberHistories_proofs` | `NoStateShared` | `ScenariosIsolated` |
| | `NoFailureOutlivesScenario` | `FailuresStayInScenario` |
| | `ScriptFollowed` | `FollowsScript`, if `Awaited = Runners` |
| | `VerdictsTrue` | `VerdictsAgree` |
| | `ResultTrue` | `ResultAgrees` |
| | `NoAssertionFailsInReruns` | `AssertionsHold` of `CucumberReruns`, if `Awaited = Runners` |
| | `EachRunFollowsItsScript` | `RerunFollowsScript`, if `Awaited = Runners` |
| | `OneStateLost` | `OneStateLostPerRun`, if `Awaited = Runners` |
| | `TestRunImplemented` | `ImplementsTestRun`, a refinement |
| `OpenStepRunners_proofs` | `OpenInvariant` | `OpenInv`, the inductive invariant |
| | `HandlesInOrder` | `HandledInOrder` |
| | `AccountsForStates` | `StatesAccounted` |
| | `DiesOfUnscopedSteps` | `DiesOfUnscopedStep`, if nothing else stops the process |
| `OpenFeatureRunner_proofs` | `RunInvariant` | `RunInv`, the inductive invariant, if `Awaited = Runners` |
| | `AnswersChecked` | `ChecksAnswers`, if `Awaited = Runners` |
| | `ResultJustified` | `ResultIsJustified`, if `Awaited = Runners` |
| `StepExecution_proofs` | `StepExecutionTyped` | `TypeOK` |
| | `ParamsTrue` | `ParamsOfThisStep` |
| | `ReasonsTrue` | `ReasonShowsFailure` |
| | `ReasonsTellApart` | `ReasonTellsApart`, if `ValuesReadApart` |
| | `NoStringShared` | `StringsOwned` |
| | `LeaksAreOverwritten` | `StringsAccounted` |
| | `StepsAreAtomic` | `ImplementsAtomicSteps`, a refinement |
| `StepRunnerSetup_proofs` | `SetupTypeCorrectness` | `TypeOK` |
| | `EachItsOwnFunctions` | `FunctionsAsGiven` |
| | `ArgumentsOwned` | `ArgsOwned` |
| | `GreetsWhenReady` | `OnlyReadyActorsGreet` |
| | `HandoverIsThreeActions` | `ImplementsHandover`, a refinement |
| `FeatureObjects_proofs` | `ObjectsTypeCorrectness` | `TypeOK` |
| | `NoObjectMisused` | `NoFault` |
| | `NoObjectLeaks` | `NothingLeaks` |

Assumptions: `RunnerAssumption` and `StepsAssumption` (types of the constants; `NULL` is no pickle, no name
and no registry), `AnswerAssumption` (`NULL` is no answer), `ExecutionAssumption`, `NullAssumption`, `RegistryAssumption` and `IntBitsAssumption` (types of the
constants of `StepExecution`; `NULL` is none of its records), `SetupAssumption` (names differ, each is given three
functions), `FileListsAssumption`, `OpenAssumption` (types of the constants of `FeatureObjects` and of the messages of
`OpenStepRunners`). TLC evaluates each in the runs of the modules that have them.

The argument for the system. `RequestsUnderstood` depends on what the feature runner sends next, that on the
answers it took, and those on nothing else being on the wire; so none of the properties is inductive by itself.
`IInv` says what can be on the wire at each place of `run` (`Wire`: the step runner at the cursor has the
request, or has answered it once; every other one is quiet; greetings may lie in front), who has greeted
(`Greetings`: an identity's queue has no greeting any more, so its first message is an answer), and who has
a scenario open (`Scenarios`, by the loop and by the side of the cursor a step runner is on). Even `TypeOK`
needs it: an answer carries the *second frame* the handler read, a scenario's name only if the frames are
those of one request. Each part has a lemma for the feature runner and one for the step runners
(`WireKeptByRunner`, `WireKeptBySteps`, ...); `InvNext` puts them together; the theorems about
`Awaited = Runners` follow from `IInv` and `Collected`.

Histories rest on it. `HandlerLogs` says what one handler adds to `log`, given that requests are whole.
`ScenariosInv` (scenarios) bounds the state objects of a log by the last one constructed and finds the failure
that each `failed` step definition remembers; the first matching step definition exists by well-founded
minimum. `Following` (script) says by how much each step runner is behind: one request, if it is in the list
and the cursor has not passed it or it has not read yet (`Behind`), else none; that the answers to a request come
after it was handled is `IInv`'s part. `Answered` and `Counted` (verdicts) say that those before the cursor have
answered the request being sent around, and that the tally counts their answers; `VerdictsInv` then follows
each verdict from the moment it is printed: its request was handled by all the list, and logs only grow. The steps of
`run` are sorted into what they do to the script (`Prepares`, `Asks`, `Sends`, `Accepts`, `Aborts`, `Passes`:
`RunnerSteps`), so that each invariant is carried through six kinds of steps and not twenty.

Of `CucumberReruns` `IInv` holds in the first run only: a later one starts with what an earlier one left. `RerunInv`
says what that can be (`Leftover`): a greeting, an answer or one request of each step runner, never two. The caller
collects it with what it takes for greetings, so that once `run` is called the wire is as in a first run (`Carried`),
and the lemmas on `Wire`, `Greetings`, `Opened` and the six kinds of steps, which do not assume `IInv`, serve again.
`FollowingSince` counts from `mark`; a step runner that has handled a request of this run has a scenario where the
loops of this run say (`ScenariosSince`), not before. Then `LossesCounted`: the states no scenario has, one for a
scenario left open, one for a `START SCENARIO` of an earlier run that is still to be read, are fewer than the feature
runners started. A run adds one and not two: when it is killed with a `START SCENARIO` on its way to a step runner that
has a scenario open, that scenario is one that an earlier run left, and was counted then.
With several step runners a run comes to its first request again only if each of them has something left to say; where
one has not, its caller waits (`RerunReturnsUnlessUnheard`), and the theorems say nothing went wrong until then.
TLC checked this invariant on two step runners and on one that may quit or crash before it was proved.

`ImplementsTestRun` rests on `IInv`, `Following`, `Answered` and `Counted`, and on four facts more (`RoundsInv`):
nothing is left of a scenario or a document before the next one is begun (`Places`); no step runner, connected or
not, is ahead of the script (`NotAhead`); a run that stopped at an assertion left its last request open (`Stopped`),
so that it may still be answered; a registry finds what the definitions of its step runner match (`Registries`).
The agenda is a concatenation of concatenations (`AgendaOf`: of the scenario, its document, the files, the
directory); what `FlattenSeq` gives of a head and a tail, and of an element appended, is proved once
(`FlattenSeqTail`, `FlattenSeqAppend`), by the least prefix of which it would be false. From these each step is one of
`TestRun` or a stutter: the greeting that is taken into the list is `Join`, the call of `run` is `Begin`, each
handler is a `Respond` to the request at the head of the agenda (`HandlerImplements`), and where the cursor leaves
the list the round closes: the verdict is the one of the answers given, and the agenda loses its head
(`FirstStepCloses`, `EndStepCloses`, `PickleDoneCloses`). Opening a file, a scenario or a directory entry moves
requests from one part of the agenda to the next and leaves it as it is (`AgendaByListFile` and its like).

The open systems need invariants of their own, since `IInv` holds of the two parties together. `OpenInv`: what a
step runner was asked and has not handled lies in its queue of frames, whole and in order (`Pending`, `Placed`),
with no command before it or between, and only once a message that is no request has brought a command, anything
behind it (`Waiting`); so a handler takes the frames of the next request, or of none (`NextRequest`); the scenario it has is the one its history leaves open; its states are apart.
`RunInv`: the answer that is accepted is one of the step runner at the cursor (`Owes`, `Gave`), to what it was asked;
what was read before was acceptable (`Accepted`); the tally counts the answers of those before the cursor (`Counted`),
and a verdict once printed stays true, as histories only grow (`Grown`). TLC checked both on the runs' instances before
they were proved. `DiesOfUnscopedSteps` assumes that functions of steps do not crash and that applications send known
commands only, for `abort` and a signal look the same; the others of `OpenStepRunners` do not. Those of
`OpenFeatureRunner` assume that the caller waits for all: a late `HELLO` fails an assertion though each step runner
has answered well (`not_awaited`).

Steps: four invariants, each on those before. `LookupInv`: the search goes on only while nothing matched, and once
it stops, the captures are those of this text, though each regular expression keeps what it matched last.
`HeapInv`: a reason and the strings being printed are apart. `ReasonsInv`: a step definition holds the reason of its
last failure in this scenario (`Remembering`), and what is being printed is that of the failing assertion
(`Composing`). `LeakInv`: allocated are the reasons held, the strings being printed, and the reasons of failures
that were superseded; since each failure has a string of its own, none of these is freed with a scenario.
`ReasonsTellApart` follows from `ReasonShowsFailure`, that the values of a failure differ (`FailuresDiffer`), and that
different values print apart (`PrintsApart`): bits nobody has set lie above those of the value. It assumes of the
values what C gives for integers (no two lie further apart than their type is wide) and what it does not for floating
point (they differ where `%f` shows it): `ValuesReadApart`, which holds of the values TLC checks it on.
The refinement then goes statement by statement: what `AtomicSteps` does at once happens where the answer is
decided (`TakesAnswer`), where the first match is the cursor (`FindsCursor`); all else is unseen.

Setup: `SetupInv` says in which order two threads can be (`Phases`), who owns a cell (`Ownership`), that it
holds what the macro was given until the actor has signalled (`Contents`), and that what the actor has read so far
is right (`ReadSoFar`); what the coarser actions do not tell apart is unseen (`HandoverUnseen`).
Objects: `NothingLeaks` states the set of allocated objects at each place and is inductive with the places and positions of the thread (`Positions`); that nothing unallocated is read follows from it.

Every invariant, action property and refinement that a passing run checks is proved. Only model-checked is
liveness (`ReturnsUnlessLost`, `QuitEnds`, `QuitEndsUnlessReading`, `RequestsHandled`, `Ends`,
`RerunReturnsUnlessUnheard`): it needs fairness, and that is outside TLAPS's reach here. There is no recursive
operator in these modules; of the recursive function that `FlattenSeq` chooses the proofs argue by the least argument
at which they would be wrong.

## Not modelled

- In a step runner: signals that interrupt `zstr_recv` (in a feature runner the interrupt ends it, as in
  `CucumberReruns`).
- How an application collects step runners is its own affair; modelled is the simplest way (`CollectIdentity`): it
  takes the next message of anyone for a greeting. In `reruns` this matters: a step runner says `HELLO` once, so that
  a later feature runner gets past `collect` only with a `HELLO` or an answer that an earlier one left unread, and
  what the properties of that run say of a scenario left open is said of such a run. A caller that tells a `HELLO` from
  other messages waits there (`RerunReturnsUnlessUnheard` is about this wait). `cucumber_runner` itself reads nothing
  before `run` and gives it an empty list, one of those in `any_list`. That ZeroMQ connects step runners again to a feature
  runner's endpoint is assumed.
- The list of step runners that a caller passes is its own: `FeatureObjects` does not count the `zlist_new ()` of
  `src/cucumber_runner.c:44`, which nobody destroys. It has the empty list only, so the lines that answers add to the
  two lists of a step are left out of it.
- `assert_that_bool`: `bool` is a macro, so that the header declares functions for `_Bool`, and a program that
  uses it does not link.
- Output that no property is about, `--help`, the exit status of `cucumber_runner` (always 0).
- The parser and the compiler of Gherkin, cJSON, zrex: libraries. Unreadable files; the order in which `zdir`
  lists files.
- Self tests but that of documents, examples, build files.

Where a comment or a document and the code disagree, beside the three violations above:

- `src/cuc_pickle.c:115`: `pickle_id` returns the name; the comment at line 109 says the id.
- `src/cucumber_runner.c:44` calls `run` with an empty list, so that no step is ever run; `README.md:97`
  presents it as the way to run a feature.
- `include/cucumber_steps.h:35` and `:39` document commands `START` and `STOP`; `src/cucumber_steps.c:167` stops
  the process on them.
- `include/cucumber_steps.h:25` shows `zactor_new (cucumber_steps, NULL)`; the getters of the arguments stop
  the process on `NULL` (`src/cucumber_steps_args.c:72`).
- `src/cucumber_asserts.c:61` prints a `long` with `%l`: both values in the reason read empty.
- `include/cucumber_asserts.h:50` evaluates the asserted expression again to print it.
- `src/cucumber_step_def.c:110` says of `cucumber_step_def_failed` that it returns true if the step
  succeeded; it returns true if it failed, which is what its caller expects.

## Plan

Done: the modules above. What would add most next:

1. Interrupted receives in step runners.
2. The objects of a step that is answered (`FeatureObjects` has the run with an empty list).
