------------------------------ MODULE SarPlugin ------------------------------
(***************************************************************************)
(* ServerlessAppPlugin: turns the (ApplicationId, SemanticVersion) pair of *)
(* every AWS::Serverless::Application into the template URL that the       *)
(* Serverless Application Repository (SAR) hands out, and holds the        *)
(* transform back until SAR reports every such template ACTIVE.            *)
(*                                                                         *)
(* One instance of the plugin serves the translations made with one        *)
(* Translator, one after the other: its caches, its list of templates in   *)
(* progress and its waiting budget survive from one to the next.           *)
(***************************************************************************)
EXTENDS Integers, Sequences

CONSTANTS
  Apps,          \* logical ids of the AWS::Serverless::Application resources
  Keys,          \* (ApplicationId, SemanticVersion) pairs, as _make_app_key builds them
  Unresolvable,  \* the keys in which an intrinsic function is left
  Blank,         \* the keys with an empty SemanticVersion
  Rejected,      \* the keys refused before any call (not a string, region, ssm reference)
  Sleep,         \* SLEEP_TIME_SECONDS
  Timeout,       \* TEMPLATE_WAIT_TIMEOUT_SECONDS
  MaxRounds,     \* bound: translations made with one plugin instance
  NoApp          \* no resource: a value outside Apps

ASSUME ConstantsAssumption ==
  /\ Sleep \in Nat \ {0}
  /\ Timeout \in Nat
  /\ MaxRounds \in Nat
  /\ NoApp \notin Apps
  /\ Unresolvable \subseteq Keys
  /\ Rejected \subseteq Keys
  /\ Blank \subseteq Keys
  /\ Keys \cap {"missing", "url", "incomplete"} = {}

VARIABLES
  \* the template being translated
  loc,           \* Location of each resource: a key, or one of the shapes below
  unvisited,     \* resources the current loop has still to visit
  outcome,       \* what became of each resource
  reported,      \* what the translation reports
  hook,          \* the hook that runs
  round,         \* how many translations this instance has served before
  \* the plugin instance
  validateOnly,  \* _validate_only
  waitForActive, \* _wait_for_template_active_status
  current,       \* the resource whose SAR call is being retried, or NoApp
  applications,  \* _applications
  inProgress,    \* _in_progress_templates
  idx,           \* idx of the polling loop
  totalWait,     \* _total_wait_time
  \* the outside
  sar,           \* status of the template SAR prepares for each key
  seenActive     \* keys whose template SAR has reported ACTIVE to the plugin

templateVars == <<loc, outcome>>
pluginVars   == <<applications, inProgress, totalWait>>
sarVars      == <<sar, seenActive>>
flags == <<validateOnly, waitForActive>>
allVars == <<loc, unvisited, outcome, reported, hook, round, validateOnly, waitForActive,
             current, applications, inProgress, idx, totalWait, sar, seenActive>>

(* A Location that is absent, is a plain URL, or lacks a part of the pair  *)
(* (missing or null) is left to the hook that runs for each resource.      *)
Shapes == {"missing", "url", "incomplete"}

CanProcess_SkipsRejected(a) == loc[a] \notin Shapes \cup Rejected
CanProcess(a) == loc[a] \notin Shapes

Report(v) == hook' = "done" /\ reported' = v

(* What a translation reports if no hook of it has raised an exception.    *)
Verdict == IF \E a \in Apps : outcome[a] = "error" THEN "failed" ELSE "ok"

(* The constructor refuses the two flags together.                         *)
FlagsAllowed == ~(validateOnly /\ waitForActive)

PluginInit ==
  /\ loc \in [Apps -> Keys \cup Shapes]
  /\ unvisited = Apps
  /\ outcome = [a \in Apps |-> "pending"]
  /\ reported = "pending"
  /\ hook = "request"
  /\ round = 0
  /\ validateOnly \in BOOLEAN
  /\ waitForActive \in BOOLEAN
  /\ FlagsAllowed
  /\ current = NoApp
  /\ applications = [k \in Keys |-> "absent"]
  /\ inProgress = <<>>
  /\ idx = 1
  /\ totalWait = 0
  /\ sar = [k \in Keys |-> "none"]
  /\ seenActive = {}

-----------------------------------------------------------------------------
(* on_before_transform_template: one visit per resource, in any order.     *)

Visit(a) ==
  /\ hook = "request" /\ current = NoApp
  /\ a \in unvisited
  /\ unvisited' = unvisited \ {a}

VisitSkip(a) ==
  /\ Visit(a)
  /\ ~CanProcess(a)
  /\ UNCHANGED <<flags, templateVars, pluginVars, sarVars, reported, hook,
                 round, current, idx>>

VisitRecord(a) ==
  /\ Visit(a)
  /\ CanProcess(a)
  /\ \/ /\ loc[a] \in Unresolvable
        /\ applications' = [applications EXCEPT ![loc[a]] = "unresolved"]
     \/ /\ loc[a] \in Rejected \ Unresolvable
        /\ applications[loc[a]] = "absent"
        /\ applications' = [applications EXCEPT ![loc[a]] = "error"]
     \/ /\ loc[a] \notin Unresolvable
        /\ applications[loc[a]] # "absent"
        /\ UNCHANGED applications
  /\ UNCHANGED <<flags, templateVars, sarVars, inProgress, totalWait,
                 reported, hook, round, current, idx>>

VisitCall_EveryResource(a) ==
  /\ Visit(a)
  /\ CanProcess(a)
  /\ loc[a] \notin Unresolvable \cup Rejected
  /\ current' = a
  /\ UNCHANGED <<flags, templateVars, pluginVars, sarVars, reported, hook,
                 round, idx>>
VisitCall(a) ==
  /\ Visit(a)
  /\ CanProcess(a)
  /\ loc[a] \notin Unresolvable \cup Rejected
  /\ applications[loc[a]] = "absent"
  /\ current' = a
  /\ UNCHANGED <<flags, templateVars, pluginVars, sarVars, reported, hook,
                 round, idx>>

RequestsDone ==
  /\ hook = "request" /\ current = NoApp
  /\ unvisited = {}
  /\ hook' = "resource"
  /\ unvisited' = Apps
  /\ UNCHANGED <<flags, templateVars, pluginVars, sarVars, reported, round,
                 current, idx>>

(* _make_service_call_with_retry: one attempt, while the budget lasts.     *)
Attempt ==
  /\ hook = "request" /\ current # NoApp
  /\ totalWait < Timeout

Answered(status) ==
  /\ current' = NoApp
  /\ applications' = [applications EXCEPT ![loc[current]] = status]

(* create_cloud_formation_template: the URL is recorded whatever the       *)
(* status; a template not ACTIVE yet goes on the list of those to wait for.*)
CreateTemplate(status) ==
  /\ Attempt
  /\ ~validateOnly
  /\ status \in {"PREPARING", "ACTIVE"}
  /\ Answered("url")
  /\ LET k == loc[current]
     IN  /\ sar' = [sar EXCEPT ![k] = status]
         /\ IF status = "ACTIVE"
              THEN seenActive' = seenActive \cup {k} /\ UNCHANGED inProgress
              ELSE inProgress' = Append(inProgress, k) /\ UNCHANGED seenActive
  /\ UNCHANGED <<flags, templateVars, unvisited, reported, hook, round, totalWait,
                 idx>>

(* get_application, when only access is verified: no connection is only a  *)
(* warning.                                                                *)
GetApplication(status) ==
  /\ Attempt
  /\ validateOnly
  /\ status \in {"available", "unverified"}
  /\ Answered(status)
  /\ UNCHANGED <<flags, templateVars, sarVars, unvisited, reported, hook, round,
                 inProgress, totalWait, idx>>

(* AccessDeniedException, NotFoundException: kept for the resource's hook. *)
CallDenied ==
  /\ Attempt
  /\ Answered("error")
  /\ UNCHANGED <<flags, templateVars, sarVars, unvisited, reported, hook, round,
                 inProgress, totalWait, idx>>

(* TooManyRequestsException: sleep, count the sleep and try again.         *)
CallThrottled ==
  /\ Attempt
  /\ totalWait' = totalWait + Sleep
  /\ UNCHANGED <<flags, templateVars, sarVars, unvisited, reported, hook, round,
                 current, applications, inProgress, idx>>

(* Every other error of the service leaves the plugin and the translator.  *)
CallCrashes ==
  /\ Attempt
  /\ Report("crashed")
  /\ current' = NoApp
  /\ UNCHANGED <<flags, templateVars, pluginVars, sarVars, unvisited, round, idx>>

CallGivenUp ==
  /\ hook = "request" /\ current # NoApp
  /\ totalWait >= Timeout
  /\ Answered("error")
  /\ UNCHANGED <<flags, templateVars, sarVars, unvisited, reported, hook, round,
                 inProgress, totalWait, idx>>

-----------------------------------------------------------------------------
(* on_before_transform_resource, once per resource.  KeyError is what a    *)
(* lookup of a pair the first hook never recorded would raise.             *)

ResourceOutcome(a) ==
  CASE loc[a] = "url" -> "plain"
    [] loc[a] \in {"missing", "incomplete"} \cup Unresolvable \cup Blank -> "error"
    [] OTHER -> LET found == applications[loc[a]]
                IN  CASE found = "absent" -> "KeyError"
                      [] found = "error"  -> "error"
                      [] validateOnly     -> "plain"
                      [] OTHER            -> found

TransformResource(a) ==
  /\ hook = "resource"
  /\ a \in unvisited
  /\ unvisited' = unvisited \ {a}
  /\ outcome' = [outcome EXCEPT ![a] = ResourceOutcome(a)]
  /\ UNCHANGED <<flags, loc, pluginVars, sarVars, reported, hook, round,
                 current, idx>>

ResourcesDone ==
  /\ hook = "resource"
  /\ unvisited = {}
  /\ IF waitForActive
       THEN hook' = "wait" /\ UNCHANGED reported
       ELSE Report(Verdict)
  /\ UNCHANGED <<flags, templateVars, pluginVars, sarVars, unvisited, round,
                 current, idx>>

-----------------------------------------------------------------------------
(* on_after_transform_template.                                            *)

(* The head of the outer loop: another pass over the list, or time is up.  *)
BeginPass ==
  /\ hook = "wait"
  /\ totalWait < Timeout
  /\ hook' = "poll"
  /\ idx' = 1
  /\ UNCHANGED <<flags, templateVars, pluginVars, sarVars, unvisited, reported,
                 round, current>>

TimeIsUp_ListNotChecked ==
  /\ hook = "wait"
  /\ totalWait >= Timeout
  /\ Report(Verdict)
  /\ UNCHANGED <<flags, templateVars, pluginVars, sarVars, unvisited, round,
                 current, idx>>
TimeIsUp ==
  /\ hook = "wait"
  /\ totalWait >= Timeout
  /\ Report(IF inProgress = <<>> THEN Verdict ELSE "failed")
  /\ UNCHANGED <<flags, templateVars, pluginVars, sarVars, unvisited, round,
                 current, idx>>

Poll ==
  /\ hook = "poll"
  /\ idx <= Len(inProgress)

Without_DropsHead(s, i) == SubSeq(s, i + 1, Len(s))
Without(s, i) == SubSeq(s, 1, i - 1) \o SubSeq(s, i + 1, Len(s))

PollActive ==
  /\ Poll
  /\ sar[inProgress[idx]] = "ACTIVE"
  /\ seenActive' = seenActive \cup {inProgress[idx]}
  /\ inProgress' = Without(inProgress, idx)
  /\ UNCHANGED <<flags, templateVars, unvisited, reported, hook, round, current,
                 applications, idx, totalWait, sar>>

PollPreparing ==
  /\ Poll
  /\ sar[inProgress[idx]] = "PREPARING"
  /\ idx' = idx + 1
  /\ UNCHANGED <<flags, templateVars, pluginVars, sarVars, unvisited, reported,
                 hook, round, current>>

(* EXPIRED, access denied and not found raise; the list keeps the entry.   *)
PollRefused ==
  /\ Poll
  /\ Report("failed")
  /\ UNCHANGED <<flags, templateVars, pluginVars, sarVars, unvisited, round,
                 current, idx>>

PollCrashes ==
  /\ Poll
  /\ Report("crashed")
  /\ UNCHANGED <<flags, templateVars, pluginVars, sarVars, unvisited, round,
                 current, idx>>

SleepBeforeNextPass_Uncounted == hook' = "wait" /\ UNCHANGED totalWait
SleepBeforeNextPass ==
  /\ totalWait' = totalWait + Sleep
  /\ hook' = "wait"

(* A throttled call ends the pass: the rest of the list waits for the next.*)
PollThrottled ==
  /\ Poll
  /\ SleepBeforeNextPass
  /\ UNCHANGED <<flags, templateVars, sarVars, unvisited, reported, round, current,
                 applications, inProgress, idx>>

EndPass ==
  /\ hook = "poll"
  /\ idx > Len(inProgress)
  /\ IF inProgress = <<>>
       THEN Report(Verdict) /\ UNCHANGED totalWait
       ELSE /\ SleepBeforeNextPass
                      /\ UNCHANGED reported
  /\ UNCHANGED <<flags, templateVars, sarVars, unvisited, round, current,
                 applications, inProgress, idx>>

-----------------------------------------------------------------------------
(* The same Translator is given another template.                          *)
NextTemplate ==
  /\ hook = "done"
  /\ round < MaxRounds - 1
  /\ round' = round + 1
  /\ loc' \in [Apps -> Keys \cup Shapes]
  /\ unvisited' = Apps
  /\ outcome' = [a \in Apps |-> "pending"]
  /\ reported' = "pending"
  /\ hook' = "request"
  /\ UNCHANGED <<flags, pluginVars, sarVars, current, idx>>

(* The repository finishes, or drops, a template on its own.               *)
SarActivates(k) ==
  /\ sar[k] = "PREPARING"
  /\ sar' = [sar EXCEPT ![k] = "ACTIVE"]
  /\ UNCHANGED <<flags, templateVars, pluginVars, unvisited, reported, hook,
                 round, current, idx, seenActive>>

SarExpires(k) ==
  /\ sar[k] \in {"PREPARING", "ACTIVE"}
  /\ sar' = [sar EXCEPT ![k] = "EXPIRED"]
  /\ UNCHANGED <<flags, templateVars, pluginVars, unvisited, reported, hook,
                 round, current, idx, seenActive>>

RequestNext ==
  \/ RequestsDone
  \/ CallGivenUp
  \/ \E a \in Apps : VisitSkip(a) \/ VisitRecord(a) \/ VisitCall(a)
  \/ \E s \in {"PREPARING", "ACTIVE"} : CreateTemplate(s)
  \/ \E s \in {"available", "unverified"} : GetApplication(s)
  \/ CallDenied \/ CallThrottled \/ CallCrashes

ResourceNext == ResourcesDone \/ \E a \in Apps : TransformResource(a)

WaitNext ==
  \/ BeginPass \/ TimeIsUp \/ EndPass
  \/ PollActive \/ PollPreparing \/ PollRefused
  \/ PollThrottled \/ PollCrashes

PluginNext == RequestNext \/ ResourceNext \/ WaitNext

SarNext == \E k \in Keys : SarActivates(k) \/ SarExpires(k)

RoundsNext == PluginNext \/ NextTemplate \/ SarNext

PluginSpec == PluginInit /\ [][RoundsNext]_allVars

(* The transform runs to its end; nothing is assumed of SAR or of callers. *)
FairSpec == PluginSpec /\ WF_allVars(PluginNext)

-----------------------------------------------------------------------------
PluginTypeOK ==
  /\ loc \in [Apps -> Keys \cup Shapes]
  /\ unvisited \subseteq Apps
  /\ outcome \in [Apps -> {"pending", "plain", "url", "error", "KeyError"}]
  /\ reported \in {"pending", "ok", "failed", "crashed"}
  /\ hook \in {"request", "resource", "wait", "poll", "done"}
  /\ round \in Nat
  /\ validateOnly \in BOOLEAN /\ waitForActive \in BOOLEAN /\ FlagsAllowed
  /\ current \in Apps \cup {NoApp}
  /\ applications \in [Keys -> {"absent", "unresolved", "error", "url",
                                "available", "unverified"}]
  /\ inProgress \in Seq(Keys)
  /\ idx \in Nat \ {0}
  /\ totalWait \in Nat
  /\ sar \in [Keys -> {"none", "PREPARING", "ACTIVE", "EXPIRED"}]
  /\ seenActive \subseteq Keys

(* A translation that waits and succeeds uses only URLs of templates SAR   *)
(* has reported ACTIVE, also when an earlier translation of the same       *)
(* plugin was given up half way and left its templates behind.             *)
OnlyActiveTemplates ==
  (reported = "ok" /\ waitForActive) =>
     \A a \in Apps : outcome[a] = "url" => loc[a] \in seenActive

(* The sleeps of one plugin instance, retries of throttled calls and       *)
(* waiting for ACTIVE together, overrun the budget by less than one sleep. *)
WaitWithinBudget == totalWait < Timeout + Sleep

(* The hook that runs for each resource never meets a pair that the first  *)
(* hook did not record.                                                    *)
NoKeyError == \A a \in Apps : outcome[a] # "KeyError"

(* A pair that got an answer keeps it: no second template is created for   *)
(* it, by another resource or by another translation.                      *)
AnswersKept ==
  [][\A k \in Keys : applications[k] # "absent" => applications'[k] = applications[k]]_allVars

(* However SAR behaves, throttling every call included, each translation   *)
(* comes to an end.                                                        *)
Terminates == []<>(hook = "done")

(* The plugin keeps the promise of TemplateGate, across all the            *)
(* translations it serves.                                                 *)
Gate == INSTANCE TemplateGate
          WITH waits   <- waitForActive,
               handed  <- {k \in Keys : applications[k] = "url"},
               ready   <- seenActive,
               verdict <- reported
ImplementsGate == Gate!Spec
=============================================================================
