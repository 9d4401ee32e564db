---------------------------- MODULE ModelConfigs ----------------------------
(***************************************************************************)
(* The model configurations of one user                                    *)
(* (goalflow/model_configs/service.py): create, change, choose the default,*)
(* test, archive, and what a job gets to run with.                         *)
(*                                                                         *)
(* Every command is one write transaction.  A test reads the configuration,*)
(* probes the provider outside of any transaction and stores what it found *)
(* in another one.  A job binds the id and revision of the default and has *)
(* its model built at each attempt.                                        *)
(***************************************************************************)
EXTENDS Naturals

CONSTANTS
  Configs,            \* numbered in the order of their creation
  Settings,           \* api_mode, base_url and model_id
  ApiKeys,            \* credentials
  NoKey,
  NoConfig,
  ModelTests,         \* bound: tests, each run once
  ModelJobs,          \* bound: jobs that bind a configuration
  MaxConfigRevision   \* bound of the changes of a configuration

ASSUME ModelConfigsAssumption ==
  /\ Configs \subseteq Nat /\ Settings # {} /\ NoKey \notin ApiKeys /\ NoConfig \notin Configs
  /\ MaxConfigRevision \in Nat

VARIABLES
  config,    \* table model_configs; revision 0 without a row
  probe,      \* the tests under way, and what they have read
  modelJob,  \* the reference each job is bound to
  bound,     \* history: the content of the reference when the job was bound to it
  built      \* history: the contents each job's models were built from

configVars == <<config, probe, modelJob, bound, built>>

ConfigRevisions == 0 .. MaxConfigRevision

\* What a call to the provider depends on.
ModelContents == [setting : Settings, key : ApiKeys \cup {NoKey}]

\* measured: the revision whose capabilities capabilities_json holds; 0 for null.
ConfigRows == [revision : ConfigRevisions, content : ModelContents, enabled : BOOLEAN, default : BOOLEAN,
         deleted : BOOLEAN, measured : ConfigRevisions]

References == [config : Configs \cup {NoConfig}, revision : ConfigRevisions]
Unbound == [config |-> NoConfig, revision |-> 0]

ConfigTypeOK ==
  /\ config \in [Configs -> ConfigRows]
  /\ probe \in [ModelTests -> [step : {"ready", "probing", "done"}, of : References]]
  /\ modelJob \in [ModelJobs -> [step : {"new", "bound", "stale"}, of : References]]
  /\ bound \in [ModelJobs -> ModelContents]
  /\ built \in [ModelJobs -> SUBSET ModelContents]

\* Where there is no row.
Blank == [setting |-> CHOOSE x \in Settings : TRUE, key |-> NoKey]

ConfigInit ==
  /\ config = [c \in Configs |->
       [revision |-> 0, content |-> Blank, enabled |-> FALSE, default |-> FALSE,
        deleted |-> FALSE, measured |-> 0]]
  /\ probe = [t \in ModelTests |-> [step |-> "ready", of |-> Unbound]]
  /\ modelJob = [j \in ModelJobs |-> [step |-> "new", of |-> Unbound]]
  /\ bound = [j \in ModelJobs |-> Blank]
  /\ built = [j \in ModelJobs |-> {}]

-----------------------------------------------------------------------------
\* Definitions named X_Y are mutants of X: plausible mistakes that the runs are
\* shown to detect.  No action uses them.

\* _get_active_config(): archived rows are not found.
IsFound(c) == config[c].revision > 0 /\ ~config[c].deleted

\* create_model_config()
CreateConfig(c, content) ==
  /\ config[c].revision = 0 /\ MaxConfigRevision > 0
  /\ \A d \in Configs : d < c => config[d].revision > 0
  /\ config' = [config EXCEPT ![c] =
       [revision |-> 1, content |-> content, enabled |-> TRUE, default |-> FALSE,
        deleted |-> FALSE, measured |-> 0]]
  /\ UNCHANGED <<probe, modelJob, bound, built>>

\* update_model_config(), with the revision the client has seen.  Any field may be
\* left as it is; the number changes all the same.
UpdateConfig(c, expected, content, enabled) ==
  /\ IsFound(c) /\ config[c].revision = expected /\ expected < MaxConfigRevision
  /\ content.key = NoKey => config[c].content.key = NoKey
  /\ config' = [config EXCEPT ![c].content = content, ![c].enabled = enabled,
                              ![c].revision = @ + 1]
  /\ UNCHANGED <<probe, modelJob, bound, built>>

\* _do_set_default(): the old default first.
WithDefault(rows, c) ==
  [d \in Configs |-> [rows[d] EXCEPT !.default = (d = c)]]

\* set_default_model_config()
SetDefault(c) ==
  /\ IsFound(c) /\ config[c].enabled
  /\ config' = WithDefault(config, c)
  /\ UNCHANGED <<probe, modelJob, bound, built>>

\* delete_model_config(): archived, without its credential.
DeleteConfig(c) ==
  /\ IsFound(c)
  /\ config' = [config EXCEPT ![c].deleted = TRUE, ![c].enabled = FALSE,
                              ![c].content.key = NoKey, ![c].default = FALSE]
  /\ UNCHANGED <<probe, modelJob, bound, built>>

-----------------------------------------------------------------------------
\* test_model_config(), its read.
StartTest(t, c) ==
  /\ probe[t].step = "ready"
  /\ IsFound(c) /\ config[c].enabled
  /\ probe' = [probe EXCEPT ![t] =
       [step |-> "probing", of |-> [config |-> c, revision |-> config[c].revision]]]
  /\ UNCHANGED <<config, modelJob, bound, built>>

\* test_model_config(), its write: on whatever the row is by now.
FinishTest(t, succeeded) ==
  LET of == probe[t].of
  IN  /\ probe[t].step = "probing"
      /\ probe' = [probe EXCEPT ![t].step = "done"]
      /\ config' = [config EXCEPT
           ![of.config].measured = IF succeeded THEN of.revision ELSE 0]
      /\ UNCHANGED <<modelJob, bound, built>>

-----------------------------------------------------------------------------
\* get_default_for_job(): MODEL_UNAVAILABLE without an enabled default.
BindJob(j, c) ==
  /\ modelJob[j].step = "new"
  /\ config[c].default /\ config[c].enabled /\ ~config[c].deleted
  /\ modelJob' = [modelJob EXCEPT ![j] =
       [step |-> "bound", of |-> [config |-> c, revision |-> config[c].revision]]]
  /\ bound' = [bound EXCEPT ![j] = config[c].content]
  /\ UNCHANGED <<config, probe, built>>

StillValid_SameRevision(j) ==
  config[modelJob[j].of.config].revision = modelJob[j].of.revision

\* build_model_for_job(): the row is there, enabled, and as it was bound.
StillValid(j) ==
  LET row == config[modelJob[j].of.config]
  IN  ~row.deleted /\ row.enabled /\ row.revision = modelJob[j].of.revision

\* build_model_for_job(), at any of the job's attempts.
BuildModel(j) ==
  /\ modelJob[j].step = "bound" /\ StillValid(j)
  /\ built' = [built EXCEPT ![j] = @ \cup {config[modelJob[j].of.config].content}]
  /\ UNCHANGED <<config, probe, modelJob, bound>>

\* INPUT_STALE: the job has to be submitted again.
FindStale(j) ==
  /\ modelJob[j].step = "bound" /\ ~StillValid(j)
  /\ modelJob' = [modelJob EXCEPT ![j].step = "stale"]
  /\ UNCHANGED <<config, probe, bound, built>>

-----------------------------------------------------------------------------
ConfigNext ==
  \/ \E c \in Configs :
       \/ \E content \in ModelContents :
            \/ CreateConfig(c, content)
            \/ \E expected \in ConfigRevisions, on \in BOOLEAN : UpdateConfig(c, expected, content, on)
       \/ SetDefault(c) \/ DeleteConfig(c)
       \/ \E t \in ModelTests : StartTest(t, c)
       \/ \E j \in ModelJobs : BindJob(j, c)
  \/ \E t \in ModelTests, succeeded \in BOOLEAN : FinishTest(t, succeeded)
  \/ \E j \in ModelJobs : BuildModel(j) \/ FindStale(j)

ConfigSpec == ConfigInit /\ [][ConfigNext]_configVars

-----------------------------------------------------------------------------
\* Every model of a job is built from the very endpoint and credential that the
\* job was bound to, however often the configuration changed, was disabled and
\* enabled, or ceased to be the default between two attempts (07, runs).
JobRunsWhatItBound ==
  \A j \in ModelJobs : built[j] \subseteq {bound[j]}

\* The comment on capabilities_json: the revision that was tested is the one in
\* column revision.
CapabilitiesAreOfRevision ==
  \A c \in Configs : config[c].measured # 0 => config[c].measured = config[c].revision
=============================================================================
