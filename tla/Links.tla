-------------------------------- MODULE Links --------------------------------
(***************************************************************************)
(* Links between two goals and the dependencies of tasks that go with them *)
(* (goalflow/links): a link is proposed and confirmed with its edges, and  *)
(* is removed again by a change proposal that shows what goes with it.     *)
(*                                                                         *)
(* Each command is one write transaction, except accept_change_proposal,   *)
(* which is two: the first marks an outdated proposal, so that the mark    *)
(* survives the error, and the second applies the proposal.                *)
(***************************************************************************)
EXTENDS Naturals, FiniteSets

CONSTANTS
  LinkTasks,    \* tasks of the user
  GoalOf,       \* the goal of each task
  Unplanned,    \* the tasks that belong to no plan version at first
  LinkIds,
  PairOf,       \* the two goals of each link
  Proposals,
  MaxPlanning,  \* bound of the planning revision
  NoLink

ASSUME LinksAssumption ==
  /\ IsFiniteSet(LinkTasks)
  /\ LinkTasks = DOMAIN GoalOf /\ Unplanned \subseteq LinkTasks
  /\ LinkIds = DOMAIN PairOf /\ NoLink \notin LinkIds
  /\ \A l \in LinkIds : Cardinality(PairOf[l]) = 2
  /\ MaxPlanning \in Nat

VARIABLES
  link,        \* table goal_links: the status of each
  edges,       \* table task_dependencies
  proposal,    \* table change_proposals
  planning,    \* user_planning_state.revision
  planned,     \* the tasks that belong to a plan version
  accepting    \* the proposals some request to accept has found up to date

linkVars == <<link, edges, proposal, planning, planned, accepting>>

\* An edge says that a task waits for another one, and under which link.
Edges == [pred : LinkTasks, succ : LinkTasks, link : LinkIds]

\* shown: the edges of the link when the proposal was made (edge_ids).
ProposalRows ==
  [link : LinkIds \cup {NoLink}, input : 0 .. MaxPlanning, shown : SUBSET Edges,
   status : {"none", "pending", "applied", "rejected", "stale"}]

LinksTypeOK ==
  /\ link \in [LinkIds -> {"none", "proposed", "active", "removed"}]
  /\ edges \subseteq Edges
  /\ proposal \in [Proposals -> ProposalRows]
  /\ planning \in 0 .. MaxPlanning
  /\ planned \subseteq LinkTasks
  /\ accepting \subseteq Proposals

LinksInit ==
  /\ link = [l \in LinkIds |-> "none"]
  /\ edges = {}
  /\ proposal = [p \in Proposals |->
       [link |-> NoLink, input |-> 0, shown |-> {}, status |-> "none"]]
  /\ planning = 0
  /\ planned = LinkTasks \ Unplanned
  /\ accepting = {}

-----------------------------------------------------------------------------
\* Definitions named X_Y are mutants of X: plausible mistakes that the runs are
\* shown to detect.  No action uses them.

Arcs(es) == {<<e.pred, e.succ>> : e \in es}

CycleExists_NewEdgesOnly(new) ==
  \E ts \in (SUBSET LinkTasks) \ {{}} : \A t \in ts : \E u \in ts : <<t, u>> \in new

\* _cycle_exists(): following the edges of the user and the new ones comes back
\* to a task, that is, from some tasks one never gets out.
CycleExists(new) ==
  \E ts \in (SUBSET LinkTasks) \ {{}} :
    \A t \in ts : \E u \in ts : <<t, u>> \in Arcs(edges) \cup new

\* _validate_edges_cross_goal(): at least one edge, each from one goal of the
\* pair to the other.
Candidates(l) ==
  (SUBSET {a \in LinkTasks \X LinkTasks : {GoalOf[a[1]], GoalOf[a[2]]} = PairOf[l]}) \ {{}}

EdgesOf(l) == {e \in edges : e.link = l}

\* The check of _do_propose(), which uq_goal_links_active_pair repeats.
PairIsTaken(l) ==
  \E m \in LinkIds : PairOf[m] = PairOf[l] /\ link[m] \in {"proposed", "active"}

\* propose_goal_link(): the edges are validated but not stored.
ProposeLink(l, new) ==
  /\ link[l] = "none"
  /\ ~PairIsTaken(l)
  /\ ~CycleExists(new)
  /\ link' = [link EXCEPT ![l] = "proposed"]
  /\ UNCHANGED <<edges, proposal, planning, accepting, planned>>

\* _bump_planning_revision()
Bump_Forgotten == planning' = planning

Bump ==
  /\ planning < MaxPlanning
  /\ planning' = planning + 1

EdgesUnder(l, new) == {[pred |-> a[1], succ |-> a[2], link |-> l] : a \in new}

\* confirm_goal_link(): the edges come with the request once more, and may be
\* others than the proposed ones.
ConfirmLink(l, new) ==
  /\ link[l] = "proposed"
  /\ ~CycleExists(new)
  /\ \A a \in new : a[2] \in planned
  /\ edges' = edges \cup EdgesUnder(l, new)
  /\ link' = [link EXCEPT ![l] = "active"]
  /\ Bump
  /\ UNCHANGED <<proposal, accepting, planned>>

\* propose_unlink(): any number of proposals may be pending for a link.
ProposeUnlink(p, l) ==
  /\ proposal[p].status = "none"
  /\ link[l] = "active"
  /\ proposal' = [proposal EXCEPT ![p] =
       [link |-> l, input |-> planning, shown |-> EdgesOf(l), status |-> "pending"]]
  /\ UNCHANGED <<link, edges, planning, accepting, planned>>

-----------------------------------------------------------------------------
IsOutdated(p) == proposal[p].status = "pending" /\ proposal[p].input # planning

\* accept_change_proposal(), first transaction: an outdated proposal becomes stale
\* and the request ends; otherwise, pending or not, the request goes on.
CheckProposal(p) ==
  /\ proposal[p].status # "none"
  /\ IF IsOutdated(p)
     THEN /\ proposal' = [proposal EXCEPT ![p].status = "stale"]
          /\ UNCHANGED accepting
     ELSE /\ accepting' = accepting \cup {p}
          /\ UNCHANGED proposal
  /\ UNCHANGED <<link, edges, planning, planned>>

Applicable_CheckedBefore(p) == proposal[p].status # "stale"

\* What _do_accept() checks again.
Applicable(p) ==
  /\ proposal[p].status = "pending"
  /\ proposal[p].input = planning
  /\ link[proposal[p].link] = "active"

WithoutEdges_LabelOnly(l) == edges

\* DELETE FROM task_dependencies WHERE goal_link_id = ...
WithoutEdges(l) == edges \ EdgesOf(l)

\* A request to accept p ends; others may still be under way.
RequestEnds(p) == accepting' \in {accepting, accepting \ {p}}

\* Second transaction: the link, its edges, the proposal and the planning revision
\* change together.
ApplyProposal(p) ==
  /\ p \in accepting
  /\ Applicable(p)
  /\ link' = [link EXCEPT ![proposal[p].link] = "removed"]
  /\ edges' = WithoutEdges(proposal[p].link)
  /\ proposal' = [proposal EXCEPT ![p].status = "applied"]
  /\ Bump
  /\ RequestEnds(p)
  /\ UNCHANGED planned

\* Or it raises and changes nothing; the proposal may be left pending.  So ends
\* also a request whose process dies between the two.
AcceptFails(p) ==
  /\ p \in accepting
  /\ RequestEnds(p)
  /\ UNCHANGED <<link, edges, proposal, planning, planned>>

\* reject_change_proposal()
RejectProposal(p) ==
  /\ proposal[p].status = "pending"
  /\ proposal' = [proposal EXCEPT ![p].status = "rejected"]
  /\ UNCHANGED <<link, edges, planning, accepting, planned>>

\* Commands of scheduling advance the planning revision too.
OtherCommand ==
  /\ Bump
  /\ UNCHANGED <<link, edges, proposal, accepting, planned>>

\* A plan version is drafted that contains the task.
PlanTask(t) ==
  /\ t \notin planned
  /\ planned' = planned \cup {t}
  /\ UNCHANGED <<link, edges, proposal, planning, accepting>>

LinksNext ==
  \/ \E l \in LinkIds : \E new \in Candidates(l) : ProposeLink(l, new) \/ ConfirmLink(l, new)
  \/ \E p \in Proposals :
       \/ \E l \in LinkIds : ProposeUnlink(p, l)
       \/ CheckProposal(p) \/ ApplyProposal(p) \/ AcceptFails(p) \/ RejectProposal(p)
  \/ OtherCommand
  \/ \E t \in LinkTasks : PlanTask(t)

LinksSpec == LinksInit /\ [][LinksNext]_linkVars

-----------------------------------------------------------------------------
\* The dependencies of all goals together have no cycle, though a link is checked
\* when proposed and confirmed later, after other links and with other edges (18,
\* section 2): among any tasks one waits for none of them.
DependenciesAreAcyclic ==
  \A ts \in (SUBSET LinkTasks) \ {{}} : \E t \in ts : \A u \in ts : <<t, u>> \notin Arcs(edges)

\* Links and edges go together: a link has edges exactly while it is active, and
\* they lead from one of its goals to the other.  No edge outlives its link (18,
\* the principle).
EdgesGoWithLinks ==
  /\ \A l \in LinkIds : EdgesOf(l) # {} <=> link[l] = "active"
  /\ \A e \in edges : {GoalOf[e.pred], GoalOf[e.succ]} = PairOf[e.link]

\* Two goals have at most one link that is proposed or active (03, section 2).
OneLinkPerPair ==
  \A l, m \in LinkIds :
    l # m /\ {link[l], link[m]} \subseteq {"proposed", "active"} => PairOf[l] # PairOf[m]

\* Whoever accepts a proposal that is up to date removes exactly what it shows:
\* its link is there and has the edges the proposal lists (18, section 3: a
\* confirmation is never used for another difference).
ProposalShowsWhatItRemoves ==
  \A p \in Proposals :
    proposal[p].status = "pending" /\ proposal[p].input = planning =>
      /\ link[proposal[p].link] = "active"
      /\ proposal[p].shown = EdgesOf(proposal[p].link)

\* Every link that was removed was removed by one accepted proposal, however many
\* were pending for it and however many requests accepted them.
RemovedByOneProposal ==
  \A l \in LinkIds :
    LET accepted == {p \in Proposals : proposal[p].link = l /\ proposal[p].status = "applied"}
    IN  /\ link[l] = "removed" <=> accepted # {}
        /\ \A p, q \in accepted : p = q
=============================================================================
