----------------------------- MODULE LinksProofs -----------------------------
(***************************************************************************)
(* Theorems about Links, for any goals, tasks, links and proposals.        *)
(***************************************************************************)
EXTENDS Links, TLAPS

\* A proposal that was made names a link, and is not ahead of the planning
\* revision.
ProposalsAreReal ==
  \A p \in Proposals : proposal[p].status # "none" =>
    proposal[p].link \in LinkIds /\ proposal[p].input <= planning

LinksInv ==
  /\ LinksTypeOK
  /\ ProposalsAreReal
  /\ EdgesGoWithLinks
  /\ ProposalShowsWhatItRemoves
  /\ RemovedByOneProposal

-----------------------------------------------------------------------------
\* The types.

\* The rows of the proposals keep their types when one status changes.
LEMMA StatusType ==
  ASSUME LinksTypeOK, NEW p \in Proposals,
         NEW s \in {"none", "pending", "applied", "rejected", "stale"}
  PROVE  /\ [proposal EXCEPT ![p].status = s] \in [Proposals -> ProposalRows]
         /\ [proposal EXCEPT ![p].status = s][p] =
              [link |-> proposal[p].link, input |-> proposal[p].input,
               shown |-> proposal[p].shown, status |-> s]
         /\ \A q \in Proposals \ {p} : [proposal EXCEPT ![p].status = s][q] = proposal[q]
<1>1. proposal[p] \in ProposalRows
  BY DEF LinksTypeOK
<1>2. [proposal[p] EXCEPT !.status = s] =
        [link |-> proposal[p].link, input |-> proposal[p].input,
         shown |-> proposal[p].shown, status |-> s]
  BY <1>1 DEF ProposalRows
<1>3. [proposal[p] EXCEPT !.status = s] \in ProposalRows
  BY <1>1, <1>2 DEF ProposalRows
<1> QED
  BY <1>2, <1>3 DEF LinksTypeOK

\* The same, of a step that changes the status of one proposal.
LEMMA StatusSet ==
  ASSUME LinksTypeOK, NEW p \in Proposals,
         NEW s \in {"none", "pending", "applied", "rejected", "stale"},
         proposal' = [proposal EXCEPT ![p].status = s]
  PROVE  /\ proposal'[p].link = proposal[p].link /\ proposal'[p].input = proposal[p].input
         /\ proposal'[p].shown = proposal[p].shown /\ proposal'[p].status = s
         /\ \A q \in Proposals \ {p} : proposal'[q] = proposal[q]
<1>1. proposal'[p] = [link |-> proposal[p].link, input |-> proposal[p].input,
                      shown |-> proposal[p].shown, status |-> s]
  BY StatusType
<1>2. \A q \in Proposals \ {p} : proposal'[q] = proposal[q]
  BY StatusType
<1> QED
  BY <1>1, <1>2

\* The edges a confirmation adds are edges of its link between the given tasks.
LEMMA NewEdges ==
  ASSUME NEW l \in LinkIds, NEW new \in Candidates(l)
  PROVE  /\ EdgesUnder(l, new) \subseteq Edges
         /\ Arcs(EdgesUnder(l, new)) = new
         /\ EdgesUnder(l, new) # {}
         /\ \A e \in EdgesUnder(l, new) :
              e.link = l /\ {GoalOf[e.pred], GoalOf[e.succ]} = PairOf[l]
<1>1. new # {} /\ new \subseteq LinkTasks \X LinkTasks
  BY DEF Candidates
<1>2. \A a \in new : /\ a[1] \in LinkTasks /\ a[2] \in LinkTasks /\ a = <<a[1], a[2]>>
                     /\ {GoalOf[a[1]], GoalOf[a[2]]} = PairOf[l]
  BY <1>1 DEF Candidates
<1>3. EdgesUnder(l, new) \subseteq Edges
  BY <1>2 DEF Edges, EdgesUnder
<1>4. Arcs(EdgesUnder(l, new)) = new
  <2>1. ASSUME NEW a \in new
        PROVE  a \in Arcs(EdgesUnder(l, new))
    <3>1. [pred |-> a[1], succ |-> a[2], link |-> l] \in EdgesUnder(l, new)
      BY DEF EdgesUnder
    <3> QED
      BY <1>2, <3>1 DEF Arcs
  <2>2. ASSUME NEW x \in Arcs(EdgesUnder(l, new))
        PROVE  x \in new
    <3>1. PICK e \in EdgesUnder(l, new) : x = <<e.pred, e.succ>>
      BY DEF Arcs
    <3>2. PICK a \in new : e = [pred |-> a[1], succ |-> a[2], link |-> l]
      BY DEF EdgesUnder
    <3> QED
      BY <1>2, <3>1, <3>2
  <2> QED
    BY <2>1, <2>2
<1>5. EdgesUnder(l, new) # {}
  BY <1>1 DEF EdgesUnder
<1>6. \A e \in EdgesUnder(l, new) :
        e.link = l /\ {GoalOf[e.pred], GoalOf[e.succ]} = PairOf[l]
  BY <1>2 DEF EdgesUnder
<1> QED
  BY <1>3, <1>4, <1>5, <1>6

LEMMA InitTypes == LinksInit => LinksTypeOK
  BY LinksAssumption DEF LinksInit, LinksTypeOK, ProposalRows

LEMMA StepTypes ==
  ASSUME LinksTypeOK, LinksNext
  PROVE  LinksTypeOK'
<1>1. ASSUME NEW l \in LinkIds, NEW new \in Candidates(l), ProposeLink(l, new)
      PROVE  LinksTypeOK'
  BY <1>1 DEF LinksTypeOK, ProposeLink
<1>2. ASSUME NEW l \in LinkIds, NEW new \in Candidates(l), ConfirmLink(l, new)
      PROVE  LinksTypeOK'
  <2>1. edges' \subseteq Edges
    BY <1>2, NewEdges DEF LinksTypeOK, ConfirmLink
  <2>2. planning' \in 0 .. MaxPlanning
    BY <1>2, LinksAssumption DEF LinksTypeOK, ConfirmLink, Bump
  <2> QED
    BY <1>2, <2>1, <2>2 DEF LinksTypeOK, ConfirmLink
<1>3. ASSUME NEW p \in Proposals, NEW l \in LinkIds, ProposeUnlink(p, l)
      PROVE  LinksTypeOK'
  <2>1. [link |-> l, input |-> planning, shown |-> EdgesOf(l), status |-> "pending"] \in ProposalRows
    BY DEF LinksTypeOK, ProposalRows, EdgesOf
  <2> QED
    BY <1>3, <2>1 DEF LinksTypeOK, ProposeUnlink
<1>4. ASSUME NEW p \in Proposals, CheckProposal(p)
      PROVE  LinksTypeOK'
  <2>1. [proposal EXCEPT ![p].status = "stale"] \in [Proposals -> ProposalRows]
    BY StatusType
  <2>2. CASE IsOutdated(p)
    BY <1>4, <2>1, <2>2 DEF LinksTypeOK, CheckProposal
  <2>3. CASE ~IsOutdated(p)
    BY <1>4, <2>3 DEF LinksTypeOK, CheckProposal
  <2> QED
    BY <2>2, <2>3
<1>5. ASSUME NEW p \in Proposals, ApplyProposal(p)
      PROVE  LinksTypeOK'
  <2>1. proposal' \in [Proposals -> ProposalRows]
    <3>1. proposal' = [proposal EXCEPT ![p].status = "applied"]
      BY <1>5 DEF ApplyProposal
    <3> QED
      BY <3>1, StatusType
  <2>2. planning' \in 0 .. MaxPlanning /\ edges' \subseteq Edges /\ planned' \subseteq LinkTasks
    BY <1>5, LinksAssumption DEF LinksTypeOK, ApplyProposal, WithoutEdges, Bump
  <2>3. link' \in [LinkIds -> {"none", "proposed", "active", "removed"}]
    BY <1>5 DEF LinksTypeOK, ApplyProposal
  <2>4. accepting' \subseteq Proposals
    BY <1>5 DEF LinksTypeOK, ApplyProposal, RequestEnds
  <2> QED
    BY <2>1, <2>2, <2>3, <2>4 DEF LinksTypeOK
<1>6. ASSUME NEW p \in Proposals, AcceptFails(p)
      PROVE  LinksTypeOK'
  BY <1>6 DEF LinksTypeOK, AcceptFails, RequestEnds
<1>7. ASSUME NEW p \in Proposals, RejectProposal(p)
      PROVE  LinksTypeOK'
  <2>1. [proposal EXCEPT ![p].status = "rejected"] \in [Proposals -> ProposalRows]
    BY StatusType
  <2> QED
    BY <1>7, <2>1 DEF LinksTypeOK, RejectProposal
<1>8. ASSUME OtherCommand
      PROVE  LinksTypeOK'
  BY <1>8, LinksAssumption DEF LinksTypeOK, OtherCommand, Bump
<1>9. ASSUME NEW t \in LinkTasks, PlanTask(t)
      PROVE  LinksTypeOK'
  BY <1>9 DEF LinksTypeOK, PlanTask
<1> QED
  BY <1>1, <1>2, <1>3, <1>4, <1>5, <1>6, <1>7, <1>8, <1>9 DEF LinksNext

\* The tables of the links keep their types; in particular the planning revision
\* stays within its bound and every edge leads from a task to a task.
THEOREM LinksTypes == LinksSpec => []LinksTypeOK
<1>1. LinksTypeOK /\ [LinksNext]_linkVars => LinksTypeOK'
  <2>1. CASE LinksNext
    BY <2>1, StepTypes
  <2>2. CASE UNCHANGED linkVars
    BY <2>2 DEF linkVars, LinksTypeOK
  <2> QED
    BY <2>1, <2>2
<1> QED
  BY <1>1, InitTypes, PTL DEF LinksSpec
-----------------------------------------------------------------------------
\* What a step does to links and edges, and what it does to proposals.

\* A link is proposed, confirmed with its edges, or removed with them; every other
\* step leaves links and edges alone.
LEMMA LinkSteps ==
  ASSUME LinksNext
  PROVE  \/ \E l \in LinkIds : \E new \in Candidates(l) : ProposeLink(l, new) \/ ConfirmLink(l, new)
         \/ \E p \in Proposals : ApplyProposal(p)
         \/ UNCHANGED <<link, edges>>
BY DEF LinksNext, ProposeUnlink, CheckProposal, AcceptFails, RejectProposal, OtherCommand, PlanTask

\* A proposal is made, or one changes its status from pending, or none changes.
LEMMA ProposalSteps ==
  ASSUME LinksTypeOK, LinksNext
  PROVE  \/ \E p \in Proposals, l \in LinkIds : ProposeUnlink(p, l)
         \/ \E p \in Proposals : \E s \in {"applied", "rejected", "stale"} :
              /\ proposal[p].status = "pending"
              /\ proposal' = [proposal EXCEPT ![p].status = s]
              /\ s = "applied" <=> ApplyProposal(p)
              /\ s # "applied" => UNCHANGED <<link, edges, planning>>
         \/ /\ UNCHANGED proposal
            /\ \A p \in Proposals : ~ApplyProposal(p)
<1>1. ASSUME NEW p \in Proposals, NEW s \in {"rejected", "stale"},
             proposal[p].status = "pending", proposal' = [proposal EXCEPT ![p].status = s]
      PROVE  ~ApplyProposal(p)
  <2>1. proposal'[p].status = s
    BY <1>1, StatusSet
  <2>2. ASSUME ApplyProposal(p)
        PROVE  proposal'[p].status = "applied"
    <3>1. proposal' = [proposal EXCEPT ![p].status = "applied"]
      BY <2>2 DEF ApplyProposal
    <3> QED
      BY <3>1, StatusSet
  <2> QED
    BY <2>1, <2>2
<1>2. ASSUME UNCHANGED proposal, NEW p \in Proposals
      PROVE  ~ApplyProposal(p)
  <2>1. ASSUME ApplyProposal(p)
        PROVE  proposal[p].status = "pending" /\ proposal'[p].status = "applied"
    <3>1. proposal' = [proposal EXCEPT ![p].status = "applied"]
      BY <2>1 DEF ApplyProposal
    <3>2. proposal'[p].status = "applied"
      BY <3>1, StatusSet
    <3> QED
      BY <2>1, <3>2 DEF ApplyProposal, Applicable
  <2> QED
    BY <1>2, <2>1
<1>3. ASSUME NEW p \in Proposals, CheckProposal(p), IsOutdated(p)
      PROVE  /\ proposal[p].status = "pending"
             /\ proposal' = [proposal EXCEPT ![p].status = "stale"]
             /\ UNCHANGED <<link, edges, planning>>
  BY <1>3 DEF CheckProposal, IsOutdated
<1>4. ASSUME NEW p \in Proposals, CheckProposal(p), ~IsOutdated(p)
      PROVE  UNCHANGED proposal
  BY <1>4 DEF CheckProposal
<1>5. ASSUME NEW p \in Proposals, RejectProposal(p)
      PROVE  /\ proposal[p].status = "pending"
             /\ proposal' = [proposal EXCEPT ![p].status = "rejected"]
             /\ UNCHANGED <<link, edges, planning>>
  BY <1>5 DEF RejectProposal
<1>6. ASSUME NEW p \in Proposals, ApplyProposal(p)
      PROVE  /\ proposal[p].status = "pending"
             /\ proposal' = [proposal EXCEPT ![p].status = "applied"]
  BY <1>6 DEF ApplyProposal, Applicable
<1>7. ASSUME NEW l \in LinkIds, NEW new \in Candidates(l), ProposeLink(l, new) \/ ConfirmLink(l, new)
      PROVE  UNCHANGED proposal
  BY <1>7 DEF ProposeLink, ConfirmLink
<1>8. ASSUME \/ \E p \in Proposals : AcceptFails(p)
             \/ OtherCommand
             \/ \E t \in LinkTasks : PlanTask(t)
      PROVE  UNCHANGED proposal
  BY <1>8 DEF AcceptFails, OtherCommand, PlanTask
<1>9. \/ \E p \in Proposals, l \in LinkIds : ProposeUnlink(p, l)
      \/ \E p \in Proposals : CheckProposal(p) \/ RejectProposal(p) \/ ApplyProposal(p)
      \/ UNCHANGED proposal
  BY <1>7, <1>8 DEF LinksNext
<1>10. CASE UNCHANGED proposal
  BY <1>2, <1>10
<1>11. CASE \E p \in Proposals : CheckProposal(p)
  <2>1. PICK p \in Proposals : CheckProposal(p)
    BY <1>11
  <2>2. CASE IsOutdated(p)
    BY <1>1, <1>3, <2>1, <2>2
  <2>3. CASE ~IsOutdated(p)
    BY <1>4, <1>10, <2>1, <2>3
  <2> QED
    BY <2>2, <2>3
<1>12. CASE \E p \in Proposals : RejectProposal(p)
  BY <1>1, <1>5, <1>12
<1>13. CASE \E p \in Proposals : ApplyProposal(p)
  BY <1>6, <1>13
<1> QED
  BY <1>9, <1>10, <1>11, <1>12, <1>13

-----------------------------------------------------------------------------
\* The invariant, one conjunct at a time.

LEMMA InitInv == LinksInit => LinksInv /\ DependenciesAreAcyclic /\ OneLinkPerPair
<1> SUFFICES ASSUME LinksInit
             PROVE  LinksInv /\ DependenciesAreAcyclic /\ OneLinkPerPair
  OBVIOUS
<1>1. \A p \in Proposals : proposal[p].status = "none"
  BY DEF LinksInit
<1>2. ProposalsAreReal /\ ProposalShowsWhatItRemoves
  BY <1>1 DEF ProposalsAreReal, ProposalShowsWhatItRemoves
<1>3. EdgesGoWithLinks
  BY DEF LinksInit, EdgesGoWithLinks, EdgesOf
<1>4. RemovedByOneProposal
  BY <1>1 DEF LinksInit, RemovedByOneProposal
<1>5. DependenciesAreAcyclic
  BY DEF LinksInit, DependenciesAreAcyclic, Arcs
<1>6. OneLinkPerPair
  BY DEF LinksInit, OneLinkPerPair
<1> QED
  BY InitTypes, <1>2, <1>3, <1>4, <1>5, <1>6 DEF LinksInv

LEMMA PlanningGrows ==
  ASSUME LinksTypeOK, LinksNext
  PROVE  planning' \in Nat /\ planning <= planning'
<1>1. planning \in Nat
  BY LinksAssumption DEF LinksTypeOK
<1>2. planning' = planning \/ planning' = planning + 1
  BY DEF LinksNext, ProposeLink, ConfirmLink, ProposeUnlink, CheckProposal, ApplyProposal,
         AcceptFails, RejectProposal, OtherCommand, PlanTask, Bump
<1> QED
  BY <1>1, <1>2

LEMMA StepProposals ==
  ASSUME LinksTypeOK, ProposalsAreReal, LinksNext
  PROVE  ProposalsAreReal'
<1>1. \A p \in Proposals : proposal[p].input \in Nat
  BY LinksAssumption DEF LinksTypeOK, ProposalRows
<1>2. planning \in Nat /\ planning' \in Nat /\ planning <= planning'
  BY PlanningGrows, LinksAssumption DEF LinksTypeOK
<1>3. ASSUME NEW q \in Proposals, NEW l \in LinkIds, ProposeUnlink(q, l)
      PROVE  ProposalsAreReal'
  <2>1. /\ proposal'[q] = [link |-> l, input |-> planning, shown |-> EdgesOf(l), status |-> "pending"]
        /\ \A p \in Proposals \ {q} : proposal'[p] = proposal[p]
        /\ planning' = planning
    BY <1>3 DEF ProposeUnlink, LinksTypeOK
  <2> QED
    BY <1>2, <2>1 DEF ProposalsAreReal
<1>4. ASSUME NEW q \in Proposals, NEW s \in {"applied", "rejected", "stale"},
             proposal[q].status = "pending", proposal' = [proposal EXCEPT ![q].status = s]
      PROVE  ProposalsAreReal'
  <2>1. /\ proposal'[q].link = proposal[q].link /\ proposal'[q].input = proposal[q].input
        /\ \A p \in Proposals \ {q} : proposal'[p] = proposal[p]
    BY <1>4, StatusSet
  <2> QED
    BY <1>1, <1>2, <1>4, <2>1 DEF ProposalsAreReal
<1>5. CASE UNCHANGED proposal
  BY <1>1, <1>2, <1>5 DEF ProposalsAreReal
<1> QED
  BY <1>3, <1>4, <1>5, ProposalSteps

LEMMA StepEdges ==
  ASSUME LinksTypeOK, ProposalsAreReal, EdgesGoWithLinks, LinksNext
  PROVE  EdgesGoWithLinks'
<1>1. ASSUME NEW l \in LinkIds, NEW new \in Candidates(l), ProposeLink(l, new)
      PROVE  EdgesGoWithLinks'
  <2>1. link[l] = "none" /\ link' = [link EXCEPT ![l] = "proposed"] /\ edges' = edges
    BY <1>1 DEF ProposeLink
  <2> QED
    BY <2>1 DEF LinksTypeOK, EdgesGoWithLinks, EdgesOf
<1>2. ASSUME NEW l \in LinkIds, NEW new \in Candidates(l), ConfirmLink(l, new)
      PROVE  EdgesGoWithLinks'
  <2>1. link' = [link EXCEPT ![l] = "active"] /\ edges' = edges \cup EdgesUnder(l, new)
    BY <1>2 DEF ConfirmLink
  <2>2. EdgesOf(l)' # {}
    BY <2>1, NewEdges DEF EdgesOf
  <2>3. \A m \in LinkIds \ {l} : EdgesOf(m)' = EdgesOf(m)
    BY <2>1, NewEdges DEF EdgesOf
  <2>4. \A e \in edges' : {GoalOf[e.pred], GoalOf[e.succ]} = PairOf[e.link]
    BY <2>1, NewEdges DEF EdgesGoWithLinks
  <2>5. \A m \in LinkIds : EdgesOf(m)' # {} <=> link'[m] = "active"
    BY <2>1, <2>2, <2>3 DEF LinksTypeOK, EdgesGoWithLinks
  <2> QED
    BY <2>4, <2>5 DEF EdgesGoWithLinks
<1>3. ASSUME NEW p \in Proposals, ApplyProposal(p)
      PROVE  EdgesGoWithLinks'
  <2>1. PICK l \in LinkIds : /\ link' = [link EXCEPT ![l] = "removed"]
                            /\ edges' = edges \ EdgesOf(l)
    BY <1>3 DEF ApplyProposal, Applicable, ProposalsAreReal, WithoutEdges
  <2>2. EdgesOf(l)' = {}
    BY <2>1 DEF EdgesOf
  <2>3. \A m \in LinkIds \ {l} : EdgesOf(m)' = EdgesOf(m)
    BY <2>1 DEF EdgesOf
  <2>4. \A m \in LinkIds : EdgesOf(m)' # {} <=> link'[m] = "active"
    BY <2>1, <2>2, <2>3 DEF LinksTypeOK, EdgesGoWithLinks
  <2> QED
    BY <2>1, <2>4 DEF EdgesGoWithLinks
<1>4. CASE UNCHANGED <<link, edges>>
  BY <1>4 DEF EdgesGoWithLinks, EdgesOf
<1> QED
  BY <1>1, <1>2, <1>3, <1>4, LinkSteps

LEMMA StepShown ==
  ASSUME LinksTypeOK, ProposalsAreReal, ProposalShowsWhatItRemoves, LinksNext
  PROVE  ProposalShowsWhatItRemoves'
<1>1. planning \in Nat /\ \A p \in Proposals : proposal[p].input \in Nat
  BY LinksAssumption DEF LinksTypeOK, ProposalRows
<1>2. ASSUME planning' = planning + 1,
             \A p \in Proposals : proposal'[p].status = "pending" => proposal'[p] = proposal[p]
      PROVE  ProposalShowsWhatItRemoves'
  BY <1>1, <1>2 DEF ProposalsAreReal, ProposalShowsWhatItRemoves
<1>3. ASSUME NEW l \in LinkIds, NEW new \in Candidates(l), ProposeLink(l, new)
      PROVE  ProposalShowsWhatItRemoves'
  <2>1. /\ link[l] = "none" /\ link' = [link EXCEPT ![l] = "proposed"]
        /\ edges' = edges /\ proposal' = proposal /\ planning' = planning
    BY <1>3 DEF ProposeLink
  <2> QED
    BY <2>1 DEF LinksTypeOK, ProposalsAreReal, ProposalShowsWhatItRemoves, EdgesOf
<1>4. ASSUME NEW l \in LinkIds, NEW new \in Candidates(l), ConfirmLink(l, new)
      PROVE  ProposalShowsWhatItRemoves'
  BY <1>2, <1>4 DEF ConfirmLink, Bump
<1>5. ASSUME NEW p \in Proposals, NEW l \in LinkIds, ProposeUnlink(p, l)
      PROVE  ProposalShowsWhatItRemoves'
  <2>1. /\ proposal'[p] = [link |-> l, input |-> planning, shown |-> EdgesOf(l), status |-> "pending"]
        /\ \A q \in Proposals \ {p} : proposal'[q] = proposal[q]
        /\ link[l] = "active" /\ link' = link /\ edges' = edges /\ planning' = planning
    BY <1>5 DEF ProposeUnlink, LinksTypeOK
  <2>2. /\ proposal'[p].link = l /\ proposal'[p].shown = EdgesOf(l)
    BY <2>1
  <2> QED
    BY <2>1, <2>2 DEF ProposalShowsWhatItRemoves, EdgesOf
<1>6. ASSUME NEW p \in Proposals, NEW s \in {"applied", "rejected", "stale"},
             proposal[p].status = "pending", proposal' = [proposal EXCEPT ![p].status = s],
             s = "applied" <=> ApplyProposal(p),
             s # "applied" => UNCHANGED <<link, edges, planning>>
      PROVE  ProposalShowsWhatItRemoves'
  <2>1. proposal'[p].status = s /\ \A q \in Proposals \ {p} : proposal'[q] = proposal[q]
    BY <1>6, StatusSet
  <2>2. \A q \in Proposals : proposal'[q].status = "pending" => proposal'[q] = proposal[q]
    BY <2>1
  <2>3. CASE s = "applied"
    BY <1>2, <1>6, <2>2, <2>3 DEF ApplyProposal, Bump
  <2>4. CASE s # "applied"
    BY <1>6, <2>2, <2>4 DEF ProposalShowsWhatItRemoves, EdgesOf
  <2> QED
    BY <2>3, <2>4
<1>7. CASE UNCHANGED <<link, edges, proposal>>
  <2>1. planning' = planning \/ planning' = planning + 1
    BY DEF LinksNext, ProposeLink, ConfirmLink, ProposeUnlink, CheckProposal, ApplyProposal,
           AcceptFails, RejectProposal, OtherCommand, PlanTask, Bump
  <2>2. CASE planning' = planning
    BY <1>7, <2>2 DEF ProposalShowsWhatItRemoves, EdgesOf
  <2> QED
    BY <1>2, <1>7, <2>1, <2>2
<1>8. CASE UNCHANGED proposal /\ \A p \in Proposals : ~ApplyProposal(p)
  BY <1>3, <1>4, <1>7, <1>8, LinkSteps
<1> QED
  BY <1>5, <1>6, <1>8, ProposalSteps

LEMMA StepRemoved ==
  ASSUME LinksTypeOK, ProposalsAreReal, RemovedByOneProposal, LinksNext
  PROVE  RemovedByOneProposal'
<1> DEFINE AppliedTo(p, l) == proposal[p].link = l /\ proposal[p].status = "applied"
\* The same without the sets.
<1>1. RemovedByOneProposal <=>
        \A l \in LinkIds :
          /\ link[l] = "removed" <=> \E p \in Proposals : AppliedTo(p, l)
          /\ \A p, q \in Proposals : AppliedTo(p, l) /\ AppliedTo(q, l) => p = q
  BY DEF RemovedByOneProposal
<1>2. RemovedByOneProposal' <=>
        \A l \in LinkIds :
          /\ link'[l] = "removed" <=> \E p \in Proposals : AppliedTo(p, l)'
          /\ \A p, q \in Proposals : AppliedTo(p, l)' /\ AppliedTo(q, l)' => p = q
  BY DEF RemovedByOneProposal
\* No step but the acceptance of a proposal removes a link or brings one back.
<1>3. ASSUME \A p \in Proposals : ~ApplyProposal(p)
      PROVE  \A l \in LinkIds : link'[l] = "removed" <=> link[l] = "removed"
  <2>1. CASE UNCHANGED <<link, edges>>
    BY <2>1
  <2>2. ASSUME NEW m \in LinkIds, NEW new \in Candidates(m), ProposeLink(m, new) \/ ConfirmLink(m, new)
        PROVE  \A l \in LinkIds : link'[l] = "removed" <=> link[l] = "removed"
    BY <2>2 DEF LinksTypeOK, ProposeLink, ConfirmLink
  <2> QED
    BY <1>3, <2>1, <2>2, LinkSteps
<1>4. ASSUME \A p \in Proposals : ~ApplyProposal(p),
             \A p \in Proposals, l \in LinkIds : AppliedTo(p, l)' <=> AppliedTo(p, l)
      PROVE  RemovedByOneProposal'
  BY <1>1, <1>2, <1>3, <1>4
<1>5. ASSUME NEW p \in Proposals, NEW m \in LinkIds, ProposeUnlink(p, m)
      PROVE  RemovedByOneProposal'
  <2>1. /\ proposal[p].status = "none"
        /\ proposal'[p] = [link |-> m, input |-> planning, shown |-> EdgesOf(m), status |-> "pending"]
        /\ \A q \in Proposals \ {p} : proposal'[q] = proposal[q]
        /\ link' = link
    BY <1>5 DEF ProposeUnlink, LinksTypeOK
  <2>2. proposal'[p].status = "pending"
    BY <2>1
  <2>3. \A q \in Proposals, l \in LinkIds : AppliedTo(q, l)' <=> AppliedTo(q, l)
    BY <2>1, <2>2
  <2> QED
    BY <1>1, <1>2, <2>1, <2>3
<1>6. ASSUME NEW p \in Proposals, ApplyProposal(p)
      PROVE  RemovedByOneProposal'
  <2>1. PICK m \in LinkIds : /\ proposal[p].link = m /\ proposal[p].status = "pending"
                            /\ link[m] = "active"
                            /\ link' = [link EXCEPT ![m] = "removed"]
                            /\ proposal' = [proposal EXCEPT ![p].status = "applied"]
    BY <1>6 DEF ApplyProposal, Applicable, ProposalsAreReal
  <2>2. /\ proposal'[p].link = m /\ proposal'[p].status = "applied"
        /\ \A q \in Proposals \ {p} : proposal'[q] = proposal[q]
    BY <2>1, StatusSet
  <2>3. \A q \in Proposals : ~AppliedTo(q, m)
    BY <1>1, <2>1
  <2>4. \A q \in Proposals : AppliedTo(q, m)' <=> q = p
    BY <2>2, <2>3
  <2>5. \A q \in Proposals, l \in LinkIds \ {m} : AppliedTo(q, l)' <=> AppliedTo(q, l)
    BY <2>1, <2>2
  <2>6. /\ link'[m] = "removed"
        /\ \A l \in LinkIds \ {m} : link'[l] = link[l]
    BY <2>1 DEF LinksTypeOK
  <2> QED
    BY <1>1, <1>2, <2>4, <2>5, <2>6
<1>7. ASSUME NEW p \in Proposals, NEW s \in {"applied", "rejected", "stale"},
             proposal[p].status = "pending", proposal' = [proposal EXCEPT ![p].status = s],
             s = "applied" <=> ApplyProposal(p),
             s # "applied" => UNCHANGED <<link, edges, planning>>
      PROVE  RemovedByOneProposal'
  <2>1. proposal'[p].status = s /\ \A q \in Proposals \ {p} : proposal'[q] = proposal[q]
    BY <1>7, StatusSet
  <2>2. CASE s = "applied"
    BY <1>6, <1>7, <2>2
  <2>3. CASE s # "applied"
    <3>1. \A q \in Proposals, l \in LinkIds : AppliedTo(q, l)' <=> AppliedTo(q, l)
      BY <1>7, <2>1, <2>3
    <3> QED
      BY <1>1, <1>2, <1>7, <2>3, <3>1
  <2> QED
    BY <2>2, <2>3
<1>8. CASE UNCHANGED proposal /\ \A p \in Proposals : ~ApplyProposal(p)
  BY <1>4, <1>8
<1> QED
  BY <1>5, <1>7, <1>8, ProposalSteps

LEMMA StepInv ==
  ASSUME LinksInv, LinksNext
  PROVE  LinksInv'
BY StepTypes, StepProposals, StepEdges, StepShown, StepRemoved DEF LinksInv

-----------------------------------------------------------------------------
\* The inductive invariant of Links.
THEOREM LinksInvariance == LinksSpec => []LinksInv
<1>1. LinksInv /\ [LinksNext]_linkVars => LinksInv'
  <2> SUFFICES ASSUME LinksInv, [LinksNext]_linkVars
               PROVE  LinksInv'
    OBVIOUS
  <2>1. CASE LinksNext
    BY <2>1, StepInv
  <2>2. CASE UNCHANGED linkVars
    <3>1. LinksTypeOK' /\ ProposalsAreReal'
      BY <2>2 DEF linkVars, LinksInv, LinksTypeOK, ProposalsAreReal
    <3>2. EdgesGoWithLinks' /\ ProposalShowsWhatItRemoves'
      BY <2>2 DEF linkVars, LinksInv, EdgesGoWithLinks, EdgesOf, ProposalShowsWhatItRemoves
    <3>3. RemovedByOneProposal'
      BY <2>2 DEF linkVars, LinksInv, RemovedByOneProposal
    <3> QED
      BY <3>1, <3>2, <3>3 DEF LinksInv
  <2> QED
    BY <2>1, <2>2
<1> QED
  BY <1>1, InitInv, PTL DEF LinksSpec

\* A link has edges exactly while it is active, and they join its two goals:
\* confirming a link and accepting its removal write both tables or neither.
THEOREM EdgesBelong == LinksSpec => []EdgesGoWithLinks
BY LinksInvariance, PTL DEF LinksInv

\* A proposal that can be accepted removes what it shows: whatever may change the
\* link or its edges advances the planning revision as well.
THEOREM ProposalsShow == LinksSpec => []ProposalShowsWhatItRemoves
BY LinksInvariance, PTL DEF LinksInv

\* A removed link was removed by one proposal, also when several requests accept
\* several proposals for it at the same time.
THEOREM RemovedOnce == LinksSpec => []RemovedByOneProposal
BY LinksInvariance, PTL DEF LinksInv

\* Two goals never have two links that are proposed or active.
THEOREM OneLink == LinksSpec => []OneLinkPerPair
<1>1. LinksInv /\ OneLinkPerPair /\ [LinksNext]_linkVars => OneLinkPerPair'
  <2> SUFFICES ASSUME LinksInv, OneLinkPerPair, [LinksNext]_linkVars
               PROVE  OneLinkPerPair'
    OBVIOUS
  <2>1. ASSUME NEW l \in LinkIds, NEW new \in Candidates(l), ProposeLink(l, new)
        PROVE  OneLinkPerPair'
    <3>1. link' = [link EXCEPT ![l] = "proposed"] /\ ~PairIsTaken(l)
      BY <2>1 DEF ProposeLink
    <3> QED
      BY <3>1 DEF LinksInv, LinksTypeOK, OneLinkPerPair, PairIsTaken
  <2>2. ASSUME NEW l \in LinkIds, NEW new \in Candidates(l), ConfirmLink(l, new)
        PROVE  OneLinkPerPair'
    <3>1. link[l] = "proposed" /\ link' = [link EXCEPT ![l] = "active"]
      BY <2>2 DEF ConfirmLink
    <3> QED
      BY <3>1 DEF LinksInv, LinksTypeOK, OneLinkPerPair
  <2>3. ASSUME NEW p \in Proposals, ApplyProposal(p)
        PROVE  OneLinkPerPair'
    <3>1. link' = [link EXCEPT ![proposal[p].link] = "removed"]
      BY <2>3 DEF ApplyProposal
    <3> QED
      BY <3>1 DEF LinksInv, LinksTypeOK, OneLinkPerPair
  <2>4. CASE UNCHANGED link
    BY <2>4 DEF OneLinkPerPair
  <2> QED
    BY <2>1, <2>2, <2>3, <2>4, LinkSteps DEF linkVars
<1> QED
  BY <1>1, InitInv, LinksInvariance, PTL DEF LinksSpec

\* The tasks of all goals never wait for each other in a circle, though a link is
\* checked against the edges there are when it is proposed, and confirmed later
\* with edges of its own.
THEOREM NoCycles == LinksSpec => []DependenciesAreAcyclic
<1>1. DependenciesAreAcyclic /\ [LinksNext]_linkVars => DependenciesAreAcyclic'
  <2> SUFFICES ASSUME DependenciesAreAcyclic, [LinksNext]_linkVars
               PROVE  DependenciesAreAcyclic'
    OBVIOUS
  <2>1. ASSUME edges' \subseteq edges
        PROVE  DependenciesAreAcyclic'
    <3>1. Arcs(edges') \subseteq Arcs(edges)
      BY <2>1 DEF Arcs
    <3> QED
      BY <3>1 DEF DependenciesAreAcyclic
  <2>2. ASSUME NEW l \in LinkIds, NEW new \in Candidates(l), ConfirmLink(l, new)
        PROVE  DependenciesAreAcyclic'
    <3>1. edges' = edges \cup EdgesUnder(l, new) /\ ~CycleExists(new)
      BY <2>2 DEF ConfirmLink
    <3>2. Arcs(edges') = Arcs(edges) \cup Arcs(EdgesUnder(l, new))
      BY <3>1 DEF Arcs
    <3>3. Arcs(edges') = Arcs(edges) \cup new
      BY <3>2, NewEdges
    <3> QED
      BY <3>1, <3>3 DEF DependenciesAreAcyclic, CycleExists
  <2>3. \A l \in LinkIds : \A new \in Candidates(l) : ProposeLink(l, new) => edges' \subseteq edges
    BY DEF ProposeLink
  <2>4. \A p \in Proposals : ApplyProposal(p) => edges' \subseteq edges
    BY DEF ApplyProposal, WithoutEdges
  <2> QED
    BY <2>1, <2>2, <2>3, <2>4, LinkSteps DEF linkVars
<1> QED
  BY <1>1, InitInv, PTL DEF LinksSpec
=============================================================================
