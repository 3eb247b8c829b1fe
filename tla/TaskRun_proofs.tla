---------------------------- MODULE TaskRun_proofs ----------------------------
(***************************************************************************)
(* Three results, each on top of the one before, for every policy and for  *)
(* every set of tasks:                                                     *)
(*                                                                         *)
(*   - AgentRuntime with any supervisor: its types, the bounds of a run,   *)
(*     that failures are recorded and findings grounded (IInv);            *)
(*   - AgentRuntime with the default supervisor: its retries, its report   *)
(*     and its fuzz step (DefaultInv);                                     *)
(*   - TaskRun: the composition implements Orchestrator, routes only along *)
(*     the lifecycle and completes only clean tasks (TaskInv).             *)
(***************************************************************************)
EXTENDS TaskRun, FiniteSetTheorems, TLAPS

-----------------------------------------------------------------------------
(* Counting routes in a history.                                           *)

LEMMA CountType ==
    ASSUME NEW S, NEW h \in Seq(S), NEW q
    PROVE  Count(h, q) \in Nat
<1>1. IsFiniteSet(1..Len(h))
  BY FS_Interval
<1>2. {i \in DOMAIN h : h[i] = q} \subseteq 1..Len(h)
  OBVIOUS
<1> QED
  BY <1>1, <1>2, FS_Subset, FS_CardinalityType DEF Count

\* One more route in the history counts for itself and for no other.
LEMMA CountAppend ==
    ASSUME NEW S, NEW h \in Seq(S), NEW r \in S, NEW q
    PROVE  Count(Append(h, r), q) = IF q = r THEN Count(h, q) + 1 ELSE Count(h, q)
<1> DEFINE at == {i \in DOMAIN h : h[i] = q}
           atNew == {i \in DOMAIN Append(h, r) : Append(h, r)[i] = q}
<1>1. IsFiniteSet(at)
  <2>1. IsFiniteSet(1..Len(h)) /\ at \subseteq 1..Len(h)
    BY FS_Interval
  <2> QED
    BY <2>1, FS_Subset
<1>2. CASE q = r
  <2>1. atNew = at \cup {Len(h) + 1} /\ Len(h) + 1 \notin at
    BY <1>2
  <2> QED
    BY <1>1, <1>2, <2>1, FS_AddElement DEF Count
<1>3. CASE q # r
  <2>1. atNew = at
    BY <1>3
  <2> QED
    BY <1>3, <2>1 DEF Count
<1> QED
  BY <1>2, <1>3

LEMMA InHistoryAppend ==
    ASSUME NEW S, NEW h \in Seq(S), NEW r \in S, NEW q
    PROVE  InHistory(q, Append(h, r)) <=> InHistory(q, h) \/ q = r
<1>1. ASSUME InHistory(q, h)
      PROVE  InHistory(q, Append(h, r))
  BY <1>1 DEF InHistory
<1>2. ASSUME q = r
      PROVE  InHistory(q, Append(h, r))
  <2>1. Len(h) + 1 \in DOMAIN Append(h, r) /\ Append(h, r)[Len(h) + 1] = r
    OBVIOUS
  <2> QED
    BY <1>2, <2>1 DEF InHistory
<1>3. ASSUME InHistory(q, Append(h, r)), q # r
      PROVE  InHistory(q, h)
  <2>1. PICK i \in DOMAIN Append(h, r) : Append(h, r)[i] = q
    BY <1>3 DEF InHistory
  <2>2. i \in DOMAIN h /\ h[i] = q
    BY <1>3, <2>1
  <2> QED
    BY <2>2 DEF InHistory
<1> QED
  BY <1>1, <1>2, <1>3

\* A route that is in no place of a history counts zero.
LEMMA CountAbsent ==
    ASSUME NEW S, NEW h \in Seq(S), NEW q, ~InHistory(q, h)
    PROVE  Count(h, q) = 0
<1>1. {i \in DOMAIN h : h[i] = q} = {}
  BY DEF InHistory
<1> QED
  BY <1>1, FS_EmptySet DEF Count

-----------------------------------------------------------------------------
(* What the supervisor node may settle on.                                 *)

\* The routes that may run next, after the history h.
Dispatchable(route, h) ==
    /\ route \in AgentRoutes
    /\ Len(h) < MaxAgentSteps
    /\ Len(h) = MaxAgentSteps - 1 => route = "report"
    /\ Count(h, route) < MaxRouteRepeats

Legal(decision, h) ==
    /\ decision \in RouteDecision
    /\ decision.route = "finish" \/ Dispatchable(decision.route, h)

LEMMA RoutedType ==
    ASSUME NEW q \in RequestedRoutes
    PROVE  /\ Routed(q) \in RouteDecision
           /\ Routed(q).route = q
           /\ ~Routed(q).fallback_used
BY DEF Routed, RouteDecision

LEMMA FallbackIsLegal ==
    ASSUME NEW h \in Seq(AgentRoutes), NEW failed \in BOOLEAN, NEW limit \in BOOLEAN
    PROVE  Legal(Fallback(h, failed, limit), h) /\ Fallback(h, failed, limit).fallback_used
<1> DEFINE d == Fallback(h, failed, limit)
           r == IF InHistory("report", h) \/ OutOfSteps(h) THEN "finish" ELSE "report"
<1>1. r \in RequestedRoutes
  BY DEF RequestedRoutes, AgentRoute, AgentRoutes
<1>2. /\ Routed(r) \in RouteDecision
      /\ Routed(r).route = r
  BY <1>1, RoutedType
<1>3. d = [Routed(r) EXCEPT !.fallback_used = TRUE, !.execution_failed = failed,
                            !.step_limit_reached = limit]
  BY DEF Fallback
<1> HIDE DEF d, r
<1>4. d \in RouteDecision /\ d.route = r /\ d.fallback_used
  BY <1>1, <1>2, <1>3 DEF RouteDecision
<1>5. CASE InHistory("report", h) \/ OutOfSteps(h)
  BY <1>4, <1>5 DEF Legal, d, r
<1>6. CASE ~(InHistory("report", h) \/ OutOfSteps(h))
  <2>1. Count(h, "report") = 0
    BY <1>6, CountAbsent
  <2>2. Len(h) < MaxAgentSteps
    BY <1>6, RuntimePolicyAssumption DEF OutOfSteps
  <2>3. Dispatchable("report", h)
    BY <2>1, <2>2, RuntimePolicyAssumption DEF Dispatchable, AgentRoutes
  <2> QED
    BY <1>4, <1>6, <2>3 DEF Legal, d, r
<1> QED
  BY <1>5, <1>6

\* The router never lets through a route that may not run.
LEMMA ResolveIsLegal ==
    ASSUME NEW h \in Seq(AgentRoutes), NEW q \in RequestedRoutes
    PROVE  /\ Legal(Resolve(q, h), h)
           /\ Resolve(q, h).route = q /\ ~Resolve(q, h).fallback_used =>
                q = "finish" \/ Dispatchable(q, h)
<1> DEFINE d == Resolve(q, h)
           limit == OutOfSteps(h)
           repeated == RepeatLimit(q, h)
<1>0. limit \in BOOLEAN /\ (limit \/ ~repeated) \in BOOLEAN
  BY DEF OutOfSteps, RepeatLimit
<1>1. CASE q \notin AgentRoute
  <2>1. d = Fallback(h, TRUE, FALSE)
    BY <1>1 DEF Resolve
  <2> QED
    BY <2>1, FallbackIsLegal
<1>2. CASE q = "finish"
  <2>1. d = Routed("finish")
    BY <1>2 DEF Resolve, AgentRoute
  <2> QED
    BY <1>2, <2>1, RoutedType DEF Legal
<1>3. CASE /\ q \in AgentRoute /\ q # "finish"
           /\ limit \/ repeated \/ ReservedForReport(q, h)
  <2>1. d = Fallback(h, FALSE, limit \/ ~repeated)
    BY <1>3 DEF Resolve
  <2> QED
    BY <1>0, <2>1, FallbackIsLegal
<1>4. CASE /\ q \in AgentRoute /\ q # "finish"
           /\ ~(limit \/ repeated \/ ReservedForReport(q, h))
  <2>1. d = Routed(q)
    BY <1>4 DEF Resolve
  <2>2. Count(h, q) \in Nat
    BY CountType
  <2>3. Len(h) < MaxAgentSteps /\ Count(h, q) < MaxRouteRepeats
    BY <1>4, <2>2, RuntimePolicyAssumption DEF OutOfSteps, RepeatLimit
  <2>4. Len(h) = MaxAgentSteps - 1 => q = "report"
    BY <1>4 DEF ReservedForReport
  <2>5. Dispatchable(q, h)
    BY <1>4, <2>3, <2>4 DEF Dispatchable, AgentRoute
  <2> QED
    BY <2>1, <2>5, RoutedType DEF Legal
<1> QED
  BY <1>1, <1>2, <1>3, <1>4

\* Whatever is proposed, what the node settles on may run.
LEMMA SettleIsLegal ==
    ASSUME NEW p \in RouteDecision, route_history \in Seq(AgentRoutes)
    PROVE  Legal(Settle(p), route_history)
<1>1. p.route \in RequestedRoutes
  BY DEF RouteDecision
<1>2. CASE /\ Resolve(p.route, route_history).route = p.route
           /\ ~Resolve(p.route, route_history).fallback_used
  <2>1. p.route = "finish" \/ Dispatchable(p.route, route_history)
    BY <1>1, <1>2, ResolveIsLegal
  <2>2. Settle(p) = p
    BY <1>2 DEF Settle
  <2> QED
    BY <2>1, <2>2 DEF Legal
<1>3. CASE ~(/\ Resolve(p.route, route_history).route = p.route
             /\ ~Resolve(p.route, route_history).fallback_used)
  <2>1. Settle(p) = Resolve(p.route, route_history)
    BY <1>3 DEF Settle
  <2> QED
    BY <1>1, <2>1, ResolveIsLegal
<1> QED
  BY <1>2, <1>3

\* The default supervisor returns decisions.
LEMMA DecideType ==
    ASSUME NEW current \in AgentRoutes \cup {"none"}, NEW h, NEW found, NEW plan,
           NEW more, NEW attempts
    PROVE  Decide(task, current, h, found, plan, more, attempts) \in RouteDecision
<1> DEFINE d == Decide(task, current, h, found, plan, more, attempts)
           analysis == AnalysisRoute(task)
<1>1. AgentRoute \subseteq RequestedRoutes
  BY DEF RequestedRoutes
<1>2. analysis \in AgentRoute
  BY DEF AnalysisRoute, AgentRoute, AgentRoutes, DiscoveryRoutes, AnalysisRoutes
<1>3. /\ "planner" \in AgentRoute /\ "report" \in AgentRoute /\ "fuzz" \in AgentRoute
      /\ "verification" \in AgentRoute /\ "reviewer" \in AgentRoute
      /\ "finish" \in AgentRoute
  BY DEF AgentRoute, AgentRoutes, DiscoveryRoutes
<1>4. Routed(analysis) \in RouteDecision
  BY <1>1, <1>2, RoutedType
<1>5. [Routed(analysis) EXCEPT !.retry = TRUE] \in RouteDecision
  BY <1>4 DEF RouteDecision
<1>6. [Routed("reviewer") EXCEPT !.retry_exhausted = TRUE] \in RouteDecision
  <2>1. Routed("reviewer") \in RouteDecision
    BY <1>1, <1>3, RoutedType
  <2> QED
    BY <2>1 DEF RouteDecision
<1>7. [Routed("report") EXCEPT !.fallback_used = TRUE] \in RouteDecision
  <2>1. Routed("report") \in RouteDecision
    BY <1>1, <1>3, RoutedType
  <2> QED
    BY <2>1 DEF RouteDecision
<1>8. AfterVerification(task, more, attempts) \in RouteDecision
  <2>1. Routed("reviewer") \in RouteDecision
    BY <1>1, <1>3, RoutedType
  <2> QED
    BY <1>5, <1>6, <2>1 DEF AfterVerification
<1>9. \A q \in AgentRoute : Routed(q) \in RouteDecision
  BY <1>1, RoutedType
<1> HIDE DEF analysis
<1>10. CASE current \in AnalysisRoutes
  <2>1. d = Routed(IF ~found THEN "report"
                   ELSE IF FuzzRequested(task, plan) /\ ~InHistory("fuzz", h)
                   THEN "fuzz" ELSE "verification")
    BY <1>10 DEF Decide, AnalysisRoutes
  <2> QED
    BY <1>3, <1>9, <2>1
<1>11. CASE current \notin AnalysisRoutes
  <2>1. d \in {Routed("planner"), Routed(analysis), Routed("verification"),
               AfterVerification(task, more, attempts), Routed("report"),
               Routed("finish"), [Routed("report") EXCEPT !.fallback_used = TRUE]}
    BY <1>11 DEF Decide, analysis
  <2> QED
    BY <1>3, <1>4, <1>7, <1>8, <1>9, <2>1
<1> QED
  BY <1>10, <1>11

\* So is everything the node starts from.
LEMMA ProposalsType ==
    ASSUME TypeOK, NEW p \in Proposals
    PROVE  p \in RouteDecision /\ EnforceRetries(p) \in RouteDecision
<1>1. ForcedDecision \in RouteDecision
  <2>1. Routed(IF InHistory("report", route_history) THEN "finish" ELSE "report")
          \in RouteDecision
    BY RoutedType DEF RequestedRoutes, AgentRoute, AgentRoutes
  <2> QED
    BY <2>1 DEF ForcedDecision, RouteDecision
<1>2. Decide(task, current_agent, route_history, findings # <<>>, planned, requested,
             metadata.analysis_retries) \in RouteDecision
  BY DecideType DEF TypeOK
<1>3. p \in RouteDecision
  BY <1>1, <1>2, RuntimeAssumption DEF Proposals
<1>4. [Routed("reviewer") EXCEPT !.retry_exhausted = TRUE] \in RouteDecision
  <2>1. Routed("reviewer") \in RouteDecision
    BY RoutedType DEF RequestedRoutes, AgentRoute, AgentRoutes
  <2> QED
    BY <2>1 DEF RouteDecision
<1> QED
  BY <1>3, <1>4 DEF EnforceRetries

-----------------------------------------------------------------------------
(* The inductive invariant: what the graph position says about the history.*)

Metadata ==
    [force_fallback: BOOLEAN, fallback_used: BOOLEAN,
     execution_failed: BOOLEAN, step_limit_reached: BOOLEAN,
     retry_exhausted: BOOLEAN, analysis_retries: Nat,
     last_agent_error: AgentRoutes \cup {"none"}]

\* The metadata m after a decision.
Recorded(m, fallback, failed, limit, exhausted, retries) ==
    [m EXCEPT !.force_fallback = FALSE, !.fallback_used = fallback,
              !.execution_failed = failed, !.step_limit_reached = limit,
              !.retry_exhausted = exhausted, !.analysis_retries = retries]

LEMMA RecordedType ==
    ASSUME NEW m \in Metadata, NEW fallback \in BOOLEAN, NEW failed \in BOOLEAN,
           NEW limit \in BOOLEAN, NEW exhausted \in BOOLEAN, NEW retries \in Nat
    PROVE  /\ Recorded(m, fallback, failed, limit, exhausted, retries) \in Metadata
           /\ Recorded(m, fallback, failed, limit, exhausted, retries).execution_failed
                = failed
           /\ Recorded(m, fallback, failed, limit, exhausted, retries).analysis_retries
                = retries
           /\ Recorded(m, fallback, failed, limit, exhausted, retries).fallback_used
                = fallback
           /\ ~Recorded(m, fallback, failed, limit, exhausted, retries).force_fallback
BY DEF Metadata, Recorded

\* The two halves of TypeOK: the runtime state and the analysis context.
StateTypeOK ==
    /\ task \in TaskAttributes
    /\ pc \in {"supervise", "dispatch", "running", "ended", "raised"}
    /\ supersteps \in Nat
    /\ current_agent \in AgentRoutes \cup {"none"}
    /\ next_agent \in AgentRoute \cup {"none"}
    /\ step_count \in Nat
    /\ route_history \in Seq(AgentRoutes)
    /\ completed_agents \in Seq(AgentRoutes)
    /\ metadata \in Metadata

ContextTypeOK ==
    /\ findings \in Seq(Findings)
    /\ evidence \subseteq Ids
    /\ DOMAIN verifications \subseteq Ids
    /\ \A id \in DOMAIN verifications : verifications[id] \in Statuses
    /\ reports \in Seq(Seq(Findings))
    /\ planned \in BOOLEAN
    /\ requested \in BOOLEAN
    /\ review \in {"none", "passed", "notes"}

LEMMA TypeOKSplits == TypeOK <=> StateTypeOK /\ ContextTypeOK
BY DEF TypeOK, StateTypeOK, ContextTypeOK, Metadata

\* Each agent costs two nodes, and the last slot is the report's.
Progress ==
    /\ step_count = Len(route_history)
    /\ Len(route_history) <= MaxAgentSteps
    /\ Len(route_history) = MaxAgentSteps => InHistory("report", route_history)
    /\ supersteps <= 2 * Len(route_history) + 2
    /\ pc = "supervise" => supersteps <= 2 * Len(route_history)
    /\ pc = "dispatch" => supersteps <= 2 * Len(route_history) + 1

\* What waits to run, or is running, is a route the router let through.
Pending == pc \in {"dispatch", "running"} => Dispatchable(next_agent, route_history)

\* What holds of the findings.
Sound == FindingsGrounded /\ StatusesComeFromVerification

IInv ==
    /\ TypeOK
    /\ Progress
    /\ Pending
    /\ RepeatsBounded
    /\ RetryBudget
    /\ FailuresRecorded
    /\ Sound

\* The history g is the history h, or h with more routes after it.
Extends(g, h) == \A n \in DOMAIN h : n \in DOMAIN g /\ g[n] = h[n]

\* A finding that was grounded stays so while evidence and history only grow.
Grounded(f, held, history) ==
    /\ f.evidence_ids # {}
    /\ f.evidence_ids \subseteq held
    /\ f.status # "candidate" =>
        \E n \in DOMAIN history : history[n] = "verification" /\ <<n, 0>> \in f.evidence_ids

LEMMA GroundedStays ==
    ASSUME NEW f, NEW held, NEW more, held \subseteq more,
           NEW h, NEW g, Extends(g, h), Grounded(f, held, h)
    PROVE  Grounded(f, more, g)
BY DEF Grounded, Extends

LEMMA AllGrounded ==
    FindingsGrounded <=>
        \A k \in DOMAIN findings : Grounded(findings[k], evidence, route_history)
BY DEF FindingsGrounded, Grounded

\* A step that touches neither findings nor verifications keeps them sound.
LEMMA UntouchedStaysSound ==
    ASSUME Sound, findings' = findings, verifications' = verifications,
           evidence \subseteq evidence', Extends(route_history', route_history)
    PROVE  Sound'
<1>1. FindingsGrounded'
  <2>1. ASSUME NEW k \in DOMAIN findings
        PROVE  Grounded(findings[k], evidence', route_history')
    BY GroundedStays, AllGrounded DEF Sound
  <2> QED
    BY <2>1 DEF FindingsGrounded, Grounded
<1>2. StatusesComeFromVerification'
  BY DEF Sound, StatusesComeFromVerification
<1> QED
  BY <1>1, <1>2 DEF Sound

LEMMA InitEstablishes == Init => IInv
<1> SUFFICES ASSUME Init PROVE IInv
  OBVIOUS
<1>1. StateTypeOK
  BY RuntimeAssumption DEF Init, StateTypeOK, NoMetadata, Metadata
<1>2. ContextTypeOK
  <2>1. findings \in Seq(Findings) /\ reports \in Seq(Seq(Findings))
    BY DEF Init
  <2>2. DOMAIN verifications = {} /\ evidence = {}
    BY DEF Init
  <2> QED
    BY <2>1, <2>2 DEF Init, ContextTypeOK
<1>3. Progress
  BY RuntimePolicyAssumption DEF Init, Progress
<1>4. Pending
  BY DEF Init, Pending
<1>5. RepeatsBounded
  <2> SUFFICES ASSUME NEW r \in AgentRoutes PROVE Count(route_history, r) <= MaxRouteRepeats
    BY DEF RepeatsBounded
  <2>1. route_history \in Seq(AgentRoutes) /\ ~InHistory(r, route_history)
    BY DEF Init, InHistory
  <2> QED
    BY <2>1, CountAbsent, RuntimePolicyAssumption
<1>6. RetryBudget
  BY RuntimePolicyAssumption DEF Init, RetryBudget, NoMetadata
<1>7. FailuresRecorded
  BY DEF Init, FailuresRecorded
<1>8. Sound
  BY DEF Init, Sound, FindingsGrounded, StatusesComeFromVerification
<1> QED
  BY <1>1, <1>2, <1>3, <1>4, <1>5, <1>6, <1>7, <1>8, TypeOKSplits DEF IInv

\* A step of the supervisor, whoever the supervisor is.
LEMMA SuperviseKeeps == IInv /\ Supervise => IInv'
<1> SUFFICES ASSUME IInv, Supervise PROVE IInv'
  OBVIOUS
<1>0. TypeOK /\ StateTypeOK /\ ContextTypeOK
  BY TypeOKSplits DEF IInv
<1>1. PICK p \in Proposals :
        /\ metadata' = RecordDecision(EnforceRetries(p), Settle(EnforceRetries(p)))
        /\ next_agent' = Settle(EnforceRetries(p)).route
        /\ pc' = IF Settle(EnforceRetries(p)).route = "finish" THEN "ended" ELSE "dispatch"
  BY DEF Supervise
<1> DEFINE proposed == EnforceRetries(p)
           decision == Settle(proposed)
<1>2. p \in RouteDecision /\ proposed \in RouteDecision
  BY <1>0, ProposalsType
<1>3. Legal(decision, route_history)
  BY <1>0, <1>2, SettleIsLegal DEF StateTypeOK
<1>4. metadata' = RecordDecision(proposed, decision) /\ next_agent' = decision.route
      /\ pc' = IF decision.route = "finish" THEN "ended" ELSE "dispatch"
  BY <1>1
<1>5. decision \in RouteDecision
  BY <1>3 DEF Legal
<1> HIDE DEF decision
<1>6. RetryExecuted(proposed, decision) =>
        metadata.analysis_retries < MaxAnalysisRetries
  <2> SUFFICES ASSUME RetryExecuted(proposed, decision)
               PROVE  metadata.analysis_retries < MaxAnalysisRetries
    OBVIOUS
  <2>1. RetryRequest(proposed)
    BY DEF RetryExecuted
  <2>2. proposed.retry
    BY <2>1 DEF RetryRequest
  <2>3. ASSUME metadata.analysis_retries >= MaxAnalysisRetries, RetryRequest(p)
        PROVE  FALSE
    <3>1. proposed = [Routed("reviewer") EXCEPT !.retry_exhausted = TRUE]
      BY <2>3 DEF EnforceRetries
    <3>2. ~proposed.retry
      BY <3>1 DEF Routed
    <3> QED
      BY <2>2, <3>2
  <2>4. ASSUME ~RetryRequest(p) PROVE FALSE
    <3>1. proposed = p
      BY <2>4 DEF EnforceRetries
    <3> QED
      BY <2>1, <2>4, <3>1
  <2> QED
    BY <1>0, <2>3, <2>4, RuntimePolicyAssumption DEF StateTypeOK, Metadata
<1> HIDE DEF proposed
<1>7. /\ metadata' \in Metadata
      /\ metadata.execution_failed => metadata'.execution_failed
      /\ metadata'.analysis_retries =
            IF RetryExecuted(proposed, decision) THEN metadata.analysis_retries + 1
            ELSE metadata.analysis_retries
  <2>1. /\ metadata \in Metadata
        /\ decision.fallback_used \in BOOLEAN /\ decision.execution_failed \in BOOLEAN
        /\ decision.step_limit_reached \in BOOLEAN /\ proposed.retry_exhausted \in BOOLEAN
    BY <1>0, <1>2, <1>5 DEF StateTypeOK, RouteDecision, Metadata
  <2> DEFINE fallback == metadata.fallback_used \/ decision.fallback_used
             failed == metadata.execution_failed \/ decision.execution_failed
             limit == metadata.step_limit_reached \/ decision.step_limit_reached
             exhausted == metadata.retry_exhausted \/ proposed.retry_exhausted
             retries == IF RetryExecuted(proposed, decision)
                        THEN metadata.analysis_retries + 1
                        ELSE metadata.analysis_retries
  <2>2. metadata' = Recorded(metadata, fallback, failed, limit, exhausted, retries)
    BY <1>4 DEF RecordDecision, Recorded
  <2>3. /\ fallback \in BOOLEAN /\ failed \in BOOLEAN /\ limit \in BOOLEAN
        /\ exhausted \in BOOLEAN
    OBVIOUS
  <2>4. retries \in Nat
    BY <2>1 DEF Metadata
  <2>5. metadata.execution_failed => failed
    OBVIOUS
  <2> HIDE DEF fallback, failed, limit, exhausted, retries
  <2>6. /\ metadata' \in Metadata
        /\ metadata'.execution_failed = failed
        /\ metadata'.analysis_retries = retries
    <3>1. Recorded(metadata, fallback, failed, limit, exhausted, retries) \in Metadata
      BY <2>1, <2>3, <2>4, RecordedType
    <3>2. Recorded(metadata, fallback, failed, limit, exhausted, retries).execution_failed
            = failed
      BY <2>1, <2>3, <2>4, RecordedType
    <3>3. Recorded(metadata, fallback, failed, limit, exhausted, retries).analysis_retries
            = retries
      BY <2>1, <2>3, <2>4, RecordedType
    <3> QED
      BY <2>2, <3>1, <3>2, <3>3
  <2> QED
    BY <2>5, <2>6 DEF retries
<1>8. next_agent' \in AgentRoute
  BY <1>3, <1>4 DEF Legal, Dispatchable, AgentRoute
<1>9. /\ pc = "supervise" /\ supersteps' = supersteps + 1
      /\ UNCHANGED <<task, current_agent, step_count, route_history, completed_agents>>
      /\ UNCHANGED <<findings, evidence, verifications, reports, planned, requested,
                     review>>
  BY DEF Supervise, context
<1>10. StateTypeOK'
  BY <1>0, <1>4, <1>7, <1>8, <1>9 DEF StateTypeOK
<1>11. ContextTypeOK'
  BY <1>0, <1>9 DEF ContextTypeOK
<1>12. Progress'
  BY <1>0, <1>4, <1>9 DEF IInv, Progress, StateTypeOK, InHistory
<1>13. Pending'
  BY <1>3, <1>4, <1>9 DEF Pending, Legal, Dispatchable
<1>14. RepeatsBounded'
  BY <1>9 DEF IInv, RepeatsBounded, Count
<1>15. RetryBudget'
  BY <1>0, <1>6, <1>7, RuntimePolicyAssumption DEF IInv, RetryBudget, StateTypeOK, Metadata
<1>16. FailuresRecorded'
  BY <1>7, <1>9 DEF IInv, FailuresRecorded
<1>17. TypeOK'
  BY <1>10, <1>11 DEF TypeOK, StateTypeOK, ContextTypeOK, Metadata
<1>18. Sound'
  BY <1>9, UntouchedStaysSound DEF IInv, Extends
<1> QED
  BY <1>12, <1>13, <1>14, <1>15, <1>16, <1>17, <1>18 DEF IInv

\* What every agent that returns leaves behind, whatever its result.
LEMMA AgentLeavesKeeps ==
    ASSUME IInv, AgentLeaves
    PROVE  /\ next_agent \in AgentRoutes
           /\ task' \in TaskAttributes
           /\ pc' \in {"supervise", "dispatch", "running", "ended", "raised"}
           /\ supersteps' \in Nat
           /\ current_agent' \in AgentRoutes \cup {"none"}
           /\ next_agent' \in AgentRoute \cup {"none"}
           /\ step_count' \in Nat
           /\ route_history' \in Seq(AgentRoutes)
           /\ Len(route_history') = Len(route_history) + 1
           /\ Extends(route_history', route_history)
           /\ route_history'[step_count + 1] = next_agent
           /\ Progress' /\ Pending' /\ RepeatsBounded'
<1>1. StateTypeOK /\ Progress /\ Pending /\ RepeatsBounded
  BY TypeOKSplits DEF IInv
<1>2. Dispatchable(next_agent, route_history)
  BY <1>1 DEF AgentLeaves, Pending
<1>3. next_agent \in AgentRoutes
  BY <1>2 DEF Dispatchable
<1>4. /\ pc = "running" /\ pc' = "supervise"
      /\ route_history' = Append(route_history, next_agent)
      /\ step_count' = step_count + 1
      /\ supersteps' = supersteps
  BY DEF AgentLeaves
<1>5. route_history' \in Seq(AgentRoutes) /\ Len(route_history') = Len(route_history) + 1
  BY <1>1, <1>3, <1>4 DEF StateTypeOK
<1>6. Len(route_history) + 1 = MaxAgentSteps => InHistory("report", route_history')
  <2> SUFFICES ASSUME Len(route_history) + 1 = MaxAgentSteps
               PROVE  InHistory("report", route_history')
    OBVIOUS
  <2>1. Len(route_history) = MaxAgentSteps - 1
    BY <1>1 DEF StateTypeOK
  <2>2. next_agent = "report"
    BY <1>2, <2>1 DEF Dispatchable
  <2> QED
    BY <1>1, <1>3, <1>4, <2>2, InHistoryAppend DEF StateTypeOK
<1>7. Len(route_history) + 1 <= MaxAgentSteps
  BY <1>1, <1>2, RuntimePolicyAssumption DEF Dispatchable, StateTypeOK
<1>8. Progress'
  BY <1>1, <1>4, <1>5, <1>6, <1>7 DEF Progress, StateTypeOK
<1>9. Pending'
  BY <1>4 DEF Pending
<1>10. RepeatsBounded'
  <2> SUFFICES ASSUME NEW r \in AgentRoutes
               PROVE  Count(route_history', r) <= MaxRouteRepeats
    BY DEF RepeatsBounded
  <2>1. /\ Count(route_history, r) \in Nat
        /\ Count(route_history, r) <= MaxRouteRepeats
        /\ r = next_agent => Count(route_history, r) < MaxRouteRepeats
    BY <1>1, <1>2, CountType DEF RepeatsBounded, Dispatchable, StateTypeOK
  <2>2. Count(route_history', r) =
          IF r = next_agent THEN Count(route_history, r) + 1 ELSE Count(route_history, r)
    BY <1>1, <1>3, <1>4, CountAppend DEF StateTypeOK
  <2> QED
    BY <2>1, <2>2, RuntimePolicyAssumption
<1>11. /\ task' \in TaskAttributes /\ supersteps' \in Nat /\ step_count' \in Nat
       /\ current_agent' \in AgentRoutes \cup {"none"}
       /\ next_agent' \in AgentRoute \cup {"none"}
       /\ pc' \in {"supervise", "dispatch", "running", "ended", "raised"}
  BY <1>1, <1>3 DEF StateTypeOK, AgentLeaves
<1>12. Extends(route_history', route_history)
  BY <1>1, <1>3, <1>4 DEF Extends, StateTypeOK
<1>13. route_history'[step_count + 1] = next_agent
  BY <1>1, <1>3, <1>4 DEF Progress, StateTypeOK
<1> QED
  BY <1>3, <1>5, <1>8, <1>9, <1>10, <1>11, <1>12, <1>13

\* An agent that succeeds: everything but the analysis context.
LEMMA AgentSucceedsKeeps ==
    ASSUME IInv, NEW routes, AgentSucceeds(routes)
    PROVE  /\ StateTypeOK' /\ Progress' /\ Pending' /\ RepeatsBounded'
           /\ RetryBudget' /\ FailuresRecorded'
<1>1. AgentLeaves /\ metadata' = metadata
      /\ completed_agents' = Append(completed_agents, next_agent)
  BY DEF AgentSucceeds
<1>2. StateTypeOK /\ RetryBudget /\ FailuresRecorded
  BY TypeOKSplits DEF IInv
<1>3. next_agent \in AgentRoutes
  BY <1>1, AgentLeavesKeeps
<1>4. /\ completed_agents' \in Seq(AgentRoutes)
      /\ Len(completed_agents') = Len(completed_agents) + 1
  BY <1>1, <1>2, <1>3 DEF StateTypeOK
<1>5. StateTypeOK'
  BY <1>1, <1>2, <1>4, AgentLeavesKeeps DEF StateTypeOK
<1>6. RetryBudget'
  BY <1>1, <1>2 DEF RetryBudget
<1>7. FailuresRecorded'
  <2>1. Len(route_history') = Len(route_history) + 1
    BY <1>1, AgentLeavesKeeps
  <2> QED
    BY <1>1, <1>2, <1>4, <2>1 DEF FailuresRecorded, StateTypeOK
<1> QED
  BY <1>1, <1>5, <1>6, <1>7, AgentLeavesKeeps

LEMMA AgentFailsKeeps == IInv /\ AgentFails => IInv'
<1> SUFFICES ASSUME IInv, AgentFails PROVE IInv'
  OBVIOUS
<1>1. AgentLeaves /\ metadata' = FailureMetadata
      /\ UNCHANGED completed_agents
      /\ UNCHANGED <<findings, evidence, verifications, reports, planned, requested,
                     review>>
  BY DEF AgentFails, context
<1>2. StateTypeOK /\ ContextTypeOK /\ RetryBudget
  BY TypeOKSplits DEF IInv
<1>3. next_agent \in AgentRoutes
  BY <1>1, AgentLeavesKeeps
<1>4. /\ metadata' \in Metadata
      /\ metadata'.execution_failed
      /\ metadata'.analysis_retries = metadata.analysis_retries
  BY <1>1, <1>2, <1>3 DEF FailureMetadata, Metadata, StateTypeOK
<1>5. StateTypeOK'
  BY <1>1, <1>2, <1>4, AgentLeavesKeeps DEF StateTypeOK
<1>6. ContextTypeOK'
  BY <1>1, <1>2 DEF ContextTypeOK
<1>7. RetryBudget' /\ FailuresRecorded'
  BY <1>2, <1>4 DEF RetryBudget, FailuresRecorded
<1>8. TypeOK'
  BY <1>5, <1>6 DEF TypeOK, StateTypeOK, ContextTypeOK, Metadata
<1>9. Progress' /\ Pending' /\ RepeatsBounded'
  BY <1>1, AgentLeavesKeeps
<1>10. Sound'
  BY <1>1, AgentLeavesKeeps, UntouchedStaysSound DEF IInv
<1> QED
  BY <1>7, <1>8, <1>9, <1>10 DEF IInv

-----------------------------------------------------------------------------
(* What the agents write into the context.                                 *)

LEMMA NewIdType ==
    ASSUME step_count \in Nat, NEW k \in Nat
    PROVE  NewId(k) \in Ids /\ NewId(k)[1] = step_count + 1 /\ NewId(k)[2] = k
BY DEF NewId, Ids

LEMMA AuditedType ==
    ASSUME step_count \in Nat, NEW n \in Nat, NEW audit \in [1..n -> Candidates]
    PROVE  /\ Audited(audit).findings \in Seq(Findings)
           /\ Audited(audit).evidence \subseteq Ids
<1> DEFINE f(k) == [id |-> audit[k].id, status |-> audit[k].status,
                    evidence_ids |->
                        {NewId(k)} \cup (IF audit[k].stray THEN {Dangling} ELSE {}),
                    sound |-> audit[k].sound]
           seq == [k \in DOMAIN audit |-> f(k)]
<1>1. ASSUME NEW k \in 1..n
      PROVE  f(k) \in Findings
  <2>1. NewId(k) \in Ids /\ Dangling \in Ids
    BY NewIdType DEF Dangling, Ids
  <2>2. audit[k] \in [id: Nat \X Nat, status: Statuses, stray: BOOLEAN, sound: BOOLEAN]
    BY RuntimeAssumption
  <2>3. audit[k].id \in Ids /\ audit[k].status \in Statuses /\ audit[k].sound \in BOOLEAN
    BY <2>2 DEF Ids
  <2> QED
    BY <2>1, <2>3 DEF Findings
<1> HIDE DEF f
<1>2. seq \in Seq(Findings)
  BY <1>1
<1>3. Audited(audit).findings = seq
  BY DEF Audited, f
<1>4. Audited(audit).evidence = {NewId(k) : k \in DOMAIN audit}
  BY DEF Audited
<1>5. {NewId(k) : k \in 1..n} \subseteq Ids
  BY NewIdType
<1> HIDE DEF seq
<1> QED
  BY <1>2, <1>3, <1>4, <1>5

\* An analysis returns findings, whatever the capability chose for them.
LEMMA AnalysisResultsType ==
    ASSUME step_count \in Nat, NEW route, NEW result \in AnalysisResults(route)
    PROVE  result.findings \in Seq(Findings) /\ result.evidence \subseteq Ids
<1>1. CASE route = "binary_analysis"
  <2>1. result = BinaryResult
    BY <1>1 DEF AnalysisResults
  <2>2. NewId(1) \in Ids
    BY NewIdType
  <2>3. [id |-> NewId(1), status |-> "candidate", evidence_ids |-> {NewId(1)},
         sound |-> TRUE] \in Findings
    BY <2>2 DEF Findings, Statuses
  <2> HIDE DEF Findings
  <2> QED
    BY <2>1, <2>2, <2>3 DEF BinaryResult
<1>2. CASE route # "binary_analysis"
  <2>1. PICK n \in 0..MaxCandidates : \E a \in [1..n -> Candidates] : result = Audited(a)
    BY <1>2 DEF AnalysisResults
  <2>2. n \in Nat
    BY RuntimeAssumption
  <2> QED
    BY <2>1, <2>2, AuditedType
<1> QED
  BY <1>1, <1>2

\* The answers are statuses of identifiers, and every finding has one.
LEMMA AnswersType ==
    ASSUME ContextTypeOK, NEW answers \in Answers
    PROVE  /\ DOMAIN answers \subseteq Ids
           /\ FindingIds \subseteq DOMAIN answers
           /\ \A id \in DOMAIN answers : answers[id] \in Statuses
<1>1. PICK extra \in SUBSET (AuditedIds \ FindingIds) :
        answers \in [FindingIds \cup extra -> Statuses]
  BY DEF Answers
<1>2. AuditedIds \subseteq Ids
  BY RuntimeAssumption DEF AuditedIds, Ids
<1>3. FindingIds \subseteq Ids
  <2> SUFFICES ASSUME NEW k \in DOMAIN findings PROVE findings[k].id \in Ids
    BY DEF FindingIds
  <2>1. findings[k] \in Findings
    BY DEF ContextTypeOK
  <2> QED
    BY <2>1 DEF Findings
<1> QED
  BY <1>1, <1>2, <1>3

\* A verification keeps the identifiers and the order of the findings, and gives
\* each of them the answer for its identifier.
LEMMA VerifiedType ==
    ASSUME ContextTypeOK, step_count \in Nat, NEW answers \in Answers
    PROVE  /\ Verified(answers).findings \in Seq(Findings)
           /\ DOMAIN Verified(answers).findings = DOMAIN findings
           /\ \A k \in DOMAIN findings :
                LET f == Verified(answers).findings[k]
                IN  /\ f.id = findings[k].id
                    /\ f.id \in DOMAIN answers
                    /\ f.status = answers[f.id]
                    /\ f.evidence_ids = findings[k].evidence_ids \cup {NewId(0)}
           /\ Verified(answers).evidence = {NewId(0)}
           /\ Verified(answers).evidence \subseteq Ids
<1>1. /\ FindingIds \subseteq DOMAIN answers
      /\ \A id \in DOMAIN answers : answers[id] \in Statuses
  BY AnswersType
<1>2. NewId(0) \in Ids
  BY NewIdType
<1> DEFINE f(k) == [findings[k] EXCEPT !.status = answers[findings[k].id],
                                       !.evidence_ids = @ \cup {NewId(0)}]
<1>3. findings \in Seq(Findings)
  BY DEF ContextTypeOK
<1>4. ASSUME NEW k \in DOMAIN findings
      PROVE  /\ f(k) \in Findings /\ f(k).id = findings[k].id
             /\ f(k).id \in DOMAIN answers /\ f(k).status = answers[f(k).id]
             /\ f(k).evidence_ids = findings[k].evidence_ids \cup {NewId(0)}
  <2>1. findings[k] \in Findings
    BY <1>3
  <2>2. findings[k].id \in DOMAIN answers /\ answers[findings[k].id] \in Statuses
    BY <1>1 DEF FindingIds
  <2> QED
    BY <1>2, <2>1, <2>2 DEF Findings
<1>5. /\ Verified(answers).findings = [k \in DOMAIN findings |-> f(k)]
      /\ Verified(answers).evidence = {NewId(0)}
  BY DEF Verified
<1> HIDE DEF f
<1>6. [k \in DOMAIN findings |-> f(k)] \in Seq(Findings)
  BY <1>3, <1>4
<1> QED
  BY <1>2, <1>4, <1>5, <1>6

-----------------------------------------------------------------------------
(* One lemma for each agent.                                               *)

\* What is left to show of an agent that succeeds.
LEMMA ContextSuffices ==
    ASSUME IInv, NEW routes, AgentSucceeds(routes), ContextTypeOK', Sound'
    PROVE  IInv'
<1>1. /\ StateTypeOK' /\ Progress' /\ Pending' /\ RepeatsBounded'
      /\ RetryBudget' /\ FailuresRecorded'
  BY AgentSucceedsKeeps
<1>2. TypeOK'
  BY <1>1 DEF TypeOK, StateTypeOK, ContextTypeOK, Metadata
<1> QED
  BY <1>1, <1>2 DEF IInv

LEMMA AgentStep ==
    ASSUME IInv, NEW routes, AgentSucceeds(routes)
    PROVE  /\ step_count \in Nat /\ ContextTypeOK /\ Sound
           /\ Extends(route_history', route_history)
BY TypeOKSplits, AgentLeavesKeeps DEF IInv, AgentSucceeds, StateTypeOK

LEMMA PlannerKeeps == IInv /\ PlannerAgent => IInv'
<1> SUFFICES ASSUME IInv, PlannerAgent PROVE IInv'
  OBVIOUS
<1>1. AgentSucceeds({"planner"})
  BY DEF PlannerAgent
<1>2. ContextTypeOK /\ Sound /\ Extends(route_history', route_history)
  BY <1>1, AgentStep
<1>3. UNCHANGED <<findings, evidence, verifications, reports, requested, review>>
  BY DEF PlannerAgent
<1>4. planned' \in BOOLEAN
  BY DEF PlannerAgent
<1>5. ContextTypeOK'
  BY <1>2, <1>3, <1>4 DEF ContextTypeOK
<1>6. Sound'
  BY <1>2, <1>3, UntouchedStaysSound
<1> QED
  BY <1>1, <1>5, <1>6, ContextSuffices

LEMMA FuzzKeeps == IInv /\ FuzzAgent => IInv'
<1> SUFFICES ASSUME IInv, FuzzAgent PROVE IInv'
  OBVIOUS
<1>1. AgentSucceeds({"fuzz"})
  BY DEF FuzzAgent
<1>2. /\ step_count \in Nat /\ ContextTypeOK /\ Sound
      /\ Extends(route_history', route_history)
  BY <1>1, AgentStep
<1>3. /\ findings' = findings \o <<>>
      /\ evidence' = evidence \cup {NewId(0)}
      /\ UNCHANGED <<verifications, reports, planned, requested, review>>
  BY DEF FuzzAgent, Merge
<1>4. findings' = findings
  BY <1>2, <1>3 DEF ContextTypeOK
<1>5. ContextTypeOK'
  BY <1>2, <1>3, <1>4, NewIdType DEF ContextTypeOK
<1>6. Sound'
  BY <1>2, <1>3, <1>4, UntouchedStaysSound
<1> QED
  BY <1>1, <1>5, <1>6, ContextSuffices

LEMMA ReviewerKeeps == IInv /\ ReviewerAgent => IInv'
<1> SUFFICES ASSUME IInv, ReviewerAgent PROVE IInv'
  OBVIOUS
<1>1. AgentSucceeds({"reviewer"})
  BY DEF ReviewerAgent
<1>2. ContextTypeOK /\ Sound /\ Extends(route_history', route_history)
  BY <1>1, AgentStep
<1>3. UNCHANGED <<findings, evidence, verifications, reports, planned, requested>>
  BY DEF ReviewerAgent
<1>4. review' \in {"none", "passed", "notes"}
  BY DEF ReviewerAgent, ReviewResult
<1>5. ContextTypeOK'
  BY <1>2, <1>3, <1>4 DEF ContextTypeOK
<1>6. Sound'
  BY <1>2, <1>3, UntouchedStaysSound
<1> QED
  BY <1>1, <1>5, <1>6, ContextSuffices

LEMMA ReportKeeps == IInv /\ ReportAgent => IInv'
<1> SUFFICES ASSUME IInv, ReportAgent PROVE IInv'
  OBVIOUS
<1>1. AgentSucceeds({"report"})
  BY DEF ReportAgent
<1>2. ContextTypeOK /\ Sound /\ Extends(route_history', route_history)
  BY <1>1, AgentStep
<1>3. UNCHANGED <<findings, evidence, verifications, planned, requested, review>>
  BY DEF ReportAgent
<1>4. reports' \in Seq(Seq(Findings))
  <2>1. reports' = Append(reports, findings)
    BY DEF ReportAgent
  <2>2. reports \in Seq(Seq(Findings)) /\ findings \in Seq(Findings)
    BY <1>2 DEF ContextTypeOK
  <2> HIDE DEF Findings
  <2> QED
    BY <2>1, <2>2
<1>5. ContextTypeOK'
  BY <1>2, <1>3, <1>4 DEF ContextTypeOK
<1>6. Sound'
  BY <1>2, <1>3, UntouchedStaysSound
<1> QED
  BY <1>1, <1>5, <1>6, ContextSuffices

\* Every finding after an analysis is an old one or, after those, one of the
\* result.
LEMMA Concatenated ==
    ASSUME NEW S, NEW a \in Seq(S), NEW b \in Seq(S), NEW k \in DOMAIN (a \o b)
    PROVE  \/ k <= Len(a) /\ k \in DOMAIN a /\ (a \o b)[k] = a[k]
           \/ k > Len(a) /\ \E j \in DOMAIN b : (a \o b)[k] = b[j]
<1>1. CASE k <= Len(a)
  BY <1>1
<1>2. CASE k > Len(a)
  <2>1. k - Len(a) \in DOMAIN b /\ (a \o b)[k] = b[k - Len(a)]
    BY <1>2
  <2> QED
    BY <1>2, <2>1
<1> QED
  BY <1>1, <1>2

LEMMA AnalysisKeeps == IInv /\ AnalysisAgent => IInv'
<1> SUFFICES ASSUME IInv, AnalysisAgent PROVE IInv'
  OBVIOUS
<1>1. AgentSucceeds(AnalysisRoutes) /\ next_agent \in AnalysisRoutes
      /\ UNCHANGED <<verifications, reports, planned, requested, review>>
  BY DEF AnalysisAgent, AgentSucceeds
<1>2. /\ step_count \in Nat /\ ContextTypeOK /\ Sound
      /\ Extends(route_history', route_history)
  BY <1>1, AgentStep
<1>3. PICK result \in AnalysisResults(next_agent) :
        Authorized(next_agent, result) /\ Merge(result, FALSE)
  BY DEF AnalysisAgent
<1> DEFINE r == result.findings
<1>4. r \in Seq(Findings) /\ result.evidence \subseteq Ids
  BY <1>2, AnalysisResultsType
<1>5. findings' = findings \o r /\ evidence' = evidence \cup result.evidence
  BY <1>3 DEF Merge
<1>6. \A k \in DOMAIN r :
        /\ r[k].status = "candidate"
        /\ r[k].evidence_ids # {} /\ r[k].evidence_ids \subseteq evidence'
  BY <1>1, <1>3, <1>5 DEF Authorized, AnalysisRoutes
<1>7. findings \in Seq(Findings) /\ evidence \subseteq Ids
  BY <1>2 DEF ContextTypeOK
<1> HIDE DEF r
<1>8. findings' \in Seq(Findings)
  BY <1>4, <1>5, <1>7
<1>9. ContextTypeOK'
  BY <1>1, <1>2, <1>4, <1>5, <1>8 DEF ContextTypeOK
<1>10. ASSUME NEW k \in DOMAIN findings'
       PROVE  \/ k <= Len(findings) /\ k \in DOMAIN findings /\ findings'[k] = findings[k]
              \/ k > Len(findings) /\ \E j \in DOMAIN r : findings'[k] = r[j]
  BY <1>4, <1>5, <1>7, Concatenated
<1>11. FindingsGrounded'
  <2>1. ASSUME NEW k \in DOMAIN findings'
        PROVE  Grounded(findings'[k], evidence', route_history')
    <3>1. CASE k \in DOMAIN findings /\ findings'[k] = findings[k]
      <4>1. Grounded(findings[k], evidence, route_history)
        BY <1>2, <3>1, AllGrounded DEF Sound
      <4> QED
        BY <1>2, <1>5, <3>1, <4>1, GroundedStays
    <3>2. CASE \E j \in DOMAIN r : findings'[k] = r[j]
      BY <1>6, <3>2 DEF Grounded
    <3> QED
      BY <1>10, <3>1, <3>2
  <2> QED
    BY <2>1 DEF FindingsGrounded, Grounded
<1>12. StatusesComeFromVerification'
  <2>1. ASSUME NEW k \in DOMAIN findings', findings'[k].status # "candidate"
        PROVE  /\ k <= Len(findings) /\ k \in DOMAIN findings
               /\ findings'[k] = findings[k]
    BY <1>6, <1>10, <2>1
  <2>2. ASSUME NEW k \in DOMAIN findings', findings'[k].status # "candidate"
        PROVE  /\ findings'[k].id \in DOMAIN verifications
               /\ findings'[k].status = verifications[findings'[k].id]
               /\ findings'[k].status \in FinalStatuses
    BY <1>2, <2>1, <2>2 DEF Sound, StatusesComeFromVerification
  <2>3. ASSUME NEW i \in DOMAIN findings', NEW j \in DOMAIN findings', i < j,
               findings'[i].status = "candidate", findings'[j].status # "candidate"
        PROVE  FALSE
    <3>1. j <= Len(findings) /\ j \in DOMAIN findings /\ findings'[j] = findings[j]
      BY <2>1, <2>3
    <3>2. i \in Nat /\ j \in Nat /\ Len(findings) \in Nat
      BY <1>7, <1>8
    <3>3. i \in DOMAIN findings /\ findings'[i] = findings[i]
      BY <1>10, <2>3, <3>1, <3>2
    <3> QED
      BY <1>2, <2>3, <3>1, <3>3 DEF Sound, StatusesComeFromVerification
  <2> QED
    BY <1>1, <2>2, <2>3 DEF StatusesComeFromVerification
<1>13. Sound'
  BY <1>11, <1>12 DEF Sound
<1> QED
  BY <1>1, <1>9, <1>13, ContextSuffices

\* Each finding gets the answer for its identifier, which the context keeps as
\* its verification, and cites the evidence of this step.
LEMMA VerificationKeeps == IInv /\ VerificationAgent => IInv'
<1> SUFFICES ASSUME IInv, VerificationAgent PROVE IInv'
  OBVIOUS
<1>1. AgentSucceeds({"verification"})
      /\ UNCHANGED <<reports, planned, review>>
      /\ requested' \in BOOLEAN
  BY DEF VerificationAgent
<1>2. /\ step_count \in Nat /\ ContextTypeOK /\ Sound
      /\ Extends(route_history', route_history)
  BY <1>1, AgentStep
<1>3. PICK answers \in Answers :
        /\ Authorized("verification", Verified(answers))
        /\ Merge(Verified(answers), TRUE)
        /\ verifications' = Verdicts(answers)
  BY DEF VerificationAgent
<1> DEFINE result == Verified(answers)
<1>4. /\ result.findings \in Seq(Findings)
      /\ DOMAIN result.findings = DOMAIN findings
      /\ \A k \in DOMAIN findings :
            /\ result.findings[k].id \in DOMAIN answers
            /\ result.findings[k].status = answers[result.findings[k].id]
            /\ result.findings[k].evidence_ids = findings[k].evidence_ids \cup {NewId(0)}
      /\ result.evidence = {NewId(0)}
      /\ result.evidence \subseteq Ids
  BY <1>2, VerifiedType
<1>5. findings' = result.findings /\ evidence' = evidence \cup result.evidence
  BY <1>3 DEF Merge
<1>6. \A k \in DOMAIN result.findings : result.findings[k].status \in FinalStatuses
  BY <1>3 DEF Authorized, DiscoveryRoutes, AnalysisRoutes
<1>7. findings \in Seq(Findings) /\ DOMAIN verifications \subseteq Ids /\ evidence \subseteq Ids
      /\ \A id \in DOMAIN verifications : verifications[id] \in Statuses
  BY <1>2 DEF ContextTypeOK
<1> HIDE DEF result
<1>8. /\ DOMAIN verifications' = DOMAIN answers \cup DOMAIN verifications
      /\ \A id \in DOMAIN answers \cup DOMAIN verifications :
            verifications'[id] = IF id \in DOMAIN answers THEN answers[id]
                                 ELSE verifications[id]
  BY <1>3 DEF Verdicts
<1>9. ContextTypeOK'
  <2>1. findings' \in Seq(Findings) /\ evidence' \subseteq Ids
    BY <1>4, <1>5, <1>7
  <2>2. DOMAIN answers \subseteq Ids /\ \A id \in DOMAIN answers : answers[id] \in Statuses
    BY <1>2, AnswersType
  <2>3. DOMAIN verifications' \subseteq Ids
        /\ \A id \in DOMAIN verifications' : verifications'[id] \in Statuses
    BY <1>7, <1>8, <2>2
  <2> QED
    BY <1>1, <1>2, <2>1, <2>3 DEF ContextTypeOK
<1>10. FindingsGrounded'
  <2>1. step_count + 1 \in DOMAIN route_history'
        /\ route_history'[step_count + 1] = "verification"
    <3>1. AgentLeaves /\ next_agent = "verification"
      BY <1>1 DEF AgentSucceeds
    <3>2. /\ route_history' \in Seq(AgentRoutes)
          /\ Len(route_history') = Len(route_history) + 1
          /\ route_history'[step_count + 1] = next_agent
      BY <3>1, AgentLeavesKeeps
    <3>3. step_count = Len(route_history)
      BY DEF IInv, Progress
    <3> QED
      BY <1>2, <3>1, <3>2, <3>3
  <2>2. ASSUME NEW k \in DOMAIN findings'
        PROVE  /\ findings'[k].evidence_ids # {}
               /\ findings'[k].evidence_ids \subseteq evidence'
               /\ <<step_count + 1, 0>> \in findings'[k].evidence_ids
    <3>1. k \in DOMAIN findings /\ findings[k].evidence_ids \subseteq evidence
      BY <1>2, <1>4, <1>5 DEF Sound, FindingsGrounded
    <3> QED
      BY <1>4, <1>5, <3>1 DEF NewId
  <2> QED
    BY <2>1, <2>2 DEF FindingsGrounded
<1>11. StatusesComeFromVerification'
  <2>1. ASSUME NEW k \in DOMAIN findings'
        PROVE  /\ findings'[k].id \in DOMAIN verifications'
               /\ findings'[k].status = verifications'[findings'[k].id]
               /\ findings'[k].status \in FinalStatuses
    BY <1>4, <1>5, <1>6, <1>8
  <2>2. \A k \in DOMAIN findings' : findings'[k].status # "candidate"
    BY <2>1 DEF FinalStatuses
  <2> QED
    BY <2>1, <2>2 DEF StatusesComeFromVerification
<1>12. Sound'
  BY <1>10, <1>11 DEF Sound
<1> QED
  BY <1>1, <1>9, <1>12, ContextSuffices

-----------------------------------------------------------------------------
(* The nodes that run no agent, and the theorems.                          *)

\* Entering an agent node, or leaving the graph through an exception.
LEMMA NodeKeeps ==
    ASSUME IInv, supersteps' = supersteps + 1,
           \/ pc = "supervise" /\ pc' = "raised"
           \/ pc = "dispatch" /\ pc' \in {"running", "raised"},
           UNCHANGED <<task, current_agent, next_agent, step_count, route_history,
                       completed_agents, metadata, context>>
    PROVE  IInv'
<1>1. UNCHANGED <<findings, evidence, verifications, reports, planned, requested, review>>
  BY DEF context
<1>2. StateTypeOK /\ ContextTypeOK /\ TypeOK
  BY TypeOKSplits DEF IInv
<1>3. StateTypeOK' /\ ContextTypeOK'
  BY <1>1, <1>2 DEF StateTypeOK, ContextTypeOK
<1>4. TypeOK'
  BY <1>3 DEF TypeOK, StateTypeOK, ContextTypeOK, Metadata
<1>5. Progress'
  BY <1>2 DEF IInv, Progress, StateTypeOK, InHistory
<1>6. Pending'
  BY DEF IInv, Pending, Dispatchable
<1>7. RepeatsBounded' /\ RetryBudget' /\ FailuresRecorded'
  BY DEF IInv, RepeatsBounded, Count, RetryBudget, FailuresRecorded
<1>8. Sound'
  BY <1>1, UntouchedStaysSound DEF IInv, Extends
<1> QED
  BY <1>4, <1>5, <1>6, <1>7, <1>8 DEF IInv

LEMMA StutterKeeps == IInv /\ UNCHANGED vars => IInv'
<1> SUFFICES ASSUME IInv, UNCHANGED vars PROVE IInv'
  OBVIOUS
<1>1. UNCHANGED <<findings, evidence, verifications, reports, planned, requested, review>>
      /\ UNCHANGED <<task, pc, supersteps, current_agent, next_agent, step_count,
                     route_history, completed_agents, metadata>>
  BY DEF vars, state, context
<1>2. TypeOK' /\ Progress' /\ Pending'
  BY <1>1 DEF IInv, TypeOK, Progress, InHistory, Pending, Dispatchable
<1>3. RepeatsBounded' /\ RetryBudget' /\ FailuresRecorded'
  BY <1>1 DEF IInv, RepeatsBounded, Count, RetryBudget, FailuresRecorded
<1>4. Sound'
  BY <1>1, UntouchedStaysSound DEF IInv, Extends
<1> QED
  BY <1>2, <1>3, <1>4 DEF IInv

\* Every step, of the specification or of the composition with the core.
LEMMA StepKeeps == IInv /\ [Next]_vars => IInv'
<1>1. IInv /\ Next => IInv'
  <2> SUFFICES ASSUME IInv, Next PROVE IInv'
    OBVIOUS
  <2>1. CASE Supervise
    BY <2>1, SuperviseKeeps
  <2>2. CASE SuperviseRaises
    BY <2>2, NodeKeeps DEF SuperviseRaises
  <2>3. CASE StartAgent
    BY <2>3, NodeKeeps DEF StartAgent
  <2>4. CASE ObserverRaises
    BY <2>4, NodeKeeps DEF ObserverRaises
  <2>5. CASE FinishAgent
    BY <2>5, PlannerKeeps, AnalysisKeeps, FuzzKeeps, VerificationKeeps, ReviewerKeeps,
       ReportKeeps, AgentFailsKeeps DEF FinishAgent
  <2>6. CASE Done
    BY <2>6, StutterKeeps DEF Done
  <2> QED
    BY <2>1, <2>2, <2>3, <2>4, <2>5, <2>6 DEF Next
<1> QED
  BY <1>1, StutterKeeps

\* Every reachable state satisfies IInv.
THEOREM InductiveInvariant == Spec => []IInv
  BY InitEstablishes, StepKeeps, PTL DEF Spec

\* Only members of the route enumeration are dispatched, and the state keeps
\* its types, whatever the supervisor is.
THEOREM TypeCorrect == Spec => []TypeOK
<1>1. IInv => TypeOK
  BY DEF IInv
<1> QED
  BY <1>1, InductiveInvariant, PTL

\* RuntimePolicy holds whatever supervisor is injected: a run is bounded by the
\* step budget, keeps its last slot for the report, never exhausts the recursion
\* limit of the graph, repeats no agent and retries no analysis too often.
THEOREM RunsStayWithinPolicy == Spec => []WithinPolicy
<1>1. IInv => StepsBounded
  <2> SUFFICES ASSUME IInv PROVE StepsBounded
    OBVIOUS
  <2>1. Len(route_history) \in Nat /\ supersteps \in Nat /\ Progress
    BY TypeOKSplits DEF IInv, StateTypeOK
  <2>2. supersteps <= MaxAgentSteps * 3 + 10
    BY <2>1, RuntimePolicyAssumption DEF Progress
  <2> QED
    BY <2>1, <2>2 DEF Progress, StepsBounded, RecursionLimit
<1>2. IInv => WithinPolicy
  BY <1>1 DEF IInv, WithinPolicy
<1> QED
  BY <1>2, InductiveInvariant, PTL

\* A failed agent is never forgotten.
THEOREM FailuresAreRecorded == Spec => []FailuresRecorded
<1>1. IInv => FailuresRecorded
  BY DEF IInv
<1> QED
  BY <1>1, InductiveInvariant, PTL

\* A status is final only if the last verification of the identifier recorded
\* it, and no verification leaves a candidate, whatever identifiers an auditor
\* chose and repeated.
THEOREM StatusesAreVerified == Spec => []StatusesComeFromVerification
<1>1. IInv => StatusesComeFromVerification
  BY DEF IInv, Sound
<1> QED
  BY <1>1, InductiveInvariant, PTL

\* Every finding rests on evidence the context holds, one with a final status on
\* that of a verification which has run.
THEOREM FindingsAreGrounded == Spec => []FindingsGrounded
<1>1. IInv => FindingsGrounded
  BY DEF IInv, Sound
<1> QED
  BY <1>1, InductiveInvariant, PTL

-----------------------------------------------------------------------------
(* The default supervisor: what a run that nobody injected into is like.   *)

Waiting == pc \in {"dispatch", "running", "raised"}

\* The agents the default supervisor asks for after each agent.  After every
\* agent but the report, a fallback asks for the report.
Successors(current) ==
    CASE current = "none" -> {"planner"}
      [] current = "planner" -> {AnalysisRoute(task)}
      [] current \in AnalysisRoutes -> {"fuzz", "verification"}
      [] current = "fuzz" -> {"verification"}
      [] current = "verification" -> {AnalysisRoute(task), "reviewer"}
      [] OTHER -> {}

\* The supervisor sees the agent that ran last, and nothing runs after the
\* report.
Position ==
    /\ current_agent = IF route_history = <<>> THEN "none"
                       ELSE route_history[Len(route_history)]
    /\ InHistory("report", route_history) => current_agent = "report"
    /\ Waiting =>
        /\ current_agent # "report"
        /\ next_agent \in Successors(current_agent) \cup {"report"}
    /\ pc = "supervise" => next_agent = "none"
    /\ pc = "ended" => next_agent = "finish" /\ current_agent = "report"

\* The agent that ran last is the only one that failed, and the report follows.
FailureIsLast ==
    /\ Len(route_history) = Len(completed_agents) + 1
    /\ \A i \in DOMAIN completed_agents : completed_agents[i] = route_history[i]
    /\ pc = "supervise" => metadata.force_fallback
    /\ Waiting => next_agent = "report"

Failing ==
    /\ metadata.force_fallback => metadata.execution_failed
    /\ ~metadata.execution_failed => completed_agents = route_history
    /\ metadata.execution_failed /\ current_agent # "report" => FailureIsLast
    /\ metadata.execution_failed =>
        metadata.fallback_used \/ (pc = "supervise" /\ metadata.force_fallback)
    /\ OnlyReportAfterFailure

AnalysesRun ==
    Count(route_history, "source_analysis") + Count(route_history, "binary_analysis")

\* The first analysis follows the planner and is no retry; every other one
\* follows a verification and is one.
Retrying ==
    /\ RetriesAccounted
    /\ AnalysesStarted = 0 => metadata.analysis_retries = 0
    /\ current_agent \in {"none", "planner"} => AnalysesRun = 0
    /\ current_agent \in DiscoveryRoutes \cup {"verification", "reviewer"} =>
        AnalysesRun > 0

Fuzzing ==
    /\ planned => task.fuzz_authorized /\ task.dynamic_validation
    /\ FuzzAuthorized

\* Neither a fallback nor a failure so far.
Clean == ~metadata.fallback_used /\ ~metadata.execution_failed

ReviewCurrent == review = ReviewResult

AllFinal == \A k \in DOMAIN findings : findings[k].status \in FinalStatuses

\* What is known of the findings on the way to the report.
Reporting ==
    /\ reports = <<>> \/ (reports = <<findings>> /\ current_agent = "report")
    /\ current_agent = "report" => reports # <<>> \/ metadata.execution_failed
    /\ Clean =>
        /\ current_agent \in {"verification", "reviewer"} => AllFinal
        /\ current_agent = "reviewer" => ReviewCurrent
        /\ current_agent = "report" \/ (Waiting /\ next_agent = "report") =>
            (findings # <<>> => ReviewCurrent) /\ AllFinal

DefaultInv == Position /\ Failing /\ Retrying /\ Fuzzing /\ Reporting

-----------------------------------------------------------------------------
(* What the supervisor node decides.                                       *)

LEMMA RoutedFields ==
    ASSUME NEW q
    PROVE  /\ Routed(q).route = q
           /\ ~Routed(q).fallback_used /\ ~Routed(q).execution_failed
           /\ ~Routed(q).retry
BY DEF Routed

LEMMA RetryFields ==
    ASSUME NEW q, NEW d, d = [Routed(q) EXCEPT !.retry = TRUE]
    PROVE  d.route = q /\ ~d.fallback_used /\ ~d.execution_failed /\ d.retry
BY DEF Routed

LEMMA ExhaustedFields ==
    ASSUME NEW q, NEW d, d = [Routed(q) EXCEPT !.retry_exhausted = TRUE]
    PROVE  d.route = q /\ ~d.fallback_used /\ ~d.execution_failed /\ ~d.retry
BY DEF Routed

\* What the default supervisor returns after each agent.
LEMMA DecideFacts ==
    ASSUME NEW current \in AgentRoutes \cup {"none"}, NEW h, NEW found, NEW plan,
           NEW more, NEW attempts, NEW d,
           d = Decide(task, current, h, found, plan, more, attempts)
    PROVE  /\ current = "report" => d.route = "finish"
           /\ current # "report" => d.route \in Successors(current) \cup {"report"}
           /\ ~d.fallback_used /\ ~d.execution_failed
           /\ d.retry => current = "verification" /\ attempts < MaxAnalysisRetries
           /\ current = "verification" /\ d.route \in AnalysisRoutes => d.retry
           /\ d.route = "fuzz" => FuzzRequested(task, plan) /\ ~InHistory("fuzz", h)
           /\ d.route = "report" =>
                current = "reviewer" \/ (current \in AnalysisRoutes /\ ~found)
<1>1. AnalysisRoute(task) \in AnalysisRoutes
  BY DEF AnalysisRoute, AnalysisRoutes
<1>2. CASE current = "none"
  <2>1. d = Routed("planner") /\ Successors(current) = {"planner"}
    BY <1>2 DEF Decide, Successors, AnalysisRoutes
  <2> QED
    BY <1>2, <2>1, RoutedFields DEF AnalysisRoutes
<1>3. CASE current = "planner"
  <2>1. d = Routed(AnalysisRoute(task)) /\ Successors(current) = {AnalysisRoute(task)}
    BY <1>3 DEF Decide, Successors, AnalysisRoutes
  <2> QED
    BY <1>1, <1>3, <2>1, RoutedFields DEF AnalysisRoutes
<1>4. CASE current \in AnalysisRoutes
  <2> DEFINE q == IF ~found THEN "report"
                  ELSE IF FuzzRequested(task, plan) /\ ~InHistory("fuzz", h)
                  THEN "fuzz" ELSE "verification"
  <2>1. d = Routed(q) /\ Successors(current) = {"fuzz", "verification"}
    BY <1>4 DEF Decide, Successors, AnalysisRoutes
  <2>2. /\ q \in {"report", "fuzz", "verification"}
        /\ q = "report" => ~found
        /\ q = "fuzz" => FuzzRequested(task, plan) /\ ~InHistory("fuzz", h)
    OBVIOUS
  <2>3. current # "verification" /\ current # "report"
    BY <1>4 DEF AnalysisRoutes
  <2> HIDE DEF q
  <2> QED
    BY <1>4, <2>1, <2>2, <2>3, RoutedFields
<1>5. CASE current = "fuzz"
  <2>1. d = Routed("verification") /\ Successors(current) = {"verification"}
    BY <1>5 DEF Decide, Successors, AnalysisRoutes
  <2> QED
    BY <1>5, <2>1, RoutedFields
<1>6. CASE current = "verification"
  <2>1. /\ d = AfterVerification(task, more, attempts)
        /\ Successors(current) = {AnalysisRoute(task), "reviewer"}
    BY <1>6 DEF Decide, Successors, AnalysisRoutes
  <2>2. \/ d = Routed("reviewer")
        \/ /\ d = [Routed(AnalysisRoute(task)) EXCEPT !.retry = TRUE]
           /\ attempts < MaxAnalysisRetries
        \/ d = [Routed("reviewer") EXCEPT !.retry_exhausted = TRUE]
    BY <2>1 DEF AfterVerification
  <2>3. /\ d.route \in {AnalysisRoute(task), "reviewer"}
        /\ ~d.fallback_used /\ ~d.execution_failed
        /\ d.retry => attempts < MaxAnalysisRetries
        /\ d.route # "reviewer" => d.retry
    <3>1. CASE d = Routed("reviewer")
      BY <3>1, RoutedFields
    <3>2. CASE /\ d = [Routed(AnalysisRoute(task)) EXCEPT !.retry = TRUE]
               /\ attempts < MaxAnalysisRetries
      BY <3>2, RetryFields
    <3>3. CASE d = [Routed("reviewer") EXCEPT !.retry_exhausted = TRUE]
      BY <3>3, ExhaustedFields
    <3> QED
      BY <2>2, <3>1, <3>2, <3>3
  <2> QED
    BY <1>1, <1>6, <2>1, <2>3 DEF AnalysisRoutes
<1>7. CASE current = "reviewer"
  <2>1. d = Routed("report")
    BY <1>7 DEF Decide, AnalysisRoutes
  <2> QED
    BY <1>7, <2>1, RoutedFields
<1>8. CASE current = "report"
  <2>1. d = Routed("finish")
    BY <1>8 DEF Decide, AnalysisRoutes
  <2> QED
    BY <1>8, <2>1, RoutedFields
<1> QED
  BY <1>2, <1>3, <1>4, <1>5, <1>6, <1>7, <1>8 DEF AgentRoutes, DiscoveryRoutes

\* The router accepts a proposal whole or falls back.
LEMMA SettleFacts ==
    ASSUME NEW p \in RouteDecision, p.route \in AgentRoute
    PROVE  \/ Settle(p) = p
           \/ \E limit \in BOOLEAN : Settle(p) = Fallback(route_history, FALSE, limit)
<1> DEFINE d == Resolve(p.route, route_history)
           limit == OutOfSteps(route_history) \/ ~RepeatLimit(p.route, route_history)
<1>1. d = Routed(p.route) \/ d = Fallback(route_history, FALSE, limit)
  BY DEF Resolve
<1>2. limit \in BOOLEAN
  BY DEF OutOfSteps, RepeatLimit
<1>3. CASE d = Routed(p.route)
  BY <1>3, RoutedFields DEF Settle
<1>4. CASE d = Fallback(route_history, FALSE, limit)
  BY <1>2, <1>4 DEF Settle
<1> QED
  BY <1>1, <1>3, <1>4

LEMMA FallbackFields ==
    ASSUME NEW h, NEW limit, NEW d, d = Fallback(h, FALSE, limit)
    PROVE  /\ d.route = IF InHistory("report", h) \/ OutOfSteps(h)
                        THEN "finish" ELSE "report"
           /\ d.fallback_used /\ ~d.execution_failed /\ ~d.retry
BY DEF Fallback, Routed

LEMMA ForcedFields ==
    /\ ForcedDecision.route =
         IF InHistory("report", route_history) THEN "finish" ELSE "report"
    /\ ForcedDecision.fallback_used
    /\ ~ForcedDecision.retry
BY DEF ForcedDecision, Routed

LEMMA SuccessorsType ==
    ASSUME NEW current
    PROVE  /\ Successors(current) \subseteq AgentRoutes
           /\ "report" \notin Successors(current)
           /\ "report" \in AgentRoutes
<1>1. AnalysisRoute(task) \in AnalysisRoutes
  BY DEF AnalysisRoute, AnalysisRoutes
<1>2. Successors(current) \subseteq
        AnalysisRoutes \cup {"planner", "fuzz", "verification", "reviewer"}
  BY <1>1 DEF Successors, AnalysisRoutes
<1> QED
  BY <1>2 DEF AgentRoutes, DiscoveryRoutes, AnalysisRoutes

\* The report has run exactly when it ran last.
LEMMA ReportIsLast ==
    ASSUME IInv, DefaultInv
    PROVE  InHistory("report", route_history) <=> current_agent = "report"
<1>1. route_history \in Seq(AgentRoutes) /\ Position
  BY TypeOKSplits DEF IInv, StateTypeOK, DefaultInv
<1>2. ASSUME current_agent = "report" PROVE InHistory("report", route_history)
  <2>1. Len(route_history) \in DOMAIN route_history
        /\ route_history[Len(route_history)] = "report"
    BY <1>1, <1>2 DEF Position
  <2> QED
    BY <2>1 DEF InHistory
<1> QED
  BY <1>1, <1>2 DEF Position

\* The router may only replace a proposal by the report, and only while the
\* report has not run.
LEMMA SettledRoute ==
    ASSUME IInv, DefaultInv, NEW p \in RouteDecision, p.route \in AgentRoute,
           current_agent = "report" => p.route \in {"finish", "report"}
    PROVE  LET d == Settle(p)
               left == IF current_agent = "report" THEN "finish" ELSE "report"
           IN  d = p \/ (d.route = left /\ d.fallback_used /\ ~d.execution_failed)
<1> DEFINE d == Settle(p)
           left == IF current_agent = "report" THEN "finish" ELSE "report"
<1>1. CASE d = p
  BY <1>1
<1>2. CASE d # p
  <2>1. PICK limit \in BOOLEAN : d = Fallback(route_history, FALSE, limit)
    BY <1>2, SettleFacts
  <2>2. /\ d.route = IF InHistory("report", route_history) \/ OutOfSteps(route_history)
                     THEN "finish" ELSE "report"
        /\ d.fallback_used /\ ~d.execution_failed
    BY <2>1, FallbackFields
  <2>3. InHistory("report", route_history) <=> current_agent = "report"
    BY ReportIsLast
  <2>4. OutOfSteps(route_history) => InHistory("report", route_history)
    BY RuntimePolicyAssumption, TypeOKSplits DEF IInv, Progress, StateTypeOK, OutOfSteps
  <2> QED
    BY <2>2, <2>3, <2>4
<1> QED
  BY <1>1, <1>2

\* What the node starts from: its own decision, or the one a failure forces.
LEMMA ProposalFacts ==
    ASSUME IInv, DefaultInv, ~InjectedSupervisor, NEW p \in Proposals
    PROVE  /\ EnforceRetries(p) = p /\ p \in RouteDecision /\ p.route \in AgentRoute
           /\ current_agent = "report" => p.route = "finish"
           /\ current_agent # "report" =>
                p.route \in Successors(current_agent) \cup {"report"}
           /\ p.execution_failed => metadata.execution_failed
           /\ metadata.force_fallback =>
                p.fallback_used /\ p.route \in {"finish", "report"}
           /\ p.retry => current_agent = "verification"
           /\ current_agent = "verification" /\ p.route \in AnalysisRoutes =>
                p.retry /\ ~p.fallback_used
           /\ p.route = "fuzz" =>
                FuzzRequested(task, planned) /\ ~InHistory("fuzz", route_history)
           /\ p.route = "report" /\ ~p.fallback_used =>
                \/ current_agent = "reviewer"
                \/ current_agent \in AnalysisRoutes /\ findings = <<>>
<1>1. TypeOK /\ metadata \in Metadata /\ current_agent \in AgentRoutes \cup {"none"}
  BY TypeOKSplits DEF IInv, StateTypeOK
<1>2. p \in RouteDecision
  BY <1>1, ProposalsType
<1>3. InHistory("report", route_history) <=> current_agent = "report"
  BY ReportIsLast
<1>4. CASE metadata.force_fallback
  <2>1. p = ForcedDecision
    BY <1>4 DEF Proposals
  <2>2. /\ p.route = IF current_agent = "report" THEN "finish" ELSE "report"
        /\ p.fallback_used /\ ~p.retry
    BY <1>3, <2>1, ForcedFields
  <2>3. EnforceRetries(p) = p
    BY <2>2 DEF EnforceRetries, RetryRequest
  <2>4. metadata.execution_failed
    BY <1>4 DEF DefaultInv, Failing
  <2> QED
    BY <1>2, <2>2, <2>3, <2>4
       DEF AgentRoute, AgentRoutes, DiscoveryRoutes, AnalysisRoutes
<1>5. CASE ~metadata.force_fallback
  <2> DEFINE found == findings # <<>>
  <2>1. p = Decide(task, current_agent, route_history, found, planned, requested,
                   metadata.analysis_retries)
    BY <1>5 DEF Proposals
  <2> HIDE DEF found
  <2>2. /\ current_agent = "report" => p.route = "finish"
        /\ current_agent # "report" =>
             p.route \in Successors(current_agent) \cup {"report"}
        /\ ~p.fallback_used /\ ~p.execution_failed
        /\ p.retry => /\ current_agent = "verification"
                      /\ metadata.analysis_retries < MaxAnalysisRetries
        /\ current_agent = "verification" /\ p.route \in AnalysisRoutes => p.retry
        /\ p.route = "fuzz" =>
             FuzzRequested(task, planned) /\ ~InHistory("fuzz", route_history)
        /\ p.route = "report" =>
             \/ current_agent = "reviewer"
             \/ current_agent \in AnalysisRoutes /\ ~found
    BY <1>1, <2>1, DecideFacts
  <2>3. EnforceRetries(p) = p
    BY <1>1, <2>2, RuntimePolicyAssumption DEF EnforceRetries, RetryRequest, Metadata
  <2>4. p.route \in AgentRoute
    BY <2>2, SuccessorsType DEF AgentRoute
  <2> QED
    BY <1>2, <1>5, <2>2, <2>3, <2>4 DEF found
<1> QED
  BY <1>4, <1>5

\* The supervisor node when the supervisor is the default one.
LEMMA SuperviseFacts ==
    ASSUME IInv, DefaultInv, ~InjectedSupervisor, Supervise
    PROVE  /\ IF current_agent = "report"
              THEN pc' = "ended" /\ next_agent' = "finish"
              ELSE /\ pc' = "dispatch"
                   /\ next_agent' \in Successors(current_agent) \cup {"report"}
           /\ metadata'.execution_failed <=> metadata.execution_failed
           /\ metadata.fallback_used => metadata'.fallback_used
           /\ ~metadata'.force_fallback
           /\ metadata.force_fallback =>
                metadata'.fallback_used /\ next_agent' \in {"finish", "report"}
           /\ metadata'.analysis_retries =
                IF current_agent = "verification" /\ next_agent' \in AnalysisRoutes
                THEN metadata.analysis_retries + 1 ELSE metadata.analysis_retries
           /\ next_agent' = "fuzz" =>
                FuzzRequested(task, planned) /\ ~InHistory("fuzz", route_history)
           /\ next_agent' = "report" /\ ~metadata'.fallback_used =>
                \/ current_agent = "reviewer"
                \/ current_agent \in AnalysisRoutes /\ findings = <<>>
<1>1. PICK p \in Proposals :
        /\ metadata' = RecordDecision(EnforceRetries(p), Settle(EnforceRetries(p)))
        /\ next_agent' = Settle(EnforceRetries(p)).route
        /\ pc' = IF Settle(EnforceRetries(p)).route = "finish" THEN "ended" ELSE "dispatch"
  BY DEF Supervise
<1> DEFINE d == Settle(p)
           left == IF current_agent = "report" THEN "finish" ELSE "report"
<1>2. /\ EnforceRetries(p) = p /\ p \in RouteDecision /\ p.route \in AgentRoute
      /\ current_agent = "report" => p.route = "finish"
      /\ current_agent # "report" => p.route \in Successors(current_agent) \cup {"report"}
      /\ p.execution_failed => metadata.execution_failed
      /\ metadata.force_fallback => p.fallback_used /\ p.route \in {"finish", "report"}
      /\ p.retry => current_agent = "verification"
      /\ current_agent = "verification" /\ p.route \in AnalysisRoutes =>
           p.retry /\ ~p.fallback_used
      /\ p.route = "fuzz" =>
           FuzzRequested(task, planned) /\ ~InHistory("fuzz", route_history)
      /\ p.route = "report" /\ ~p.fallback_used =>
           \/ current_agent = "reviewer"
           \/ current_agent \in AnalysisRoutes /\ findings = <<>>
  BY <1>1, ProposalFacts
<1>3. d = p \/ (d.route = left /\ d.fallback_used /\ ~d.execution_failed)
  BY <1>2, SettledRoute
<1>4. metadata' = RecordDecision(p, d) /\ next_agent' = d.route
      /\ pc' = IF d.route = "finish" THEN "ended" ELSE "dispatch"
  BY <1>1, <1>2
<1>5. d \in RouteDecision
  BY <1>2, SettleIsLegal, TypeOKSplits DEF Legal, IInv, StateTypeOK
<1> HIDE DEF d
<1>6. IF current_agent = "report" THEN d.route = "finish"
      ELSE d.route # "finish" /\ d.route \in Successors(current_agent) \cup {"report"}
  BY <1>2, <1>3, SuccessorsType DEF AgentRoutes, DiscoveryRoutes, AnalysisRoutes
<1>7. RetryExecuted(p, d) <=>
        current_agent = "verification" /\ d.route \in AnalysisRoutes
  BY <1>2, <1>3 DEF RetryExecuted, RetryRequest, AnalysisRoutes
<1>8. /\ metadata'.execution_failed <=> (metadata.execution_failed \/ d.execution_failed)
      /\ metadata'.fallback_used <=> (metadata.fallback_used \/ d.fallback_used)
      /\ ~metadata'.force_fallback
      /\ metadata'.analysis_retries =
           IF RetryExecuted(p, d) THEN metadata.analysis_retries + 1
           ELSE metadata.analysis_retries
  <2>1. /\ metadata \in Metadata
        /\ d.fallback_used \in BOOLEAN /\ d.execution_failed \in BOOLEAN
        /\ d.step_limit_reached \in BOOLEAN /\ p.retry_exhausted \in BOOLEAN
    BY <1>2, <1>5, TypeOKSplits DEF IInv, StateTypeOK, RouteDecision
  <2> DEFINE fallback == metadata.fallback_used \/ d.fallback_used
             failed == metadata.execution_failed \/ d.execution_failed
             limit == metadata.step_limit_reached \/ d.step_limit_reached
             exhausted == metadata.retry_exhausted \/ p.retry_exhausted
             retries == IF RetryExecuted(p, d) THEN metadata.analysis_retries + 1
                        ELSE metadata.analysis_retries
  <2>2. metadata' = Recorded(metadata, fallback, failed, limit, exhausted, retries)
    BY <1>4 DEF RecordDecision, Recorded
  <2>3. /\ fallback \in BOOLEAN /\ failed \in BOOLEAN /\ limit \in BOOLEAN
        /\ exhausted \in BOOLEAN
    OBVIOUS
  <2>4. retries \in Nat
    BY <2>1 DEF Metadata
  <2> HIDE DEF fallback, failed, limit, exhausted, retries
  <2> DEFINE m == Recorded(metadata, fallback, failed, limit, exhausted, retries)
  <2>5. /\ m.execution_failed = failed /\ m.fallback_used = fallback
        /\ ~m.force_fallback /\ m.analysis_retries = retries
    BY <2>1, <2>3, <2>4, RecordedType
  <2> HIDE DEF m
  <2>6. /\ metadata'.execution_failed = failed /\ metadata'.fallback_used = fallback
        /\ ~metadata'.force_fallback /\ metadata'.analysis_retries = retries
    BY <2>2, <2>5 DEF m
  <2>7. metadata'.execution_failed <=> failed
    BY <2>6
  <2>8. metadata'.fallback_used <=> fallback
    BY <2>6
  <2> QED
    BY <2>6, <2>7, <2>8 DEF fallback, failed, retries
<1>9. metadata'.execution_failed <=> metadata.execution_failed
  BY <1>2, <1>3, <1>8
<1>10. /\ metadata.fallback_used => metadata'.fallback_used
       /\ metadata.force_fallback =>
            metadata'.fallback_used /\ next_agent' \in {"finish", "report"}
  BY <1>2, <1>3, <1>4, <1>8
<1>11. /\ next_agent' = "fuzz" =>
            FuzzRequested(task, planned) /\ ~InHistory("fuzz", route_history)
       /\ next_agent' = "report" /\ ~metadata'.fallback_used =>
            \/ current_agent = "reviewer"
            \/ current_agent \in AnalysisRoutes /\ findings = <<>>
  BY <1>2, <1>3, <1>4, <1>8
<1> QED
  BY <1>4, <1>6, <1>7, <1>8, <1>9, <1>10, <1>11

-----------------------------------------------------------------------------
(* The invariant of the default supervisor holds: its parts, action by action.*)

\* An analysis follows the planner or a verification.
LEMMA AnalysisFollows ==
    ASSUME NEW current \in AgentRoutes \cup {"none"}, NEW r \in AnalysisRoutes,
           r \in Successors(current) \cup {"report"}
    PROVE  current \in {"planner", "verification"}
BY DEF Successors, AgentRoutes, DiscoveryRoutes, AnalysisRoutes

LEMMA AnalysesRunType ==
    ASSUME IInv
    PROVE  AnalysesRun \in Nat
BY TypeOKSplits, CountType DEF IInv, StateTypeOK, AnalysesRun

LEMMA InitIsDefault == Init => DefaultInv
<1> SUFFICES ASSUME Init PROVE DefaultInv
  OBVIOUS
<1>1. /\ route_history = <<>> /\ completed_agents = <<>> /\ current_agent = "none"
      /\ pc = "supervise" /\ next_agent = "none" /\ metadata = NoMetadata
      /\ findings = <<>> /\ reports = <<>> /\ planned = FALSE
  BY DEF Init
<1>2. ~InHistory("report", route_history) /\ ~InHistory("fuzz", route_history)
  BY <1>1 DEF InHistory
<1>3. Position
  BY <1>1, <1>2 DEF Position, Waiting
<1>4. Failing
  BY <1>1 DEF Failing, OnlyReportAfterFailure, NoMetadata
<1>5. Count(route_history, "source_analysis") = 0 /\ Count(route_history, "binary_analysis") = 0
  <2>1. route_history \in Seq(AgentRoutes) /\ \A q : ~InHistory(q, route_history)
    BY <1>1 DEF InHistory
  <2> QED
    BY <2>1, CountAbsent
<1>6. Retrying
  BY <1>1, <1>5
     DEF Retrying, RetriesAccounted, AnalysesStarted, AnalysesRun, NoMetadata,
         DiscoveryRoutes, AnalysisRoutes
<1>7. Fuzzing
  BY <1>1, <1>2 DEF Fuzzing, FuzzAuthorized
<1>8. Reporting
  BY <1>1 DEF Reporting, Waiting
<1> QED
  BY <1>3, <1>4, <1>6, <1>7, <1>8 DEF DefaultInv

LEMMA SuperviseIsDefault ==
    ASSUME IInv, DefaultInv, ~InjectedSupervisor, Supervise
    PROVE  DefaultInv'
<1>1. /\ pc = "supervise" /\ task' = task
      /\ UNCHANGED <<current_agent, route_history, completed_agents>>
      /\ UNCHANGED <<findings, evidence, verifications, reports, planned, requested,
                     review>>
  BY DEF Supervise, context
<1>2. /\ IF current_agent = "report"
         THEN pc' = "ended" /\ next_agent' = "finish"
         ELSE /\ pc' = "dispatch"
              /\ next_agent' \in Successors(current_agent) \cup {"report"}
      /\ metadata'.execution_failed <=> metadata.execution_failed
      /\ metadata.fallback_used => metadata'.fallback_used
      /\ ~metadata'.force_fallback
      /\ metadata.force_fallback =>
           metadata'.fallback_used /\ next_agent' \in {"finish", "report"}
      /\ metadata'.analysis_retries =
           IF current_agent = "verification" /\ next_agent' \in AnalysisRoutes
           THEN metadata.analysis_retries + 1 ELSE metadata.analysis_retries
      /\ next_agent' = "fuzz" =>
           FuzzRequested(task, planned) /\ ~InHistory("fuzz", route_history)
      /\ next_agent' = "report" /\ ~metadata'.fallback_used =>
           \/ current_agent = "reviewer"
           \/ current_agent \in AnalysisRoutes /\ findings = <<>>
  BY SuperviseFacts
<1>3. /\ current_agent \in AgentRoutes \cup {"none"} /\ route_history \in Seq(AgentRoutes)
      /\ metadata.analysis_retries \in Nat
  BY TypeOKSplits DEF IInv, StateTypeOK, Metadata
<1>4. Position'
  BY <1>1, <1>2 DEF DefaultInv, Position, Waiting, InHistory, Successors, AnalysisRoute
<1>5. Failing'
  <2>1. Failing
    BY DEF DefaultInv
  <2>2. (metadata.execution_failed /\ current_agent # "report" => FailureIsLast)'
    <3>1. ASSUME metadata'.execution_failed, current_agent # "report"
          PROVE  FailureIsLast'
      <4>1. FailureIsLast /\ metadata.force_fallback
        BY <1>1, <1>2, <2>1, <3>1 DEF Failing, FailureIsLast
      <4>2. next_agent' = "report" /\ pc' = "dispatch"
        BY <1>2, <3>1, <4>1, SuccessorsType DEF AgentRoutes, DiscoveryRoutes, AnalysisRoutes
      <4> QED
        BY <1>1, <4>1, <4>2 DEF FailureIsLast
    <3> QED
      BY <1>1, <3>1
  <2>3. OnlyReportAfterFailure'
    BY <1>1, <2>1 DEF Failing, OnlyReportAfterFailure
  <2> QED
    BY <1>1, <1>2, <2>1, <2>2, <2>3 DEF Failing
<1>6. Retrying'
  <2>1. AnalysesRun \in Nat /\ AnalysesRun' = AnalysesRun
    BY <1>1, AnalysesRunType DEF AnalysesRun, Count
  <2>2. AnalysesStarted = AnalysesRun
    BY <1>1, <2>1 DEF AnalysesStarted, AnalysesRun
  <2>3. AnalysesStarted' =
          AnalysesRun + (IF pc' = "dispatch" /\ next_agent' \in AnalysisRoutes THEN 1 ELSE 0)
    BY <1>2, <2>1 DEF AnalysesStarted, AnalysesRun
  <2>4. Retrying
    BY DEF DefaultInv
  <2>5. CASE next_agent' \in AnalysisRoutes
    <3>1. pc' = "dispatch" /\ current_agent \in {"planner", "verification"}
      BY <1>2, <1>3, <2>5, AnalysisFollows DEF AnalysisRoutes
    <3> QED
      BY <1>1, <1>2, <1>3, <2>1, <2>2, <2>3, <2>4, <2>5, <3>1
         DEF Retrying, RetriesAccounted
  <2>6. CASE next_agent' \notin AnalysisRoutes
    BY <1>1, <1>2, <1>3, <2>1, <2>2, <2>3, <2>4, <2>6 DEF Retrying, RetriesAccounted
  <2> QED
    BY <2>5, <2>6
<1>7. Fuzzing'
  <2>1. Fuzzing /\ next_agent = "none"
    BY <1>1 DEF DefaultInv, Position
  <2>2. CASE next_agent' = "fuzz"
    <3>1. FuzzRequested(task, planned) /\ Count(route_history, "fuzz") = 0
      BY <1>2, <1>3, <2>2, CountAbsent
    <3> QED
      BY <1>1, <2>1, <2>2, <3>1 DEF Fuzzing, FuzzAuthorized, FuzzRequested, Count
  <2>3. CASE next_agent' # "fuzz"
    BY <1>1, <2>1, <2>3 DEF Fuzzing, FuzzAuthorized, InHistory, Count
  <2> QED
    BY <2>2, <2>3
<1>8. Reporting'
  <2>1. Reporting
    BY DEF DefaultInv
  <2>2. Clean' => Clean
    BY <1>2 DEF Clean
  <2>3. (AllFinal' <=> AllFinal) /\ (ReviewCurrent' <=> ReviewCurrent)
    BY <1>1 DEF AllFinal, ReviewCurrent, ReviewResult, ReviewPasses
  <2>4. ASSUME Clean', (current_agent = "report" \/ (Waiting /\ next_agent = "report"))'
        PROVE  (findings # <<>> => ReviewCurrent) /\ AllFinal
    <3>1. CASE current_agent = "report"
      BY <2>1, <2>2, <2>4, <3>1 DEF Reporting
    <3>2. CASE current_agent # "report"
      <4>1. \/ current_agent = "reviewer"
            \/ current_agent \in AnalysisRoutes /\ findings = <<>>
        BY <1>1, <1>2, <2>4, <3>2 DEF Clean
      <4>2. findings = <<>> => AllFinal
        BY DEF AllFinal
      <4> QED
        BY <2>1, <2>2, <2>4, <4>1, <4>2 DEF Reporting
    <3> QED
      BY <3>1, <3>2
  <2> QED
    BY <1>1, <1>2, <2>1, <2>2, <2>3, <2>4 DEF Reporting
<1> QED
  BY <1>4, <1>5, <1>6, <1>7, <1>8 DEF DefaultInv

\* Entering an agent node, leaving the graph through on_route, or no step.
LEMMA NodeIsDefault ==
    ASSUME DefaultInv, \/ pc' = pc
                       \/ pc = "dispatch" /\ pc' \in {"running", "raised"},
           UNCHANGED <<task, current_agent, next_agent, step_count, route_history,
                       completed_agents, metadata, context>>
    PROVE  DefaultInv'
<1>1. UNCHANGED <<findings, evidence, verifications, reports, planned, requested, review>>
      /\ UNCHANGED <<task, current_agent, next_agent, step_count, route_history,
                     completed_agents, metadata>>
  BY DEF context
<1>2. Position'
  BY <1>1 DEF DefaultInv, Position, Waiting, InHistory, Successors, AnalysisRoute
<1>3. Failing'
  BY <1>1 DEF DefaultInv, Failing, FailureIsLast, Waiting, OnlyReportAfterFailure
<1>4. Retrying'
  BY <1>1 DEF DefaultInv, Retrying, RetriesAccounted, AnalysesStarted, AnalysesRun, Count
<1>5. Fuzzing'
  BY <1>1 DEF DefaultInv, Fuzzing, FuzzAuthorized, InHistory, Count
<1>6. Reporting'
  <2>1. (AllFinal' <=> AllFinal) /\ (ReviewCurrent' <=> ReviewCurrent)
    BY <1>1 DEF AllFinal, ReviewCurrent, ReviewResult, ReviewPasses
  <2> QED
    BY <1>1, <2>1 DEF DefaultInv, Reporting, Clean, Waiting
<1> QED
  BY <1>2, <1>3, <1>4, <1>5, <1>6 DEF DefaultInv

\* An agent returns, with whatever result: the state it leaves from and the
\* state it leaves behind.
LEMMA LeavesFacts ==
    ASSUME IInv, DefaultInv, AgentLeaves
    PROVE  /\ next_agent \in AgentRoutes /\ route_history \in Seq(AgentRoutes)
           /\ completed_agents \in Seq(AgentRoutes)
           /\ current_agent # "report"
           /\ next_agent \in Successors(current_agent) \cup {"report"}
           /\ Waiting /\ ~Waiting' /\ pc = "running" /\ pc' = "supervise"
           /\ task' = task /\ current_agent' = next_agent /\ next_agent' = "none"
           /\ route_history' = Append(route_history, next_agent)
           /\ reports = <<>>
<1>1. /\ pc = "running" /\ pc' = "supervise" /\ task' = task
      /\ current_agent' = next_agent /\ next_agent' = "none"
      /\ route_history' = Append(route_history, next_agent)
  BY DEF AgentLeaves
<1>2. next_agent \in AgentRoutes
  BY AgentLeavesKeeps
<1>3. route_history \in Seq(AgentRoutes) /\ completed_agents \in Seq(AgentRoutes)
  BY TypeOKSplits DEF IInv, StateTypeOK
<1>4. Waiting /\ ~Waiting'
  BY <1>1 DEF Waiting
<1>5. current_agent # "report" /\ next_agent \in Successors(current_agent) \cup {"report"}
  BY <1>4 DEF DefaultInv, Position
<1>6. reports = <<>>
  BY <1>5 DEF DefaultInv, Reporting
<1> QED
  BY <1>1, <1>2, <1>3, <1>4, <1>5, <1>6

LEMMA LeavesPosition ==
    ASSUME IInv, DefaultInv, AgentLeaves
    PROVE  Position'
<1>1. /\ next_agent \in AgentRoutes /\ route_history \in Seq(AgentRoutes)
      /\ current_agent # "report"
      /\ ~Waiting' /\ pc' = "supervise"
      /\ current_agent' = next_agent /\ next_agent' = "none"
      /\ route_history' = Append(route_history, next_agent)
  BY LeavesFacts
<1>2. route_history' # <<>> /\ route_history'[Len(route_history')] = next_agent
  BY <1>1
<1>3. InHistory("report", route_history') => next_agent = "report"
  BY <1>1, InHistoryAppend, ReportIsLast
<1> QED
  BY <1>1, <1>2, <1>3 DEF Position

LEMMA LeavesRetrying ==
    ASSUME IInv, DefaultInv, AgentLeaves,
           metadata'.analysis_retries = metadata.analysis_retries
    PROVE  Retrying'
<1> DEFINE one == IF next_agent \in AnalysisRoutes THEN 1 ELSE 0
<1>1. /\ next_agent \in AgentRoutes /\ route_history \in Seq(AgentRoutes)
      /\ current_agent # "report"
      /\ next_agent \in Successors(current_agent) \cup {"report"}
      /\ pc = "running" /\ pc' = "supervise"
      /\ current_agent' = next_agent
      /\ route_history' = Append(route_history, next_agent)
  BY LeavesFacts
<1>2. AnalysesRun \in Nat /\ AnalysesRun' = AnalysesRun + one
  <2>1. \A q : Count(route_history, q) \in Nat
    BY <1>1, CountType
  <2>2. \A q : Count(route_history', q) =
                 IF q = next_agent THEN Count(route_history, q) + 1 ELSE Count(route_history, q)
    BY <1>1, CountAppend
  <2> QED
    BY <2>1, <2>2 DEF AnalysesRun, AnalysisRoutes
<1>3. AnalysesStarted = AnalysesRun + one /\ AnalysesStarted' = AnalysesRun'
  BY <1>1, <1>2 DEF AnalysesStarted, AnalysesRun
<1>4. Retrying /\ metadata.analysis_retries \in Nat
      /\ current_agent \in AgentRoutes \cup {"none"}
  BY TypeOKSplits DEF DefaultInv, IInv, StateTypeOK, Metadata
<1>5. (current_agent \in {"none", "planner"} => AnalysesRun = 0)'
  <2>1. ASSUME next_agent = "planner" PROVE AnalysesRun' = 0
    <3>1. current_agent = "none"
      BY <1>1, <1>4, <2>1
         DEF Successors, AnalysisRoute, AgentRoutes, DiscoveryRoutes, AnalysisRoutes
    <3>2. one = 0
      BY <2>1 DEF AnalysisRoutes
    <3> QED
      BY <1>2, <1>4, <3>1, <3>2 DEF Retrying
  <2> QED
    BY <1>1, <2>1 DEF AgentRoutes, DiscoveryRoutes, AnalysisRoutes
<1>6. (current_agent \in DiscoveryRoutes \cup {"verification", "reviewer"} =>
         AnalysesRun > 0)'
  <2>1. CASE next_agent \in AnalysisRoutes
    BY <1>2, <2>1
  <2>2. CASE next_agent \in {"fuzz", "verification", "reviewer"}
    <3>1. current_agent \in DiscoveryRoutes \cup {"verification"}
      BY <1>1, <1>4, <2>2
         DEF Successors, AnalysisRoute, AgentRoutes, DiscoveryRoutes, AnalysisRoutes
    <3>2. AnalysesRun > 0
      BY <1>4, <3>1 DEF Retrying
    <3> QED
      BY <1>2, <3>2
  <2> QED
    BY <1>1, <2>1, <2>2 DEF DiscoveryRoutes
<1> HIDE DEF one
<1> QED
  BY <1>2, <1>3, <1>4, <1>5, <1>6 DEF Retrying, RetriesAccounted

LEMMA LeavesFuzzing ==
    ASSUME IInv, DefaultInv, AgentLeaves,
           planned' => planned \/ (task.fuzz_authorized /\ task.dynamic_validation)
    PROVE  Fuzzing'
<1>1. /\ next_agent \in AgentRoutes /\ route_history \in Seq(AgentRoutes)
      /\ task' = task /\ next_agent' = "none"
      /\ route_history' = Append(route_history, next_agent)
  BY LeavesFacts
<1>2. Fuzzing
  BY DEF DefaultInv
<1>3. InHistory("fuzz", route_history') => InHistory("fuzz", route_history) \/ next_agent = "fuzz"
  BY <1>1, InHistoryAppend
<1>4. Count(route_history', "fuzz") =
        Count(route_history, "fuzz") + (IF next_agent = "fuzz" THEN 1 ELSE 0)
  <2>1. Count(route_history, "fuzz") \in Nat
    BY <1>1, CountType
  <2>2. Count(route_history', "fuzz") =
          IF "fuzz" = next_agent THEN Count(route_history, "fuzz") + 1
          ELSE Count(route_history, "fuzz")
    BY <1>1, CountAppend
  <2> QED
    BY <2>1, <2>2
<1>5. Count(route_history', "fuzz") \in Nat
  <2>1. route_history' \in Seq(AgentRoutes)
    BY <1>1
  <2> QED
    BY <2>1, CountType
<1> QED
  BY <1>1, <1>2, <1>3, <1>4, <1>5 DEF Fuzzing, FuzzAuthorized

LEMMA SuccessFailing ==
    ASSUME IInv, DefaultInv, NEW routes, AgentSucceeds(routes)
    PROVE  Failing'
<1>1. AgentLeaves /\ metadata' = metadata
      /\ completed_agents' = Append(completed_agents, next_agent)
  BY DEF AgentSucceeds
<1>2. /\ next_agent \in AgentRoutes /\ route_history \in Seq(AgentRoutes)
      /\ completed_agents \in Seq(AgentRoutes)
      /\ current_agent # "report" /\ Waiting
      /\ pc = "running" /\ pc' = "supervise" /\ current_agent' = next_agent
      /\ route_history' = Append(route_history, next_agent)
  BY <1>1, LeavesFacts
<1>3. Failing
  BY DEF DefaultInv
<1>4. CASE ~metadata.execution_failed
  <2>1. completed_agents' = route_history'
    BY <1>1, <1>2, <1>3, <1>4 DEF Failing
  <2>2. OnlyReportAfterFailure'
    BY <1>1, <2>1 DEF OnlyReportAfterFailure
  <2> QED
    BY <1>1, <1>3, <1>4, <2>1, <2>2 DEF Failing
<1>5. CASE metadata.execution_failed
  <2>1. FailureIsLast /\ metadata.fallback_used
    BY <1>2, <1>3, <1>5 DEF Failing
  <2>2. next_agent = "report"
    BY <1>2, <2>1 DEF FailureIsLast
  <2>3. OnlyReportAfterFailure'
    <3>1. /\ Len(completed_agents) \in Nat
          /\ Len(route_history') = Len(completed_agents) + 2
          /\ Len(completed_agents') = Len(completed_agents) + 1
          /\ route_history'[Len(route_history')] = "report"
          /\ \A i \in 1..Len(completed_agents) : completed_agents'[i] = route_history'[i]
      BY <1>1, <1>2, <2>1, <2>2 DEF FailureIsLast
    <3> QED
      BY <1>2, <3>1 DEF OnlyReportAfterFailure
  <2> QED
    BY <1>1, <1>2, <1>3, <1>5, <2>1, <2>2, <2>3 DEF Failing
<1> QED
  BY <1>4, <1>5

LEMMA FailureFailing ==
    ASSUME IInv, DefaultInv, AgentFails
    PROVE  /\ Failing'
           /\ metadata'.execution_failed /\ metadata'.force_fallback
           /\ metadata'.analysis_retries = metadata.analysis_retries
<1>1. AgentLeaves /\ metadata' = FailureMetadata /\ completed_agents' = completed_agents
  BY DEF AgentFails
<1>2. /\ next_agent \in AgentRoutes /\ route_history \in Seq(AgentRoutes)
      /\ completed_agents \in Seq(AgentRoutes)
      /\ current_agent # "report" /\ Waiting /\ ~Waiting'
      /\ pc = "running" /\ pc' = "supervise" /\ current_agent' = next_agent
      /\ route_history' = Append(route_history, next_agent)
  BY <1>1, LeavesFacts
<1>3. Failing
  BY DEF DefaultInv
<1>4. /\ metadata'.execution_failed /\ metadata'.force_fallback
      /\ metadata'.analysis_retries = metadata.analysis_retries
  BY <1>1, TypeOKSplits DEF IInv, StateTypeOK, FailureMetadata, Metadata
<1>5. CASE ~metadata.execution_failed
  <2>1. /\ Len(route_history') = Len(completed_agents') + 1
        /\ \A i \in DOMAIN completed_agents' : completed_agents'[i] = route_history'[i]
    BY <1>1, <1>2, <1>3, <1>5 DEF Failing
  <2>2. FailureIsLast'
    BY <1>2, <1>4, <2>1 DEF FailureIsLast
  <2>3. OnlyReportAfterFailure'
    BY <1>1, <1>2, <2>1 DEF OnlyReportAfterFailure
  <2> QED
    BY <1>2, <1>4, <2>2, <2>3 DEF Failing
<1>6. CASE metadata.execution_failed
  <2>1. FailureIsLast /\ next_agent = "report"
    BY <1>2, <1>3, <1>6 DEF Failing, FailureIsLast
  <2>2. OnlyReportAfterFailure'
    <3>1. /\ Len(completed_agents) \in Nat
          /\ Len(route_history') = Len(completed_agents) + 2
          /\ completed_agents' = completed_agents
          /\ route_history'[Len(route_history')] = "report"
          /\ \A i \in 1..Len(completed_agents) : completed_agents'[i] = route_history'[i]
      BY <1>1, <1>2, <2>1 DEF FailureIsLast
    <3> QED
      BY <1>2, <3>1 DEF OnlyReportAfterFailure
  <2> QED
    BY <1>2, <1>4, <2>1, <2>2 DEF Failing
<1> QED
  BY <1>4, <1>5, <1>6

\* The parts that every agent that succeeds keeps.
LEMMA SuccessIsDefault ==
    ASSUME IInv, DefaultInv, NEW routes, AgentSucceeds(routes),
           planned' => planned \/ (task.fuzz_authorized /\ task.dynamic_validation),
           Reporting'
    PROVE  DefaultInv'
<1>1. AgentLeaves /\ metadata' = metadata
  BY DEF AgentSucceeds
<1>2. Position' /\ Retrying' /\ Fuzzing'
  BY <1>1, LeavesPosition, LeavesRetrying, LeavesFuzzing
<1>3. Failing'
  BY SuccessFailing
<1> QED
  BY <1>2, <1>3 DEF DefaultInv

\* An agent before the report that writes no verdict and no review.
LEMMA EarlyReporting ==
    ASSUME IInv, DefaultInv, NEW routes, AgentSucceeds(routes),
           "report" \notin routes, "verification" \notin routes, "reviewer" \notin routes,
           reports' = reports
    PROVE  Reporting'
<1>1. AgentLeaves /\ next_agent \in routes
  BY DEF AgentSucceeds
<1>2. reports = <<>> /\ current_agent' = next_agent /\ ~Waiting'
  BY <1>1, LeavesFacts
<1> QED
  BY <1>1, <1>2 DEF Reporting

LEMMA PlannerIsDefault == IInv /\ DefaultInv /\ PlannerAgent => DefaultInv'
<1> SUFFICES ASSUME IInv, DefaultInv, PlannerAgent PROVE DefaultInv'
  OBVIOUS
<1>1. AgentSucceeds({"planner"}) /\ reports' = reports
      /\ planned' = (planned \/ (task.fuzz_authorized /\ task.dynamic_validation))
  BY DEF PlannerAgent
<1>2. planned' => planned \/ (task.fuzz_authorized /\ task.dynamic_validation)
  BY <1>1
<1> QED
  BY <1>1, <1>2, EarlyReporting, SuccessIsDefault

LEMMA AnalysisIsDefault == IInv /\ DefaultInv /\ AnalysisAgent => DefaultInv'
<1> SUFFICES ASSUME IInv, DefaultInv, AnalysisAgent PROVE DefaultInv'
  OBVIOUS
<1>1. AgentSucceeds(AnalysisRoutes) /\ reports' = reports /\ planned' = planned
  BY DEF AnalysisAgent
<1>2. Reporting'
  BY <1>1, EarlyReporting DEF AnalysisRoutes
<1> QED
  BY <1>1, <1>2, SuccessIsDefault

LEMMA FuzzIsDefault == IInv /\ DefaultInv /\ FuzzAgent => DefaultInv'
<1> SUFFICES ASSUME IInv, DefaultInv, FuzzAgent PROVE DefaultInv'
  OBVIOUS
<1>1. AgentSucceeds({"fuzz"}) /\ reports' = reports /\ planned' = planned
  BY DEF FuzzAgent
<1> QED
  BY <1>1, EarlyReporting, SuccessIsDefault

\* Every finding a verification leaves has a final status.
LEMMA VerificationIsDefault == IInv /\ DefaultInv /\ VerificationAgent => DefaultInv'
<1> SUFFICES ASSUME IInv, DefaultInv, VerificationAgent PROVE DefaultInv'
  OBVIOUS
<1>1. AgentSucceeds({"verification"}) /\ reports' = reports /\ planned' = planned
  BY DEF VerificationAgent
<1>2. AllFinal'
  <2>1. PICK answers \in Answers :
          Authorized("verification", Verified(answers)) /\ Merge(Verified(answers), TRUE)
    BY DEF VerificationAgent
  <2>2. findings' = Verified(answers).findings
    BY <2>1 DEF Merge
  <2> QED
    BY <2>1, <2>2 DEF AllFinal, Authorized, DiscoveryRoutes, AnalysisRoutes
<1>3. reports = <<>> /\ current_agent' = "verification" /\ ~Waiting'
  BY <1>1, LeavesFacts DEF AgentSucceeds
<1>4. Reporting'
  BY <1>1, <1>2, <1>3 DEF Reporting
<1> QED
  BY <1>1, <1>4, SuccessIsDefault

\* The review is that of the findings as they are.
LEMMA ReviewerIsDefault == IInv /\ DefaultInv /\ ReviewerAgent => DefaultInv'
<1> SUFFICES ASSUME IInv, DefaultInv, ReviewerAgent PROVE DefaultInv'
  OBVIOUS
<1>1. /\ AgentSucceeds({"reviewer"}) /\ reports' = reports /\ planned' = planned
      /\ UNCHANGED <<findings, evidence, verifications>> /\ review' = ReviewResult
  BY DEF ReviewerAgent
<1>2. AgentLeaves /\ next_agent = "reviewer" /\ metadata' = metadata
  BY <1>1 DEF AgentSucceeds
<1>3. /\ reports = <<>> /\ current_agent' = "reviewer" /\ ~Waiting'
      /\ "reviewer" \in Successors(current_agent)
  BY <1>2, LeavesFacts
<1>4. current_agent = "verification"
  BY <1>3, TypeOKSplits
     DEF IInv, StateTypeOK, Successors, AnalysisRoute, AgentRoutes, DiscoveryRoutes,
         AnalysisRoutes
<1>5. ReviewCurrent'
  BY <1>1 DEF ReviewCurrent, ReviewResult, ReviewPasses
<1>6. Reporting'
  <2>1. ASSUME Clean' PROVE AllFinal'
    BY <1>1, <1>2, <1>4, <2>1 DEF DefaultInv, Reporting, Clean, AllFinal
  <2> QED
    BY <1>1, <1>3, <1>5, <2>1 DEF Reporting
<1> QED
  BY <1>1, <1>6, SuccessIsDefault

LEMMA ReportIsDefault == IInv /\ DefaultInv /\ ReportAgent => DefaultInv'
<1> SUFFICES ASSUME IInv, DefaultInv, ReportAgent PROVE DefaultInv'
  OBVIOUS
<1>1. /\ AgentSucceeds({"report"}) /\ reports' = Append(reports, findings)
      /\ UNCHANGED <<findings, evidence, verifications, planned, review>>
  BY DEF ReportAgent
<1>2. AgentLeaves /\ next_agent = "report" /\ metadata' = metadata
  BY <1>1 DEF AgentSucceeds
<1>3. reports = <<>> /\ current_agent' = "report" /\ Waiting /\ ~Waiting'
  BY <1>2, LeavesFacts
<1>4. reports' = <<findings'>> /\ reports' # <<>>
  BY <1>1, <1>3
<1>5. Reporting'
  <2>1. (AllFinal' <=> AllFinal) /\ (ReviewCurrent' <=> ReviewCurrent)
    BY <1>1 DEF AllFinal, ReviewCurrent, ReviewResult, ReviewPasses
  <2> QED
    BY <1>1, <1>2, <1>3, <1>4, <2>1 DEF DefaultInv, Reporting, Clean
<1> QED
  BY <1>1, <1>5, SuccessIsDefault

LEMMA FailureIsDefault == IInv /\ DefaultInv /\ AgentFails => DefaultInv'
<1> SUFFICES ASSUME IInv, DefaultInv, AgentFails PROVE DefaultInv'
  OBVIOUS
<1>1. AgentLeaves /\ reports' = reports /\ planned' = planned
  BY DEF AgentFails, context
<1>2. /\ Failing' /\ metadata'.execution_failed
      /\ metadata'.analysis_retries = metadata.analysis_retries
  BY FailureFailing
<1>3. Position' /\ Retrying' /\ Fuzzing'
  BY <1>1, <1>2, LeavesPosition, LeavesRetrying, LeavesFuzzing
<1>4. Reporting'
  BY <1>1, <1>2, LeavesFacts DEF Reporting, Clean
<1> QED
  BY <1>2, <1>3, <1>4 DEF DefaultInv

\* Every step of a run with the default supervisor.
LEMMA StepIsDefault ==
    ~InjectedSupervisor /\ IInv /\ DefaultInv /\ [Next]_vars => DefaultInv'
<1> SUFFICES ASSUME ~InjectedSupervisor, IInv, DefaultInv, [Next]_vars
             PROVE  DefaultInv'
  OBVIOUS
<1>1. CASE Supervise
  BY <1>1, SuperviseIsDefault
<1>2. CASE SuperviseRaises
  BY <1>2 DEF SuperviseRaises
<1>3. CASE StartAgent
  BY <1>3, NodeIsDefault DEF StartAgent
<1>4. CASE ObserverRaises
  BY <1>4, NodeIsDefault DEF ObserverRaises
<1>5. CASE FinishAgent
  BY <1>5, PlannerIsDefault, AnalysisIsDefault, FuzzIsDefault, VerificationIsDefault,
     ReviewerIsDefault, ReportIsDefault, FailureIsDefault DEF FinishAgent
<1>6. CASE Done \/ UNCHANGED vars
  BY <1>6, NodeIsDefault DEF Done, vars, state
<1> QED
  BY <1>1, <1>2, <1>3, <1>4, <1>5, <1>6 DEF Next

-----------------------------------------------------------------------------
(* The theorems about the default supervisor.                              *)

(* With the default supervisor every state of a run of the runtime's graph *)
(* keeps the two parts of the inductive invariant: the run's shape and     *)
(* what the supervisor's order of routes implies about its results.        *)
THEOREM DefaultInvariant == ~InjectedSupervisor => (Spec => [](IInv /\ DefaultInv))
<1> SUFFICES ASSUME ~InjectedSupervisor PROVE Spec => [](IInv /\ DefaultInv)
  OBVIOUS
<1>1. Init => IInv /\ DefaultInv
  BY InitEstablishes, InitIsDefault
<1>2. IInv /\ DefaultInv /\ [Next]_vars => (IInv /\ DefaultInv)'
  BY StepKeeps, StepIsDefault
<1> QED
  BY <1>1, <1>2, PTL DEF Spec

\* Every analysis after the first is a retry the counter knows.
THEOREM RetriesAreAccounted == ~InjectedSupervisor => (Spec => []RetriesAccounted)
<1>1. DefaultInv => RetriesAccounted
  BY DEF DefaultInv, Retrying
<1> QED
  BY <1>1, DefaultInvariant, PTL

\* After a failure the report is the only agent that may still run.
THEOREM FailureLeadsToReport == ~InjectedSupervisor => (Spec => []OnlyReportAfterFailure)
<1>1. DefaultInv => OnlyReportAfterFailure
  BY DEF DefaultInv, Failing
<1> QED
  BY <1>1, DefaultInvariant, PTL

\* What a run that ends reports is what it found; a run without a fallback has
\* verified all of it, and its review is of exactly that.
THEOREM ReportsAreCurrent == ~InjectedSupervisor => (Spec => []ReportIsCurrent)
<1>1. DefaultInv => ReportIsCurrent
  <2> SUFFICES ASSUME DefaultInv, pc = "ended" PROVE ReportIsCurrent
    BY DEF ReportIsCurrent
  <2>1. current_agent = "report" /\ Reporting /\ Failing
    BY DEF DefaultInv, Position
  <2>2. reports = <<>> \/ reports = <<findings>>
    BY <2>1 DEF Reporting
  <2>3. reports # <<>> => reports[Len(reports)] = findings /\ Len(reports) = 1
    BY <2>2
  <2>4. metadata.execution_failed => metadata.fallback_used
    BY <2>1 DEF Failing
  <2> QED
    BY <2>1, <2>3, <2>4 DEF ReportIsCurrent, Reporting, ReviewCurrent, Clean, AllFinal
<1> QED
  BY <1>1, DefaultInvariant, PTL

\* No run reaches the fuzz agent without an authorization, a plan and a target
\* that can be fuzzed, nor twice.
THEOREM FuzzIsAuthorized == ~InjectedSupervisor => (Spec => []FuzzAuthorized)
<1>1. DefaultInv => FuzzAuthorized
  BY DEF DefaultInv, Fuzzing
<1> QED
  BY <1>1, DefaultInvariant, PTL

-----------------------------------------------------------------------------
(* The run of a task: the runtime inside the core.                         *)

\* What the composition does is, for the runtime, a step of its own or none.
LEMMA TaskStepIsRuntimeStep == TaskRunNext => [Next]_vars
BY DEF TaskRunNext, RunStep, Create, Start, StartFails, Supervisor, Route, RouteRaises,
       Agent, Return, Cancel, Next

\* The properties of the runtime are kept inside the core.
THEOREM TaskRunInvariant == TaskRunSpec => [](IInv /\ DefaultInv /\ ~InjectedSupervisor)
<1>1. TaskRunInit => IInv /\ DefaultInv /\ ~InjectedSupervisor
  BY InitEstablishes, InitIsDefault DEF TaskRunInit
<1>2. /\ IInv /\ DefaultInv /\ ~InjectedSupervisor
      /\ [TaskRunNext]_allVars
      => (IInv /\ DefaultInv /\ ~InjectedSupervisor)'
  <2>1. [TaskRunNext]_allVars => [Next]_vars
    BY TaskStepIsRuntimeStep DEF allVars
  <2>2. ~InjectedSupervisor => (~InjectedSupervisor)'
    BY DEF InjectedSupervisor
  <2> QED
    BY <2>1, <2>2, StepKeeps, StepIsDefault
<1> QED
  BY <1>1, <1>2, PTL DEF TaskRunSpec

\* The agents of the runtime are the routes the core knows.
LEMMA WaitingIsRoute ==
    ASSUME IInv, pc \in {"dispatch", "running"}
    PROVE  next_agent \in Core!Routes
BY DEF IInv, Pending, Dispatchable, Core!Routes, Core!RouteStatus, AgentRoutes,
       DiscoveryRoutes, AnalysisRoutes

\* The runtime behaves as the orchestrator expects of any runtime: every step of
\* the composition is one of the core, or the core does not see it.
LEMMA TaskStepIsCoreStep ==
    IInv /\ [TaskRunNext]_allVars => [Core!Next]_(Core!vars)
<1> SUFFICES ASSUME IInv, [TaskRunNext]_allVars
             PROVE  Core!Next \/ UNCHANGED Core!vars
  OBVIOUS
<1>1. CASE UNCHANGED allVars
  BY <1>1 DEF allVars, vars, context, coreVars, Core!vars
<1>2. CASE Create \/ Start \/ StartFails \/ Cancel
  BY <1>2 DEF Create, Start, StartFails, Cancel, Core!Next
<1>3. CASE Supervisor
  BY <1>3 DEF Supervisor, Supervise, context, coreVars, Core!vars
<1>4. CASE Route
  BY <1>4, WaitingIsRoute DEF Route, StartAgent, Core!Next
<1>5. CASE RouteRaises
  BY <1>5, WaitingIsRoute DEF RouteRaises, ObserverRaises, Core!Next
<1>6. CASE Agent
  BY <1>6 DEF Agent, Core!Next
<1>7. CASE Return
  <2>1. metadata.execution_failed \in BOOLEAN
    BY TypeOKSplits DEF IInv, StateTypeOK, Metadata
  <2> QED
    BY <1>7, <2>1 DEF Return, Core!Next
<1> QED
  BY <1>1, <1>2, <1>3, <1>4, <1>5, <1>6, <1>7 DEF TaskRunNext, RunStep

\* The orchestrator with this runtime implements the orchestrator with any.
THEOREM TaskRunImplementsCore == TaskRunSpec => Core!Spec
<1>1. TaskRunInit => Core!Init
  BY DEF TaskRunInit
<1> QED
  BY <1>1, TaskStepIsCoreStep, TaskRunInvariant, PTL DEF TaskRunSpec, Core!Spec

-----------------------------------------------------------------------------
(* What the core shows while the runtime runs, and after it.               *)

\* The status that belongs to an agent.
ShownFor(agent) == IF agent = "none" THEN "profiling" ELSE Core!RouteStatus[agent]

CoreTypes ==
    /\ status \in [{TaskId} -> Core!TaskStatus \cup {"absent"}]
    /\ cached \in [{TaskId} -> Core!TaskStatus \cup {"none"}]
    /\ running \subseteq {TaskId}
    /\ Cardinality(evidence) \in Nat

\* Before its run, a task has neither a runtime that has moved nor evidence.
Fresh ==
    status[TaskId] \in {"absent", "created"} =>
        /\ TaskId \notin running
        /\ pc = "supervise" /\ current_agent = "none"
        /\ stored = {}

\* During its run, a task shows the agent that runs, or that ran last.
Owned ==
    TaskId \in running =>
        /\ status[TaskId] \notin Core!Terminal
        /\ cached[TaskId] = ShownFor(IF pc = "running" THEN next_agent ELSE current_agent)
        /\ stored = {}

TaskInv == CoreTypes /\ Fresh /\ Owned /\ CompletedIsClean

\* Routes lead to statuses that are neither the first nor the last.
LEMMA RouteStatusInside ==
    ASSUME NEW r \in Core!Routes
    PROVE  /\ Core!RouteStatus[r] \in Core!TaskStatus
           /\ Core!RouteStatus[r] \notin Core!Terminal \cup {"absent", "created"}
BY DEF Core!Routes, Core!RouteStatus, Core!TaskStatus, Core!Terminal

\* A run that gives its task up without completing it.
LEMMA GivenUpKeeps ==
    ASSUME TaskInv, TaskId \in running, CoreTypes', TaskId \notin running',
           status'[TaskId] \in {status[TaskId], "failed"}
    PROVE  TaskInv'
<1>1. status[TaskId] \notin Core!Terminal /\ status[TaskId] \notin {"absent", "created"}
  BY DEF TaskInv, Owned, Fresh
<1>2. status'[TaskId] \notin {"completed", "absent", "created"}
  BY <1>1 DEF Core!Terminal
<1> QED
  BY <1>2 DEF TaskInv, Fresh, Owned, CompletedIsClean

LEMMA ExceptionKeeps ==
    ASSUME TaskInv, TaskId \in running, NEW n, Core!HandleException(TaskId, n),
           evidence' = evidence
    PROVE  TaskInv'
<1>1. /\ status \in [{TaskId} -> Core!TaskStatus \cup {"absent"}]
      /\ cached \in [{TaskId} -> Core!TaskStatus \cup {"none"}]
      /\ running \subseteq {TaskId}
      /\ Cardinality(evidence) \in Nat
  BY DEF TaskInv, CoreTypes
<1>2. running' = running \ {TaskId} /\ Core!MarkFailed(TaskId, cached[TaskId])
  BY DEF Core!HandleException
<1>3. /\ status' \in [{TaskId} -> Core!TaskStatus \cup {"absent"}]
      /\ cached' \in [{TaskId} -> Core!TaskStatus \cup {"none"}]
      /\ status'[TaskId] \in {status[TaskId], "failed"}
  <2>1. \/ status' = status /\ cached' = [cached EXCEPT ![TaskId] = cached[TaskId]]
        \/ /\ status' = [status EXCEPT ![TaskId] = "failed"]
           /\ cached' = [cached EXCEPT ![TaskId] = "failed"]
    BY <1>2 DEF Core!MarkFailed, Core!Persist
  <2> QED
    BY <1>1, <2>1 DEF Core!TaskStatus
<1>4. CoreTypes'
  BY <1>1, <1>2, <1>3 DEF CoreTypes
<1> QED
  BY <1>2, <1>3, <1>4, GivenUpKeeps

LEMMA TaskInitHolds == TaskRunInit => TaskInv
<1> SUFFICES ASSUME TaskRunInit PROVE TaskInv
  OBVIOUS
<1>1. /\ status = [t \in {TaskId} |-> "absent"] /\ cached = [t \in {TaskId} |-> "none"]
      /\ running = {} /\ stored = {}
  BY DEF TaskRunInit, Core!Init
<1>2. pc = "supervise" /\ current_agent = "none" /\ evidence = {}
  BY DEF TaskRunInit, Init
<1>3. Cardinality(evidence) = 0
  BY <1>2, FS_EmptySet
<1> QED
  BY <1>1, <1>2, <1>3 DEF TaskInv, CoreTypes, Fresh, Owned, CompletedIsClean

\* The steps that only the core takes before a run.
LEMMA BeforeRunKeeps ==
    ASSUME TaskInv, Create \/ Start \/ StartFails
    PROVE  TaskInv'
<1>1. /\ UNCHANGED <<pc, current_agent, next_agent, evidence>>
  BY DEF Create, Start, StartFails, vars, state, context
<1>2. /\ status \in [{TaskId} -> Core!TaskStatus \cup {"absent"}]
      /\ cached \in [{TaskId} -> Core!TaskStatus \cup {"none"}]
      /\ running \subseteq {TaskId}
      /\ Cardinality(evidence) \in Nat
  BY DEF TaskInv, CoreTypes
<1>3. ASSUME status[TaskId] \in {"absent", "created"}
      PROVE  /\ TaskId \notin running /\ stored = {}
             /\ pc = "supervise" /\ current_agent = "none"
  BY <1>3 DEF TaskInv, Fresh
<1>4. CASE Create
  <2>1. /\ status[TaskId] = "absent"
        /\ status' = [status EXCEPT ![TaskId] = "created"]
        /\ UNCHANGED <<running, cached, stored>>
    BY <1>4 DEF Create, Core!CreateTask
  <2>2. CoreTypes'
    BY <1>1, <1>2, <2>1 DEF CoreTypes, Core!TaskStatus
  <2> QED
    BY <1>1, <1>2, <1>3, <2>1, <2>2 DEF TaskInv, Fresh, Owned, CompletedIsClean
<1>5. CASE Start
  <2>1. /\ status[TaskId] = "created"
        /\ running' = running \cup {TaskId}
        /\ status' = [status EXCEPT ![TaskId] = "profiling"]
        /\ cached' = [cached EXCEPT ![TaskId] = "profiling"]
        /\ stored' = stored
    BY <1>5 DEF Start, Core!StartRun, Core!Runnable, Core!Persist
  <2>2. CoreTypes'
    BY <1>1, <1>2, <2>1 DEF CoreTypes, Core!TaskStatus
  <2>3. status'[TaskId] = "profiling" /\ cached'[TaskId] = "profiling"
    BY <1>2, <2>1
  <2> QED
    BY <1>1, <1>3, <2>1, <2>2, <2>3
       DEF TaskInv, Fresh, Owned, CompletedIsClean, ShownFor, Core!Terminal
<1>6. CASE StartFails
  <2>1. /\ status[TaskId] = "created" /\ Core!MarkFailed(TaskId, status[TaskId])
        /\ UNCHANGED <<running, stored>>
    BY <1>6 DEF StartFails, Core!StartFails, Core!Runnable
  <2>2. /\ status' \in {status, [status EXCEPT ![TaskId] = "failed"]}
        /\ cached' \in {[cached EXCEPT ![TaskId] = "created"],
                        [cached EXCEPT ![TaskId] = "failed"]}
    BY <2>1 DEF Core!MarkFailed, Core!Persist, Core!Terminal
  <2>3. CoreTypes'
    BY <1>1, <1>2, <2>1, <2>2 DEF CoreTypes, Core!TaskStatus
  <2>4. status'[TaskId] \in {"created", "failed"}
    BY <1>2, <2>1, <2>2
  <2> QED
    BY <1>1, <1>3, <2>1, <2>3, <2>4 DEF TaskInv, Fresh, Owned, CompletedIsClean
<1> QED
  BY <1>4, <1>5, <1>6

\* While the runtime runs: the core follows the agents.
LEMMA RunningKeeps ==
    ASSUME IInv, TaskInv, Supervisor \/ Route \/ Agent
    PROVE  TaskInv'
<1>1. TaskId \in running
  BY DEF Supervisor, Route, Agent, Core!RouteTo, Core!Merge
<1>2. /\ status[TaskId] \notin Core!Terminal \cup {"absent", "created"}
      /\ cached[TaskId] = ShownFor(IF pc = "running" THEN next_agent ELSE current_agent)
      /\ stored = {}
  BY <1>1 DEF TaskInv, Owned, Fresh
<1>3. /\ status \in [{TaskId} -> Core!TaskStatus \cup {"absent"}]
      /\ cached \in [{TaskId} -> Core!TaskStatus \cup {"none"}]
      /\ running \subseteq {TaskId}
      /\ Cardinality(evidence) \in Nat
  BY DEF TaskInv, CoreTypes
<1>4. "completed" \in Core!Terminal
  BY DEF Core!Terminal
<1>5. CASE Supervisor
  <2>1. /\ pc = "supervise" /\ pc' \in {"ended", "dispatch"}
        /\ UNCHANGED <<current_agent, evidence, status, running, cached, stored>>
    BY <1>5 DEF Supervisor, Supervise, context, coreVars
  <2>2. CoreTypes'
    BY <1>3, <2>1 DEF CoreTypes
  <2> QED
    BY <1>2, <1>4, <2>1, <2>2 DEF TaskInv, Fresh, Owned, CompletedIsClean
<1>6. CASE Route
  <2>1. /\ pc = "dispatch" /\ pc' = "running"
        /\ UNCHANGED <<current_agent, next_agent, evidence, running, stored>>
        /\ \/ /\ Core!RouteStatus[next_agent] = cached[TaskId]
              /\ UNCHANGED <<status, cached>>
           \/ /\ status' = [status EXCEPT ![TaskId] = Core!RouteStatus[next_agent]]
              /\ cached' = [cached EXCEPT ![TaskId] = Core!RouteStatus[next_agent]]
    BY <1>6 DEF Route, StartAgent, context, Core!RouteTo, Core!Persist
  <2>2. /\ Core!RouteStatus[next_agent] \in Core!TaskStatus
        /\ Core!RouteStatus[next_agent] \notin Core!Terminal \cup {"absent", "created"}
    BY <2>1, WaitingIsRoute, RouteStatusInside
  <2>3. next_agent # "none"
    BY <2>1 DEF IInv, Pending, Dispatchable, AgentRoutes, DiscoveryRoutes, AnalysisRoutes
  <2>4. CoreTypes'
    BY <1>3, <2>1, <2>2 DEF CoreTypes
  <2>5. /\ status'[TaskId] \notin Core!Terminal \cup {"absent", "created"}
        /\ cached'[TaskId] = ShownFor(next_agent)
    BY <1>2, <1>3, <2>1, <2>2, <2>3 DEF ShownFor
  <2> QED
    BY <1>2, <1>4, <2>1, <2>4, <2>5 DEF TaskInv, Fresh, Owned, CompletedIsClean
<1>7. CASE Agent
  <2>1. AgentLeaves /\ UNCHANGED <<status, running, cached, stored>>
    BY <1>7
       DEF Agent, FinishAgent, PlannerAgent, AnalysisAgent, FuzzAgent, VerificationAgent,
           ReviewerAgent, ReportAgent, AgentFails, AgentSucceeds, Core!Merge
  <2>2. pc = "running" /\ pc' = "supervise" /\ current_agent' = next_agent
    BY <2>1 DEF AgentLeaves
  <2>3. Cardinality(evidence') \in Nat
    <3> DEFINE before == [t \in {TaskId} |-> Cardinality(evidence)]
               after == [t \in {TaskId} |-> Cardinality(evidence')]
    <3>1. after \in {[before EXCEPT ![TaskId] = n] : n \in before[TaskId]..MaxEvidence}
      BY <1>7 DEF Agent, Core!Merge
    <3>2. PICK n \in before[TaskId]..MaxEvidence : after = [before EXCEPT ![TaskId] = n]
      BY <3>1
    <3>3. after[TaskId] = n /\ before[TaskId] = Cardinality(evidence)
      BY <3>2
    <3>4. n \in Nat
      BY <1>3, <3>2, <3>3
    <3> QED
      BY <3>3, <3>4
  <2>4. CoreTypes'
    BY <1>3, <2>1, <2>3 DEF CoreTypes
  <2> QED
    BY <1>2, <1>4, <2>1, <2>2, <2>4 DEF TaskInv, Fresh, Owned, CompletedIsClean
<1> QED
  BY <1>5, <1>6, <1>7

\* The pairs of one task with 1 to n are n.
LEMMA PiecesOfTask ==
    ASSUME NEW t, NEW n \in Nat
    PROVE  Cardinality({p \in {<<t, i>> : i \in 1..n} : p[1] = t}) = n
<1> DEFINE pieces == {<<t, i>> : i \in 1..n}
           pair == [i \in 1..n |-> <<t, i>>]
<1>1. {p \in pieces : p[1] = t} = pieces
  OBVIOUS
<1>2. IsFiniteSet(1..n) /\ Cardinality(1..n) = n
  BY FS_Interval
<1>3. pair \in Bijection(1..n, pieces)
  BY DEF Bijection, Injection, Surjection, IsInjective
<1>4. ExistsBijection(1..n, pieces)
  BY <1>3 DEF ExistsBijection
<1>5. Cardinality(pieces) = n
  BY <1>2, <1>4, FS_Bijection
<1> QED
  BY <1>1, <1>5

\* The runtime ended without a failure, and the core completes the task.
LEMMA CompleteKeeps ==
    ASSUME IInv, DefaultInv, TaskInv, TaskId \in running, pc = "ended",
           ~metadata.execution_failed, UNCHANGED vars, Core!Complete(TaskId)
    PROVE  TaskInv'
<1>1. UNCHANGED <<pc, current_agent, route_history, completed_agents, findings, evidence,
                  reports>>
  BY DEF vars, state, context
<1>2. /\ status \in [{TaskId} -> Core!TaskStatus \cup {"absent"}]
      /\ cached \in [{TaskId} -> Core!TaskStatus \cup {"none"}]
      /\ running \subseteq {TaskId}
      /\ Cardinality(evidence) \in Nat
      /\ stored = {}
  BY DEF TaskInv, CoreTypes, Owned
<1>3. /\ reports # <<>>
      /\ status' = [status EXCEPT ![TaskId] = "completed"]
      /\ cached' = [cached EXCEPT ![TaskId] = "completed"]
      /\ running' = running \ {TaskId}
      /\ stored' = stored \cup {<<TaskId, i>> : i \in 1..Cardinality(evidence)}
  BY DEF Core!Complete, Core!Persist
<1>4. CoreTypes'
  BY <1>1, <1>2, <1>3 DEF CoreTypes, Core!TaskStatus
<1>5. completed_agents = route_history
  BY DEF DefaultInv, Failing
<1>6. reports[Len(reports)] = findings
  <2>1. reports = <<findings>>
    BY <1>3 DEF DefaultInv, Reporting
  <2> QED
    BY <2>1
<1>7. Cardinality({p \in stored' : p[1] = TaskId}) = Cardinality(evidence)
  <2>1. stored' = {<<TaskId, i>> : i \in 1..Cardinality(evidence)}
    BY <1>2, <1>3
  <2>2. Cardinality({p \in {<<TaskId, i>> : i \in 1..Cardinality(evidence)} : p[1] = TaskId})
          = Cardinality(evidence)
    BY <1>2, PiecesOfTask
  <2> QED
    BY <2>1, <2>2
<1>8. \A k \in DOMAIN findings : findings[k].evidence_ids \subseteq evidence
  BY DEF IInv, Sound, FindingsGrounded
<1>9. CompletedIsClean'
  BY <1>1, <1>5, <1>6, <1>7, <1>8 DEF CompletedIsClean
<1>10. status'[TaskId] = "completed" /\ TaskId \notin running'
  BY <1>2, <1>3
<1> QED
  BY <1>4, <1>9, <1>10 DEF TaskInv, Fresh, Owned

LEMMA EndOfRunKeeps ==
    ASSUME IInv, DefaultInv, TaskInv, RouteRaises \/ Return \/ Cancel
    PROVE  TaskInv'
<1>1. TaskId \in running
  BY DEF RouteRaises, Return, Cancel, Core!RouteRaises, Core!Return, Core!Cancel
<1>2. CASE RouteRaises
  <2>1. Core!HandleException(TaskId, 0) /\ evidence' = evidence
    BY <1>2 DEF RouteRaises, Core!RouteRaises, ObserverRaises, context
  <2> QED
    BY <1>1, <2>1, ExceptionKeeps
<1>3. CASE Return
  <2>1. pc = "ended" /\ UNCHANGED vars /\ Core!Return(TaskId, metadata.execution_failed)
        /\ evidence' = evidence
    BY <1>3 DEF Return, vars, context
  <2>2. CASE \E n : Core!HandleException(TaskId, n)
    BY <1>1, <2>1, <2>2, ExceptionKeeps
  <2>3. CASE ~metadata.execution_failed /\ Core!Complete(TaskId)
    BY <1>1, <2>1, <2>3, CompleteKeeps
  <2> QED
    BY <2>1, <2>2, <2>3
       DEF Core!Return, Core!NoReport, Core!SaveFails, Core!EndFailed
<1>4. CASE Cancel
  <2>1. running' = running \ {TaskId} /\ UNCHANGED <<status, cached, evidence>>
    BY <1>4 DEF Cancel, Core!Cancel, vars, context
  <2>2. CoreTypes' /\ TaskId \notin running'
    BY <2>1 DEF TaskInv, CoreTypes
  <2> QED
    BY <1>1, <2>1, <2>2, GivenUpKeeps
<1> QED
  BY <1>2, <1>3, <1>4

LEMMA TaskStepKeeps ==
    IInv /\ DefaultInv /\ TaskInv /\ [TaskRunNext]_allVars => TaskInv'
<1> SUFFICES ASSUME IInv, DefaultInv, TaskInv, [TaskRunNext]_allVars PROVE TaskInv'
  OBVIOUS
<1>1. CASE UNCHANGED allVars
  <2>1. UNCHANGED <<pc, current_agent, next_agent, route_history, completed_agents,
                    findings, evidence, reports, status, running, cached, stored>>
    BY <1>1 DEF allVars, vars, state, context, coreVars
  <2> QED
    BY <2>1 DEF TaskInv, CoreTypes, Fresh, Owned, CompletedIsClean
<1>2. CASE Create \/ Start \/ StartFails
  BY <1>2, BeforeRunKeeps
<1>3. CASE Supervisor \/ Route \/ Agent
  BY <1>3, RunningKeeps
<1>4. CASE RouteRaises \/ Return \/ Cancel
  BY <1>4, EndOfRunKeeps
<1> QED
  BY <1>1, <1>2, <1>3, <1>4 DEF TaskRunNext, RunStep

(* Every state of the whole task, with the orchestrator's steps around the *)
(* graph, keeps both and what ties the task's status to the run.           *)
THEOREM TaskInvariant == TaskRunSpec => [](IInv /\ DefaultInv /\ TaskInv)
  BY TaskInitHolds, TaskStepKeeps, TaskRunInvariant, PTL DEF TaskRunSpec

\* A task is completed only by a run in which no agent failed, whose report shows
\* what was found, and all of whose evidence was stored.
THEOREM CompletedTasksAreClean == TaskRunSpec => []CompletedIsClean
<1>1. TaskInv => CompletedIsClean
  BY DEF TaskInv
<1> QED
  BY <1>1, TaskInvariant, PTL

\* on_route never asks for a transition the lifecycle forbids, and the end of a
\* run without failure can always be recorded.
THEOREM RoutesStayLegal == TaskRunSpec => []RoutesAreLegal
<1>1. IInv /\ DefaultInv /\ TaskInv => RoutesAreLegal
  <2> SUFFICES ASSUME IInv, DefaultInv, TaskInv, TaskId \in running
               PROVE  /\ pc = "dispatch" =>
                           LET s == Core!RouteStatus[next_agent]
                           IN  s = cached[TaskId] \/ Core!CanTransition(cached[TaskId], s)
                      /\ pc = "ended" /\ ~metadata.execution_failed =>
                           reports # <<>> /\ Core!CanTransition(cached[TaskId], "completed")
    BY DEF RoutesAreLegal
  <2>1. ASSUME pc = "dispatch"
        PROVE  \/ Core!RouteStatus[next_agent] = cached[TaskId]
               \/ Core!CanTransition(cached[TaskId], Core!RouteStatus[next_agent])
    <3>1. /\ current_agent \in AgentRoutes \cup {"none"} /\ current_agent # "report"
          /\ next_agent \in Successors(current_agent) \cup {"report"}
      BY <2>1, TypeOKSplits DEF IInv, StateTypeOK, DefaultInv, Position, Waiting
    <3>2. cached[TaskId] = ShownFor(current_agent)
      BY <2>1 DEF TaskInv, Owned
    <3>3. AnalysisRoute(task) \in AnalysisRoutes
      BY DEF AnalysisRoute, AnalysisRoutes
    <3> USE DEF ShownFor, Core!RouteStatus, Core!CanTransition, Core!Transitions
    <3>4. CASE current_agent = "none"
      BY <3>1, <3>2, <3>4 DEF Successors, AnalysisRoutes
    <3>5. CASE current_agent = "planner"
      BY <3>1, <3>2, <3>3, <3>5 DEF Successors, AnalysisRoutes
    <3>6. CASE current_agent \in AnalysisRoutes
      BY <3>1, <3>2, <3>6 DEF Successors, AnalysisRoutes
    <3>7. CASE current_agent = "fuzz"
      BY <3>1, <3>2, <3>7 DEF Successors, AnalysisRoutes
    <3>8. CASE current_agent = "verification"
      BY <3>1, <3>2, <3>3, <3>8 DEF Successors, AnalysisRoutes
    <3>9. CASE current_agent = "reviewer"
      BY <3>1, <3>2, <3>9 DEF Successors, AnalysisRoutes
    <3> QED
      BY <3>1, <3>4, <3>5, <3>6, <3>7, <3>8, <3>9 DEF AgentRoutes, DiscoveryRoutes
  <2>2. ASSUME pc = "ended", ~metadata.execution_failed
        PROVE  reports # <<>> /\ Core!CanTransition(cached[TaskId], "completed")
    <3>1. current_agent = "report"
      BY <2>2 DEF DefaultInv, Position
    <3>2. cached[TaskId] = "reporting"
      BY <2>2, <3>1 DEF TaskInv, Owned, ShownFor, Core!RouteStatus
    <3> QED
      BY <2>2, <3>1, <3>2
         DEF DefaultInv, Reporting, Core!CanTransition, Core!Transitions
  <2> QED
    BY <2>1, <2>2
<1> QED
  BY <1>1, TaskInvariant, PTL
=============================================================================
