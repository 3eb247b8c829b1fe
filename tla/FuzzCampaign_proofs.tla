------------------------- MODULE FuzzCampaign_proofs -------------------------
(***************************************************************************)
(* For any number of seeds and mutations, and a target that may exit with  *)
(* anything: the types of FuzzCampaign, that no target outlives its        *)
(* execution, that a campaign which returns is complete, and that its      *)
(* counters agree with its evidence.                                       *)
(***************************************************************************)
EXTENDS FuzzCampaign, FiniteSetTheorems, TLAPS

\* What one execution may leave: a crash ended by itself, with a signal.
Results ==
    [returncode: ReturnCodes \cup {0}, timed_out: BOOLEAN, crashed: BOOLEAN,
     stderr: Outputs]
Consistent(e) ==
    /\ e.crashed => ~e.timed_out /\ e.returncode < 0
    /\ ~e.timed_out => e.returncode \in ReturnCodes

\* Where the engine is tells what became of the target and of the plan.
Shape ==
    /\ evidence \in Seq(Results)
    /\ \A i \in DOMAIN evidence : Consistent(evidence[i])
    /\ pc \in {"gates", "refused"} => target = "none" /\ evidence = <<>>
    /\ pc \notin {"gates", "refused"} => ~Refused
    /\ pc \in {"communicate", "drain"} => Len(evidence) < Planned
    /\ pc = "ended" => Len(evidence) = Planned
    /\ target = "exited" => exit \in Exits

\* The fingerprints of the crashes among executions.
Prints(executions) ==
    {Fingerprint(executions[i]) :
        i \in {j \in DOMAIN executions : executions[j].crashed}}

\* The counters follow the evidence, and a crash that is new by its
\* fingerprint is new by its signature.
Counted ==
    /\ crash_fingerprints = Prints(evidence)
    /\ IsFiniteSet(crash_fingerprints)
    /\ crashes = Cardinality(crash_fingerprints)
    /\ IsFiniteSet(unique_signatures)
    /\ crashes <= Cardinality(unique_signatures)
    /\ Cardinality(unique_signatures) <= Len(evidence)
    /\ \A c \in ReturnCodes, o \in Outputs :
         <<c, TRUE, o>> \in unique_signatures => <<c, o>> \in crash_fingerprints

IInv == TypeOK /\ Shape /\ NoTargetLeft /\ Counted

-----------------------------------------------------------------------------

LEMMA PlannedType == TypeOK => Planned \in Nat
<1> SUFFICES ASSUME TypeOK PROVE Planned \in Nat
  OBVIOUS
<1>1. request.seeds \in 0..MaxSeeds
  BY DEF TypeOK
<1>2. Seeds \in Nat
  BY <1>1, FuzzAssumption DEF Seeds
<1> QED
  BY <1>2, FuzzAssumption DEF Planned

LEMMA PlanKept ==
    ASSUME request' = request
    PROVE  Planned' = Planned /\ Refused' = Refused
BY DEF Planned, Seeds, Refused

LEMMA InitKeeps == Init => IInv
<1> SUFFICES ASSUME Init PROVE IInv
  OBVIOUS
<1>1. crash_fingerprints = Prints(evidence)
  BY DEF Init, Prints
<1>2. Counted
  BY <1>1, FS_EmptySet DEF Init, Counted
<1>3. Shape /\ NoTargetLeft
  BY DEF Init, Shape, NoTargetLeft
<1>4. Planned \in Nat
  <2>1. request.seeds \in 0..MaxSeeds
    BY DEF Init
  <2>2. Seeds \in Nat
    BY <2>1, FuzzAssumption DEF Seeds
  <2> QED
    BY <2>2, FuzzAssumption DEF Planned
<1>5. TypeOK
  <2>1. evidence = <<>> /\ Len(evidence) = 0 /\ DOMAIN evidence = {}
    BY DEF Init
  <2>2. Len(evidence) <= Planned
    BY <1>4, <2>1
  <2>3. crash_fingerprints \subseteq ReturnCodes \X Outputs /\ crashes \in Nat
    BY DEF Init
  <2>4. exit \in Exits \cup {NoExit} /\ killed \in BOOLEAN /\ pipes_held \in BOOLEAN
    BY DEF Init
  <2>5. /\ request \in [authorized: BOOLEAN, path: {"missing", "directory", "file"},
                        seeds: 0..MaxSeeds]
        /\ pc = "gates" /\ target = "none"
    BY DEF Init
  <2> QED
    BY <2>1, <2>2, <2>3, <2>4, <2>5 DEF TypeOK
<1> QED
  BY <1>2, <1>3, <1>5 DEF IInv

\* A step that records nothing keeps the counters.
LEMMA CountedKept == Counted /\ UNCHANGED engineVars => Counted'
BY DEF Counted, engineVars, Prints

-----------------------------------------------------------------------------

\* A crash with a new fingerprint has a new signature.
LEMMA SignatureIsNew ==
    ASSUME Counted, NEW e \in Results, Consistent(e), e.crashed,
           Fingerprint(e) \notin crash_fingerprints
    PROVE  Signature(e) \notin unique_signatures
<1>1. e.returncode \in ReturnCodes /\ e.stderr \in Outputs /\ ~e.timed_out
  BY DEF Results, Consistent
<1>2. e.crashed = TRUE
  BY DEF Results
<1>3. Signature(e) = <<e.returncode, TRUE, e.stderr>>
  BY <1>1, <1>2 DEF Signature
<1> QED
  BY <1>1, <1>3 DEF Counted, Fingerprint

\* What a signature says of a crash.
LEMMA CrashSignature ==
    ASSUME NEW e \in Results, NEW c \in ReturnCodes, NEW o \in Outputs,
           Signature(e) = <<c, TRUE, o>>
    PROVE  e.crashed /\ Fingerprint(e) = <<c, o>>
<1>1. ~e.timed_out
  <2> SUFFICES ASSUME e.timed_out PROVE FALSE
    OBVIOUS
  <2>1. <<"timeout">> = <<c, TRUE, o>>
    BY DEF Signature
  <2>2. Len(<<"timeout">>) = 1 /\ Len(<<c, TRUE, o>>) = 3
    OBVIOUS
  <2> QED
    BY <2>1, <2>2
<1>2. <<e.returncode, e.crashed, e.stderr>> = <<c, TRUE, o>>
  BY <1>1 DEF Signature
<1>3. e.returncode = c /\ e.stderr = o /\ e.crashed = TRUE
  BY <1>2
<1> QED
  BY <1>3 DEF Fingerprint

LEMMA PrintsAppend ==
    ASSUME NEW s \in Seq(Results), NEW e \in Results
    PROVE  Prints(Append(s, e)) =
             IF e.crashed THEN Prints(s) \cup {Fingerprint(e)} ELSE Prints(s)
<1> DEFINE a == Append(s, e)
<1>1. /\ DOMAIN a = (DOMAIN s) \cup {Len(s) + 1}
      /\ \A i \in DOMAIN s : a[i] = s[i]
      /\ a[Len(s) + 1] = e
      /\ Len(s) + 1 \notin DOMAIN s
  OBVIOUS
<1> HIDE DEF a
<1> SUFFICES Prints(a) = IF e.crashed THEN Prints(s) \cup {Fingerprint(e)} ELSE Prints(s)
  BY DEF a
<1>2. ASSUME NEW p \in Prints(a)
      PROVE  p \in Prints(s) \/ (e.crashed /\ p = Fingerprint(e))
  BY <1>1, <1>2 DEF Prints
<1>3. ASSUME NEW p \in Prints(s) PROVE p \in Prints(a)
  BY <1>1, <1>3 DEF Prints
<1>4. e.crashed => Fingerprint(e) \in Prints(a)
  BY <1>1 DEF Prints
<1> QED
  BY <1>2, <1>3, <1>4

LEMMA RecordKeeps ==
    ASSUME Counted, evidence \in Seq(Results),
           NEW e \in Results, Consistent(e), Record(e)
    PROVE  Counted'
<1>1. /\ evidence' = Append(evidence, e)
      /\ unique_signatures' = unique_signatures \cup {Signature(e)}
      /\ Len(evidence') = Len(evidence) + 1 /\ Len(evidence) \in Nat
  BY DEF Record
<1>2. /\ IsFiniteSet(unique_signatures')
      /\ Cardinality(unique_signatures) \in Nat
      /\ Cardinality(unique_signatures') =
           IF Signature(e) \in unique_signatures THEN Cardinality(unique_signatures)
           ELSE Cardinality(unique_signatures) + 1
  BY <1>1, FS_AddElement, FS_CardinalityType DEF Counted
<1>3. Cardinality(unique_signatures') <= Len(evidence')
  BY <1>1, <1>2 DEF Counted
<1>4. crash_fingerprints' =
        IF e.crashed THEN crash_fingerprints \cup {Fingerprint(e)} ELSE crash_fingerprints
  BY DEF Record
<1>5. crash_fingerprints' = Prints(evidence')
  BY <1>1, <1>4, PrintsAppend DEF Counted
<1>6. /\ IsFiniteSet(crash_fingerprints')
      /\ crashes' = Cardinality(crash_fingerprints')
      /\ crashes' <= Cardinality(unique_signatures')
  <2>1. crashes \in Nat
    BY FS_CardinalityType DEF Counted
  <2>2. CASE e.crashed /\ Fingerprint(e) \notin crash_fingerprints
    <3>1. /\ IsFiniteSet(crash_fingerprints')
          /\ Cardinality(crash_fingerprints') = crashes + 1
      BY <1>4, <2>2, FS_AddElement DEF Counted
    <3>2. crashes' = crashes + 1
      BY <2>2 DEF Record
    <3>3. Cardinality(unique_signatures') = Cardinality(unique_signatures) + 1
      BY <1>2, <2>2, SignatureIsNew
    <3> QED
      BY <1>2, <2>1, <3>1, <3>2, <3>3 DEF Counted
  <2>3. CASE ~(e.crashed /\ Fingerprint(e) \notin crash_fingerprints)
    <3>1. crashes' = crashes /\ crash_fingerprints' = crash_fingerprints
      BY <2>3 DEF Record
    <3> QED
      BY <1>2, <2>1, <3>1 DEF Counted
  <2> QED
    BY <2>2, <2>3
<1>7. ASSUME NEW c \in ReturnCodes, NEW o \in Outputs,
             <<c, TRUE, o>> \in unique_signatures'
      PROVE  <<c, o>> \in crash_fingerprints'
  <2>1. CASE <<c, TRUE, o>> \in unique_signatures
    BY <1>4, <2>1 DEF Counted
  <2>2. CASE Signature(e) = <<c, TRUE, o>>
    BY <1>4, <2>2, CrashSignature
  <2> QED
    BY <1>1, <1>7, <2>1, <2>2
<1> QED
  BY <1>2, <1>3, <1>5, <1>6, <1>7 DEF Counted

-----------------------------------------------------------------------------

\* An execution has ended, by itself or by the timeout, and is recorded.
LEMMA ExecutionKeeps ==
    ASSUME IInv, pc \in {"communicate", "drain"}, target = "exited",
           NEW timed_out \in BOOLEAN,
           Record(Execution(IF timed_out THEN 0 ELSE exit.returncode,
                            timed_out, exit.stderr)),
           pc' = "next", UNCHANGED <<request, targetVars>>
    PROVE  IInv'
<1> DEFINE e == Execution(IF timed_out THEN 0 ELSE exit.returncode,
                          timed_out, exit.stderr)
<1>1. exit.returncode \in ReturnCodes /\ exit.stderr \in Outputs
  BY DEF IInv, Shape, Exits
<1>2. e \in Results /\ Consistent(e)
  <2>1. exit.returncode \in Int
    BY <1>1, FuzzAssumption
  <2> QED
    BY <1>1, <2>1 DEF Execution, Results, Consistent
<1> HIDE DEF e
<1>3. Record(e)
  BY DEF e
<1>4. evidence \in Seq(Results) /\ evidence' = Append(evidence, e)
  BY <1>3 DEF IInv, Shape, Record
<1>5. Counted'
  BY <1>2, <1>3, <1>4, RecordKeeps DEF IInv
<1>6. /\ evidence' \in Seq(Results)
      /\ Len(evidence') = Len(evidence) + 1
      /\ \A i \in DOMAIN evidence' : evidence'[i] \in Results /\ Consistent(evidence'[i])
  BY <1>2, <1>4 DEF IInv, Shape
<1>7. Len(evidence') <= Planned /\ Planned' = Planned /\ Refused' = Refused
  <2>1. Len(evidence) < Planned /\ Len(evidence) \in Nat /\ Planned \in Nat
    BY <1>4, PlannedType DEF IInv, Shape
  <2> QED
    BY <1>6, <2>1, PlanKept
<1>8. crash_fingerprints' \subseteq ReturnCodes \X Outputs /\ crashes' \in Nat
  <2>1. e.crashed => Fingerprint(e) \in ReturnCodes \X Outputs
    BY <1>2 DEF Fingerprint, Consistent, Results
  <2> QED
    BY <1>3, <2>1 DEF IInv, TypeOK, Record
<1>9. TypeOK'
  BY <1>6, <1>7, <1>8 DEF IInv, TypeOK, targetVars, Results, Consistent
<1>10. Shape'
  BY <1>6, <1>7 DEF IInv, Shape, targetVars, Exits
<1>11. NoTargetLeft'
  BY DEF NoTargetLeft, targetVars
<1> QED
  BY <1>5, <1>9, <1>10, <1>11 DEF IInv

\* A step of the target or its descendants.
LEMMA TargetKeeps ==
    ASSUME IInv, TargetForks \/ TargetExits \/ DescendantExits
    PROVE  IInv'
<1>1. Counted'
  BY CountedKept DEF IInv, TargetForks, TargetExits, DescendantExits
<1>2. UNCHANGED <<request, pc, evidence>> /\ Planned' = Planned /\ Refused' = Refused
  BY PlanKept DEF TargetForks, TargetExits, DescendantExits, engineVars
<1>3. TypeOK'
  BY <1>2 DEF IInv, TypeOK, TargetForks, TargetExits, DescendantExits, engineVars
<1>4. Shape' /\ NoTargetLeft'
  BY <1>2 DEF IInv, Shape, NoTargetLeft, TargetForks, TargetExits, DescendantExits, Exits
<1> QED
  BY <1>1, <1>3, <1>4 DEF IInv

\* A step of the engine between executions, or at its start or end.
LEMMA EngineKeeps ==
    ASSUME IInv, Refuse \/ Begin \/ Raises \/ Launch \/ TimesOut \/ Return
    PROVE  IInv'
<1>1. UNCHANGED <<request, engineVars>> /\ Planned' = Planned /\ Refused' = Refused
  BY PlanKept DEF Refuse, Begin, Raises, Launch, TimesOut, Return
<1>2. Counted'
  BY <1>1, CountedKept DEF IInv
<1>3. TypeOK'
  BY <1>1 DEF IInv, TypeOK, Refuse, Begin, Raises, Launch, TimesOut, Return, engineVars,
              targetVars
<1>4. Shape'
  BY <1>1 DEF IInv, Shape, Refuse, Begin, Raises, Launch, TimesOut, Return, engineVars,
              targetVars, Exits
<1>5. NoTargetLeft'
  BY DEF IInv, NoTargetLeft, Shape, Refuse, Begin, Raises, Launch, TimesOut, Return,
         targetVars
<1> QED
  BY <1>2, <1>3, <1>4, <1>5 DEF IInv

LEMMA NextKeeps == IInv /\ [Next]_vars => IInv'
<1> SUFFICES ASSUME IInv, [Next]_vars PROVE IInv'
  OBVIOUS
<1>1. CASE Refuse \/ Begin \/ Raises \/ Launch \/ TimesOut \/ Return
  BY <1>1, EngineKeeps
<1>2. CASE Communicated
  <2>1. Record(Execution(IF FALSE THEN 0 ELSE exit.returncode, FALSE, exit.stderr))
    BY <1>2 DEF Communicated
  <2> QED
    BY <1>2, <2>1, ExecutionKeeps DEF Communicated
<1>3. CASE Drained
  <2>1. Record(Execution(IF TRUE THEN 0 ELSE exit.returncode, TRUE, exit.stderr))
    BY <1>3 DEF Drained
  <2> QED
    BY <1>3, <2>1, ExecutionKeeps DEF Drained
<1>4. CASE TargetForks \/ TargetExits \/ DescendantExits
  BY <1>4, TargetKeeps
<1>5. CASE UNCHANGED vars
  <2>1. Counted'
    BY <1>5, CountedKept DEF IInv, vars, engineVars
  <2>2. Planned' = Planned /\ Refused' = Refused
    BY <1>5, PlanKept DEF vars
  <2> QED
    BY <1>5, <2>1, <2>2 DEF IInv, TypeOK, Shape, NoTargetLeft, vars, Exits
<1> QED
  BY <1>1, <1>2, <1>3, <1>4, <1>5 DEF Next, Engine

\* The invariant of a campaign holds in every state.
THEOREM InductiveInvariant == Spec => []IInv
BY InitKeeps, NextKeeps, PTL DEF Spec

\* The engine's state keeps its types.
THEOREM TypeCorrect == Spec => []TypeOK
<1>1. IInv => TypeOK
  BY DEF IInv
<1> QED
  BY <1>1, InductiveInvariant, PTL

\* No target outlives its execution, whatever it does at the timeout.
THEOREM NoTargetIsLeft == Spec => []NoTargetLeft
<1>1. IInv => NoTargetLeft
  BY DEF IInv
<1> QED
  BY <1>1, InductiveInvariant, PTL

\* A campaign that returns has executed its plan, and nothing is executed
\* without authorization.
THEOREM CampaignsAreComplete == Spec => []CampaignComplete
<1>1. IInv => CampaignComplete
  BY DEF IInv, Shape, CampaignComplete
<1> QED
  BY <1>1, InductiveInvariant, PTL

\* The counters of a campaign agree with its evidence, however its executions
\* repeat, crash and time out.
THEOREM CrashesAreCounted == Spec => []CrashesCounted
<1>1. IInv => CrashesCounted
  BY DEF IInv, Shape, Counted, Consistent, CrashesCounted, Prints
<1> QED
  BY <1>1, InductiveInvariant, PTL
=============================================================================
